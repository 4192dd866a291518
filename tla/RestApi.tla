------------------------------ MODULE RestApi ------------------------------
(***************************************************************************)
(* The REST server.  A handler is a script that runs behind the middleware;  *)
(* an answer with a status of 400 or more is an error of the script.  The    *)
(* process lives on, so nothing closes what a handler leaves open; a panic    *)
(* costs the request only.                                                   *)
(***************************************************************************)
EXTENDS Commands, Accessibility

\* A device whose tunnel the agent knows but whose services cannot be listed:
\* the error is written, and the handler runs all the same, without a device.
DeviceMiddleware ==
    GetDeviceWithAddress
      \o IfWorks(TunnelInfoForDevice, Attempt(deviceWithRsdProvider, Panic), <<>>)
Handler(body) == DeviceMiddleware \o body

apiList == ListDevices

----------------------------------------------------------------------------
(* The device.                                                              *)

apiActivate == Handler(Activate)
apiGetImages == Handler(ListImages)
apiInstallImage ==
    Handler(Choose({Fail, DownloadImageFor \o MountImage, Local \o MountImage}))

\* A refused request for the values leaves no map to put more values in.
InfoOf(found) ==
    IfWorks(NewDeviceInfoService("dtx"),
            IfWorks(NetworkInformation("dtx"), found, <<>>)
              \o IfWorks(HardwareInformation("dtx"), found, <<>>),
            <<>>)
apiInfo ==
    Handler(IfWorks(GetValuesPlist, InfoOf(<<>>), Choose({InfoOf(<<>>), InfoOf(Panic)})))

apiScreenshot == Handler(With("dtx", NewScreenshotService, TakeScreenshot))
apiSetLocation == Handler(Maybe(Fail) \o SetLocation)
apiResetLocation == Handler(ResetLocation)
apiResetAccessibility ==
    Handler(NewWithoutEventChangeListeners \o ResetToDefaultAccessibilitySettings)
apiGetProfiles == Handler(With("mc", NewMcInstall, HandleList))
apiPairDevice == Handler(Choose({Fail, Pair, PairSupervised}))

\* The control of a condition is kept: only it can disable the condition again.
\* A condition that is already active is reported with status 200.
GetSupportedConditions == Handler(NewDeviceStateControl \o ListProfileTypes)
Conditioned == NewDeviceStateControl \o ListProfileTypes \o Maybe(Fail) \o Enable
EnableDeviceCondition == Handler(Maybe(Fail) \o Maybe(Conditioned))
DisableDeviceCondition == Handler(Disable)

----------------------------------------------------------------------------
(* Applications.                                                            *)

\* Whether there is a connection is not looked at, nor whether a file came.
apiListApps == Handler(Attempt(NewInstallationProxy("apps"), Panic) \o browseApps("apps"))
apiInstallApp == Handler(Choose({Panic, Fail, NewZipConduit \o SendFile}))

apiLaunchApp == Handler(Maybe(Fail) \o NewProcessControl \o StartProcess)
apiKillApp ==
    Handler(Maybe(Fail) \o NewProcessControl
              \o NewInstallationProxy("apps") \o browseApps("apps") \o Maybe(Fail)
              \o With("info", NewDeviceInfoService("info"), ProcessList("info") \o Maybe(KillProcess)))
apiUninstallApp ==
    Handler(Maybe(Fail) \o With("apps", NewInstallationProxy("apps"), Uninstall("apps")))

----------------------------------------------------------------------------
(* Streams.  They end with the client or with the device; the status has    *)
(* been sent by then.                                                        *)

Stream(next) == Try(Loop(next))
apiNotifications ==
    Handler(ListenAppStateNotifications \o Stream(ExpectAny("notif", "notification")))
apiSyslog == Handler(With("syslog", NewSyslog, Stream(ReadLogMessage)))
apiOsTrace ==
    Handler(ParseLevelFilter \o With("ostrace", NewOsTrace, Stream(ReadFilteredEntry)))
apiListen ==
    Handler(Listen \o Deferred(Close("listener"), Stream(ExpectAny("listener", "event"))))

\* The session is answered before the run has begun.
CreateWdaSession(run) == Handler(Local \o Try(RunTestTarget(run)))
=============================================================================
