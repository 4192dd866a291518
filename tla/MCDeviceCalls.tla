--------------------------- MODULE MCDeviceCalls ---------------------------
EXTENDS Outlines, UiCommands, RemotePairing, RestApi, TLC

ConnectionOperations ==
  [ListDevices |-> Op(ListDevices, {}, {}),
   GetDevice |-> Op(GetDeviceWithAddress, {}, {}),
   Listen |-> Op(Listen, {"Listen"}, {"listener"}),
   ReadPairRecord |-> Op(ReadPairRecord, {}, {}),
   Pair |-> Op(Pair, {"Pair", "SavePairRecord"}, {}),
   StartService |-> Op(StartService("StartService"), {"StartService"}, {}),
   ConnectToService |-> Op(ConnectToService("svc"), {"StartService", "Connect"}, {"svc"}),
   ConnectToShimService |-> Op(ConnectToShimService("svc"), {}, {"svc"}),
   ConnectToServiceTunnelIface |-> Op(ConnectToServiceTunnelIface("svc"), {}, {"svc"}),
   ConnectToXpcServiceTunnelIface |-> Op(ConnectToXpcServiceTunnelIface("svc"), {}, {"svc"}),
   RsdHandshake |-> Op(With("rsd", NewWithAddrPort("rsd"), Handshake("rsd")), {"Handshake"}, {}),
   tryHandshake |-> Op(tryHandshake, {}, {}),
   GetProductVersion |-> Op(GetProductVersion, {}, {}),
   GetWifiMac |-> Op(GetWifiMac, {}, {}),
   GetValues |-> Op(GetValues, {}, {}),
   GetValuesPlist |-> Op(GetValuesPlist, {}, {}),
   GetAssistiveTouch |-> Op(GetAssistiveTouch, {}, {}),
   SetAssistiveTouch |-> Op(SetAssistiveTouch, {"AssistiveTouch"}, {}),
   SetVoiceOver |-> Op(SetVoiceOver, {"VoiceOver"}, {}),
   SetZoomTouch |-> Op(SetZoomTouch, {"ZoomTouch"}, {}),
   SetUses24HourClock |-> Op(SetUses24HourClock, {"Uses24HourClock"}, {}),
   SetSystemTime |-> Op(SetSystemTime, {"Time", "TimeZone"}, {}),
   SetLanguage |-> Op(SetLanguage, {}, {}),
   GetLanguage |-> Op(GetLanguage, {"Language", "Locale"}, {}),
   GetBatteryDiagnostics |->
      Op(GetBatteryDiagnostics, {"BatteryCurrentCapacity", "FullyCharged"}, {})]

ImageOperations ==
  [ListImages |-> Op(ListImages, {}, {}),
   MountImage |-> Op(MountImage, {}, {}),
   UnmountImage |-> Op(UnmountImage, {}, {}),
   IsDevModeEnabled |-> Op(IsDevModeEnabled, {}, {}),
   DownloadImageFor |-> Op(DownloadImageFor, {}, {})]

\* activation.go:59-60 promises an error "if the activation is unsuccessful", but
\* the answer to the last request is only logged (activation.go:178-187): it is
\* taken off what activating promises.
UncheckedAnswers == {"HandleActivationInfo"}

\* Activate of a device that is activated sends nothing, so it promises nothing.
ManagementOperations ==
  [Profiles |-> Op(ProfileClient, {}, {}),
   RemoveProxy |-> Op(RemoveProxy, {"RemoveProfile"}, {}),
   SetHttpProxy |-> Op(SetHttpProxy, {"InstallProfileSilent"}, {}),
   Erase |-> Op(Erase, {}, {}),
   PrepareWifi |-> Op(PrepareWifi, {"InstallProfile"}, {}),
   RemoveWifi |-> Op(RemoveWifi, {"RemoveProfile"}, {}),
   Prepare |-> Op(Prepare, {"SetCloudConfiguration", "InstallProfile"}, {}),
   Activate |-> Op(Activate, {}, {}),
   ActivateUnactivated |->
      Op(IsActivated \o activateUnactivated,
         {"CreateTunnel1SessionInfoRequest", "CreateActivationInfoRequest",
          "HandleActivationInfo"} \ UncheckedAnswers, {}),
   EnableDeveloperMode |-> Op(EnableDeveloperMode, {}, {}),
   CopyAll |-> Op(CopyAll, {"CopyAll"}, {}),
   Reboot |-> Op(Reboot, {"Restart"}, {}),
   Shutdown |-> Op(Shutdown, {"Shutdown"}, {}),
   Diagnostics |-> Op(DiagnosticsClient, {}, {})]

FileOperations ==
  [Afc |-> Op(Client(NewAfc("afc"), {List("afc"), Pull("afc"), AfcPush("afc"),
                                    AfcDeviceInfo("afc")}, Close("afc")), {}, {}),
   DownloadReports |-> Op(DownloadReports, {}, {}),
   RemoveReports |-> Op(RemoveReports, {}, {}),
   ListReports |-> Op(ListReports, {}, {}),
   HouseArrest |-> Op(HouseArrest("afc"), {}, {"afc"}),
   FileService |-> Op(Client(NewFileService, {ListDirectory, PullFile, PushFile},
                             Close("fs")), {}, {})]

ApplicationOperations ==
  [Browse |-> Op(With("apps", NewInstallationProxy("apps"), browseApps("apps")), {"Browsed"}, {}),
   Uninstall |-> Op(With("apps", NewInstallationProxy("apps"), Uninstall("apps")),
                    {"Uninstalled"}, {}),
   Install |-> Op(With("zip", NewZipConduit, SendFile), {"Installed"}, {}),
   AppService |-> Op(Client(NewAppService, {LaunchApp, ListProcesses, AppServiceKillProcess},
                            Close("apps")), {}, {}),
   LaunchApp |-> Op(With("apps", NewAppService, LaunchApp), {"LaunchApplication"}, {}),
   LaunchAppWithStdIo |-> Op(With("apps", NewAppService, LaunchAppWithStdIo),
                             {"LaunchApplication"}, {"stdio"}),
   RebootWithStyle |-> Op(With("apps", NewAppService, RebootWithStyle), {}, {}),
   DebugServerStart |-> Op(DebugServerStart, {}, {})]

SmallOperations ==
  [Pasteboard |-> Op(Client(NewPasteboard, {PasteboardSet, PasteboardGet}, Close("pb")), {}, {}),
   Display |-> Op(Client(NewDisplay, {StartVideoStream, StopMediaStream}, Close("display")), {}, {}),
   DisplayInfo |-> Op(Client(NewDeviceInfo, {GetDisplayInfo}, Close("info")), {}, {}),
   HidSession |-> Op(HidSession, {}, {}),
   Springboard |-> Op(Client(NewSpringboard, {GetHomeScreenWallpaperPNG, GetIconLayout,
                                      SetIconLayout, ListIcons}, Close("sb")), {}, {}),
   SetLocationGPX |-> Op(SetLocationGPX, {}, {}),
   ResetLocation |-> Op(ResetLocation, {}, {}),
   WaitUntilSpringboardStarted |-> Op(WaitUntilSpringboardStarted, {}, {}),
   ProcessControl |-> Op(Client(NewProcessControl, ProcessControlMethods, Close("dtx")), {}, {}),
   StartProcess |-> Op(With("dtx", NewProcessControl, StartProcess), {"launchSuspendedProcess"}, {}),
   DeviceInfo |-> Op(Client(NewDeviceInfoService("dtx"), DeviceInfoMethods, Close("dtx")), {}, {}),
   EnableProfile |-> Op(With("dtx", NewDeviceStateControl, ListProfileTypes \o Enable \o Disable),
                        {"enableCondition", "disableCondition"}, {}),
   SimulateLocation |-> Op(NewLocationSimulationService \o Try(StartSimulateLocation)
                             \o StopSimulateLocation, {"stopLocationSimulation"}, {}),
   Screenshot |-> Op(With("dtx", NewScreenshotService, Loop(TakeScreenshot)), {}, {}),
   Sysmontap |-> Op(NewSysmontapService \o SysmontapClose, {"setConfig"}, {}),
   Network |-> Op(NewNetworkService \o NetworkServiceClose, {"startMonitoring"}, {}),
   FrameRate |-> Op(NewGraphicsOpenGLService \o GraphicsOpenGLServiceClose,
                    {"startSamplingAtTimeInterval"}, {})]

TestOperations ==
  [RunTest17 |-> Op(RunTestTarget(runXUITestWithBundleIdsXcode15Ctx),
                    {"initiateSession", "LaunchApplication", "authorizeTestSession"}, {}),
   RunTest14 |-> Op(RunTestTarget(runXUITestWithBundleIdsXcode12Ctx),
                    {"initiateSession", "launchSuspendedProcess"}, {}),
   RunTest |-> Op(RunTestTarget(runXCUIWithBundleIdsXcode11Ctx),
                  {"initiateSession", "launchSuspendedProcess", "initiateControlSession"}, {}),
   StartXCTest |-> Op(StartXCTest(runXUITestWithBundleIdsXcode12Ctx), {}, {})]

StreamOperations ==
  [Syslog |-> Op(With("syslog", NewSyslog, Loop(ReadLogMessage \o Try(SyslogParser))), {}, {}),
   OsTrace |-> Op(With("ostrace", NewOsTrace, Loop(ReadFilteredEntry)), {"StartActivity"}, {}),
   Pcap |-> Op(PcapStart, {}, {}),
   FindIp |-> Op(FindIp, {}, {}),
   StreamScreenshots |-> Op(StartMJPEGStreamingServer, {}, {}),
   Forward |-> Op(ForwardedConnection, {"Connect"}, {}),
   LaunchDebugProxy |-> Op(LaunchDebugProxy, {}, {}),
   DebugProxyConnection |-> Op(startProxyConnection, {}, {})]

InspectionOperations ==
  [SwitchToDevice |-> Op(Client(NewAx, {SwitchToDevice, EnableSelectionMode, DisableSelectionMode},
                                AxClose), {}, {}),
   InspectElement |-> Op(Client(NewAx, {GetElement, QueryAttributeValue, PerformAction}, AxClose),
                         {}, {}),
   AccessibilitySettings |->
      Op(Client(NewWithoutEventChangeListeners,
                {UpdateAccessibilitySetting, ResetToDefaultAccessibilitySettings}, AxClose), {}, {}),
   RunAudit |-> Op(With("ax", NewWithoutEventChangeListeners, RunAudit), {"deviceApiVersion"}, {}),
   WebInspectorReader |-> Op(With("wi", NewClient, readLoop), {}, {}),
   InspectPages |-> Op(With("wi", NewClient, WebInspectorConnect
                              \o Try(Choose({OpenApp, ListPages, Evaluate})) \o Evaluate), {}, {}),
   Automation |-> Op(With("wi", NewClient, WebInspectorConnect \o AutomationSession
                            \o Try(Choose({Navigate, CurrentURL, Title, ExecuteScript}))
                            \o StopAutomation),
                     {"Automation.getBrowsingContexts"}, {}),
   CDPServer |-> Op(With("wi", NewClient, WebInspectorConnect \o CDPServe), {}, {})]

\* What a command's exit status 0 promises.
CommandOperations ==
  [AssistiveTouch |-> Op(DeviceCommand(assistiveTouch), {}, {}),
   SetAssistiveTouchForced |->
      Op(DeviceCommand(GetForced(GetAssistiveTouch) \o SetAssistiveTouch), {"AssistiveTouch"}, {}),
   VoiceOver |-> Op(DeviceCommand(voiceOver), {}, {}),
   ZoomTouch |-> Op(DeviceCommand(zoomTouch), {}, {}),
   TimeFormat |-> Op(DeviceCommand(timeFormat), {}, {}),
   LanguageCommand |-> Op(DeviceCommand(language), {"Language", "Locale"}, {}),
   ListCommand |-> Op(Main(printDeviceList), {}, {}),
   Facts |-> Op(DeviceCommand(Choose({printDeviceDate, printDeviceName, printDiagnostics,
                  printBatteryDiagnostics, printBatteryRegistry, runMobileGestaltCommand,
                  runLockdownCommand, runDiskspaceCommand, readPair})), {}, {}),
   InfoCommand |-> Op(DeviceCommand(runInfoCommand), {}, {}),
   ScreenshotCommand |-> Op(DeviceCommand(runScreenshotCommand), {}, {}),
   InstallCommand |-> Op(DeviceCommand(installApp), {"Installed"}, {}),
   UninstallCommand |-> Op(DeviceCommand(uninstallApp), {"Uninstalled"}, {}),
   AppsCommand |-> Op(DeviceCommand(printInstalledApps), {"Browsed"}, {}),
   PsCommand |-> Op(DeviceCommand(processList), {}, {}),
   LaunchCommand |-> Op(DeviceCommand(runLaunchCommand), {"launchSuspendedProcess"}, {}),
   MemlimitOffCommand |-> Op(DeviceCommand(runMemlimitOffCommand), {"runningProcesses"}, {}),
   KillCommand |-> Op(DeviceCommand(runKillCommand), {}, {}),
   KillOnce |-> Op(DeviceCommand(runKillOnce), {"killPid"}, {}),
   EraseCommand |-> Op(DeviceCommand(runEraseCommand), {}, {}),
   WifiCommand |-> Op(DeviceCommand(runWifiCommand), {}, {}),
   PrepareCommand |-> Op(DeviceCommand(runPrepareCommand), {}, {}),
   HTTPProxyCommand |-> Op(DeviceCommand(runHTTPProxyCommand), {}, {}),
   ProfileCommand |-> Op(DeviceCommand(runProfileCommand), {}, {}),
   ProfileRemove |-> Op(DeviceCommand(handleProfileRemove), {"RemoveProfile"}, {}),
   Wallpapers |-> Op(DeviceCommand(Choose({handleSetWallpaper, handleGetWallpaper,
                       handleGetIconLayout, handleSetIconLayout})), {}, {}),
   PairCommand |-> Op(DeviceCommand(pairDevice), {"SavePairRecord"}, {}),
   RebootCommand |-> Op(DeviceCommand(Choose({runRebootCommand, runShutdownCommand})), {}, {}),
   DevModeCommand |-> Op(DeviceCommand(runDevModeCommand), {}, {}),
   MdmCommand |-> Op(DeviceCommand(runMdmCommand), {"Escalate"}, {}),
   DeviceStateCommand |-> Op(DeviceCommand(runDeviceStateCommand), {}, {}),
   DeviceStateEnable |-> Op(DeviceCommand(deviceStateEnable), {"enableCondition"}, {}),
   LocationCommand |-> Op(DeviceCommand(runSetLocationCommand), {}, {}),
   ImageCommand |-> Op(DeviceCommand(runImageCommand), {}, {}),
   CrashCommand |-> Op(DeviceCommand(runCrashCommand), {}, {}),
   FileCommand |-> Op(DeviceCommand(runFileCommand), {}, {}),
   FsyncCommand |-> Op(DeviceCommand(runFsyncCommand), {}, {}),
   ListenCommand |-> Op(Main(startListening), {}, {}),
   LogCommands |-> Op(DeviceCommand(Choose({runSyslog, runOSTraceCommand})), {}, {}),
   PcapCommand |-> Op(DeviceCommand(runPCAPCommand), {}, {}),
   InstrumentsCommand |-> Op(DeviceCommand(Choose({runInstrumentsCommand, printSysmontapStats})),
                             {}, {}),
   ForwardCommand |-> Op(DeviceCommand(Choose({startForwarding, startMultiForwarding})), {}, {}),
   DproxyCommand |-> Op(DeviceCommand(startDebugProxy), {}, {}),
   TestCommands |-> Op(DeviceCommand(Choose({runTestCommand(runXUITestWithBundleIdsXcode15Ctx),
                         runXCTestCommand(runXCUIWithBundleIdsXcode11Ctx),
                         runWDACommand(runXUITestWithBundleIdsXcode15Ctx)})), {}, {}),
   SignCommand |-> Op(DeviceCommand(runSignAppCommand), {}, {})]

UiOperations ==
  [UICommand |-> Op(Main(runUICommand), {}, {}),
   UITap |-> Op(Main(newUIClient \o WdaDo("tap")), {"tap"}, {}),
   UIInstall |-> Op(DeviceCommand(runUIInstallCommand), {"Installed"}, {}),
   UIDownload |-> Op(Main(runUIDownloadCommand), {"artifact"}, {}),
   UIRun |-> Op(DeviceCommand(runUIRunCommand(runXUITestWithBundleIdsXcode15Ctx)), {}, {}),
   AxCommand |-> Op(DeviceCommand(Choose({startAx, runAxAudit, resetAx})), {}, {}),
   WebInspectorCommand |-> Op(DeviceCommand(runWebInspectorCommand), {}, {}),
   PasteboardCommand |-> Op(DeviceCommand(runPasteboardCommand), {}, {}),
   TunnelCommand |-> Op(Main(dispatchTunnelCommand), {}, {}),
   AppStateNotifications |-> Op(ListenAppStateNotifications,
      {"setApplicationStateNotificationsEnabled", "setMemoryNotificationsEnabled"}, {}),
   KillWatch |-> Op(ListenAndKill,
      {"setApplicationStateNotificationsEnabled", "setMemoryNotificationsEnabled"}, {"watch"}),
   RefreshTunnel |-> Op(RefreshTunnelForDevice, {"info"}, {})]

PairingOperations ==
  [startTunnel |-> Op(startTunnel, {}, {"tunnel"}),
   ManualPairAndConnectToTunnel |->
      Op(ManualPairAndConnectToTunnel, {"createListener"}, {"tunnel"}),
   ManualPairAndConnectToTunnelTCP |->
      Op(ManualPairAndConnectToTunnelTCP, {"createListener"}, {"tunnel"}),
   ConnectTunnelLockdown |->
      Op(ConnectTunnelLockdown \o TunnelClose, {}, {})]

RestOperations ==
  [apiList |-> Op(apiList, {}, {}),
   apiActivate |-> Op(apiActivate, {}, {}),
   apiGetImages |-> Op(apiGetImages, {}, {}),
   apiInstallImage |-> Op(apiInstallImage, {}, {}),
   apiInfo |-> Op(apiInfo, {}, {}),
   apiScreenshot |-> Op(apiScreenshot, {"takeScreenshot"}, {}),
   apiLocation |-> Op(Choose({apiSetLocation, apiResetLocation}), {}, {}),
   apiResetAccessibility |-> Op(apiResetAccessibility, {}, {}),
   apiGetProfiles |-> Op(apiGetProfiles, {}, {}),
   apiPairDevice |-> Op(apiPairDevice, {"SavePairRecord"}, {}),
   GetSupportedConditions |-> Op(GetSupportedConditions, {"availableConditionInducers"}, {}),
   EnableDeviceCondition |-> Op(EnableDeviceCondition, {}, {"dtx"}),
   DisableDeviceCondition |->
      Op(Handler(Conditioned) \o DisableDeviceCondition, {"enableCondition", "disableCondition"}, {}),
   apiListApps |-> Op(apiListApps, {"Browsed"}, {}),
   apiInstallApp |-> Op(apiInstallApp, {"Installed"}, {}),
   apiLaunchApp |-> Op(apiLaunchApp, {"launchSuspendedProcess"}, {}),
   apiKillApp |-> Op(apiKillApp, {"runningProcesses"}, {}),
   apiUninstallApp |-> Op(apiUninstallApp, {"Uninstalled"}, {}),
   apiNotifications |-> Op(apiNotifications,
      {"setApplicationStateNotificationsEnabled", "setMemoryNotificationsEnabled"}, {}),
   apiLogs |-> Op(Choose({apiSyslog, apiOsTrace}), {}, {}),
   apiListen |-> Op(apiListen, {"Listen"}, {}),
   CreateWdaSession |-> Op(CreateWdaSession(runXUITestWithBundleIdsXcode12Ctx), {}, {})]

AllOperations ==
  ConnectionOperations @@ ImageOperations @@ ManagementOperations @@ FileOperations
    @@ ApplicationOperations @@ SmallOperations @@ TestOperations @@ StreamOperations @@ InspectionOperations
    @@ CommandOperations @@ UiOperations @@ PairingOperations @@ RestOperations
AllHandles == {"mux", "mux2", "listener", "lockdown", "svc", "rsd", "img", "img2", "cryptexd",
  "mc", "afc", "act", "act1", "act2", "reveal", "amfi", "amfi2", "misagent", "diag",
  "mover", "copy", "fs", "fsdata", "apps", "zip", "stdio", "dbgapps", "dbg", "pb", "display",
  "info", "hid", "sb", "loc", "np", "dtx", "tm1", "tm2", "ip", "sim", "tapinfo", "tap",
  "syslog", "ostrace", "pcap", "fwd", "host", "dev", "ax", "wi", "ws",
  "agent", "ui", "notif", "watch", "pair", "tunnel"}

\* The connections some path of the code leaves open, which the run excuses.
\* In the libraries: after a second dial (img2), an image list (img), a refused
\* reboot or shutdown, a goodbye that fails (diag), an error that comes with the
\* closing function (listener), a launch that fails after its output was
\* connected (stdio), a debug session (dbgapps, dbg), a refused stop (sim), a
\* forwarding that cannot connect (fwd), a client whose usbmuxd cannot be dialled
\* (host), an accessibility control whose set-up fails (ax), a notification
\* listener (notif), the pairing of a tunnel (pair), a tunnel that fails to come
\* up (tunnel).
LibraryLeaks ==
  [ListImages |-> {"img"}, MountImage |-> {"img2"},
   Diagnostics |-> {"diag"}, Reboot |-> {"diag"}, Shutdown |-> {"diag"},
   Listen |-> {"listener"}, LaunchAppWithStdIo |-> {"stdio"}, RunTest17 |-> {"stdio"},
   DebugServerStart |-> {"dbgapps", "dbg"}, DebugProxyConnection |-> {"host"},
   SimulateLocation |-> {"sim"}, Forward |-> {"fwd"},
   SwitchToDevice |-> {"ax"}, InspectElement |-> {"ax"}, AppStateNotifications |-> {"notif"},
   startTunnel |-> {"pair", "tunnel"}, ConnectTunnelLockdown |-> {"tunnel"},
   ManualPairAndConnectToTunnel |-> {"pair", "tunnel"},
   ManualPairAndConnectToTunnelTCP |-> {"pair", "tunnel"}]

\* Handlers of the REST server that close nothing, or whose library does not.
RestLeaks ==
  [apiGetImages |-> {"img"}, apiInstallImage |-> {"img2"}, apiInfo |-> {"dtx"},
   apiResetAccessibility |-> {"ax"}, GetSupportedConditions |-> {"dtx"},
   EnableDeviceCondition |-> {"dtx"}, DisableDeviceCondition |-> {"dtx"},
   apiListApps |-> {"apps"}, apiInstallApp |-> {"zip"}, apiLaunchApp |-> {"dtx"},
   apiKillApp |-> {"dtx", "apps"}, apiNotifications |-> {"notif"}, apiListen |-> {"listener"}]

KnownLeaks == LibraryLeaks @@ RestLeaks
AllLeaks == [o \in DOMAIN AllOperations |-> IF o \in DOMAIN KnownLeaks THEN KnownLeaks[o] ELSE {}]

----------------------------------------------------------------------------
(* The outlines, computed: what a script can lead to, begun in a view of P. *)
(* made are the judgements that show it.                                    *)

RECURSIVE Judge(_, _, _, _), JudgeFrom(_, _, _, _, _), JudgeStep(_, _, _, _), MadeBy(_)

MadeBy(rs) ==
    IF rs = {} THEN <<>> ELSE LET r == CHOOSE r \in rs : TRUE IN r.made \o MadeBy(rs \ {r})

JudgeAll(rs) ==
    [ok |-> UNION {r.ok : r \in rs}, err |-> UNION {r.err : r \in rs}, made |-> MadeBy(rs)]

Judge(script, P, c, promised) ==
    IF P = {} THEN [ok |-> {}, err |-> {}, made |-> <<>>]
    ELSE LET r == JudgeFrom(script, 1, P, c, promised)
         IN [ok |-> r.oks[Len(r.oks)], err |-> r.err,
             made |-> r.made \o <<[does |-> script, ok |-> r.oks, err |-> r.err]>>]

JudgeFrom(script, i, P, c, promised) ==
    IF i > Len(script) THEN [oks |-> <<P>>, err |-> {}, made |-> <<>>]
    ELSE LET first == JudgeStep(script[i], P, c, promised)
             rest == JudgeFrom(script, i + 1, first.ok, c, promised)
         IN [oks |-> <<P>> \o rest.oks, err |-> first.err \union rest.err,
             made |-> first.made \o rest.made]

JudgeScope(body, worked, failed, P, c, promised) ==
    LET b == Judge(body, P, c, promised)
        ends == JudgeAll({Judge(worked, b.ok, c, promised), Judge(failed, b.err, c, promised)})
    IN [ends EXCEPT !.made = b.made \o @]

JudgeStep(s, P, c, promised) ==
  CASE s.kind = "choose" -> JudgeAll({Judge(script, P, c, promised) : script \in s.from})
    [] s.kind = "branch" ->
         JudgeAll({Judge(s.yes, {v \in P : v.answer}, c, promised),
                   Judge(s.no, {v \in P : ~v.answer}, c, promised)})
    [] s.kind = "defer" ->
         JudgeScope(s.body, Try(s.last), Try(s.last) \o Fail, P, c, promised)
    [] s.kind = "try" -> JudgeScope(s.body, s.yes, s.handler, P, c, promised)
    [] OTHER -> [ok |-> UNION {Works(s, v, c, promised) : v \in P},
                 err |-> UNION {Fails(s, v, c) : v \in P}, made |-> <<>>]

ComputedOutline(o, c) ==
    Range(Judge(Operations[o].does, {Fresh}, c, Operations[o].promises).made)
=============================================================================
