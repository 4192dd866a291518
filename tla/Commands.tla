------------------------------ MODULE Commands ------------------------------
(***************************************************************************)
(* The command line tool.  A command is a script over the operations of the *)
(* libraries; exitIfError ends the process with status 1 at the first error *)
(* it is given, and no deferred function runs then.  A command whose script *)
(* works exits with status 0.  Commands that wait for a signal do what they *)
(* do before it here, or are interrupted ahead of it.                       *)
(***************************************************************************)
EXTENDS Testing, Streams

UntilSignal(body) == Maybe(body)

----------------------------------------------------------------------------
(* The tunnel agent, a process of its own, answers over HTTP.               *)

Agent(q) == With("agent", Dial("agent"), Write("agent", q) \o Hear("agent", q) \o Local)
AgentAny(q) == Dial("agent") \o Write("agent", q) \o HearAny("agent", q)

\* The bodies of these two answers are not closed; any answer to a request to
\* shut down is taken for success.
IsAgentRunning == AgentAny("health") \o IfAccepted(<<>>, Fail)
CloseAgent == AgentAny("shutdown")
WaitUntilAgentReady == Loop(Try(Agent("ready"))) \o Agent("ready")
RunAgent == Attempt(IsAgentRunning, Local \o Try(WaitUntilAgentReady))
TunnelInfoForDevice == Agent("info")
ListRunningTunnels == Agent("tunnels")
StopTunnelForDevice == Agent("stop")
RefreshTunnelForDevice ==
    Attempt(StopTunnelForDevice, Choose({<<>>, Fail}))
      \o Loop(Attempt(Agent("info"), Maybe(Fail))) \o Agent("info")

----------------------------------------------------------------------------
(* From the arguments to the device.                                        *)

\* Whether the agent runs matters to a warning only.
startAgentFromEnvironment == Maybe(Try(RunAgent))
warnIfAgentIsNotRunning == Try(IsAgentRunning)
configureCLI == startAgentFromEnvironment \o warnIfAgentIsNotRunning

\* The discovery connection is closed; without a tunnel the device is used as it is.
deviceWithRsdProvider ==
    With("rsd", NewWithAddrPortDevice("rsd"), Handshake("rsd") \o GetDeviceWithAddress)
resolveDevice ==
    GetDeviceWithAddress
      \o Choose({<<>>, deviceWithRsdProvider,
                 IfWorks(TunnelInfoForDevice, deviceWithRsdProvider, <<>>)})

Main(command) ==
    Process(Local \o configureCLI \o Local \o command)
DeviceCommand(command) == Main(resolveDevice \o command)

----------------------------------------------------------------------------
(* Settings that are switched.  With --force neither the version nor a value *)
(* that cannot be read matters, and the switch is set whatever it was.      *)

GetStrict(get) == GetProductVersion \o Maybe(Fail) \o get
GetForced(get) == Try(get)
SwitchTo(get, set) == Choose({GetStrict(get) \o Maybe(set), GetForced(get) \o set})
assistiveTouch == SwitchTo(GetAssistiveTouch, SetAssistiveTouch)
voiceOver == SwitchTo(GetVoiceOver, SetVoiceOver)
zoomTouch == SwitchTo(GetZoomTouch, SetZoomTouch)
timeFormat == SwitchTo(GetUses24HourClock, SetUses24HourClock)

language ==
    GetLanguage \o SetLanguage \o Maybe(Try(WaitUntilSpringboardStarted)) \o GetLanguage

----------------------------------------------------------------------------
(* What is known about the device.                                          *)

printDeviceList == ListDevices \o Maybe(Loop(GetValues))
printDeviceDate == GetValues
printDeviceName == GetValues
printDeviceInfo ==
    GetValuesPlist
      \o IfWorks(NewDeviceInfoService("dtx"),
                 Try(NetworkInformation("dtx")) \o Try(HardwareInformation("dtx")), <<>>)
runInfoCommand == Choose({printDeviceInfo, NewDeviceInfo \o GetDisplayInfo})
runDiskspaceCommand == NewAfc("afc") \o AfcDeviceInfo("afc") \o Local
printDiagnostics == NewDiagnostics \o DiagnosticsAllValues
printBatteryDiagnostics == GetBatteryDiagnostics
printBatteryRegistry == NewDiagnostics \o Battery
runMobileGestaltCommand == NewDiagnostics \o Try(MobileGestaltQuery)
runLockdownCommand ==
    ConnectLockdownWithSession
      \o Choose({LockdownGetValues, GetValueForDomain("Value"), GetValue("lockdown", "Value")})
saveScreenshot == NewScreenshotService \o TakeScreenshot \o Local
runScreenshotCommand == Choose({StartMJPEGStreamingServer, saveScreenshot})

----------------------------------------------------------------------------
(* Applications and processes.                                              *)

installApp == NewZipConduit \o SendFile
uninstallApp == NewInstallationProxy("apps") \o Uninstall("apps")
printInstalledApps == NewInstallationProxy("apps") \o browseApps("apps") \o Local

\* An application list that cannot be had is missing in the table; without a
\* connection to ask on there is a nil pointer.
outputProcessListNoJSON ==
    Attempt(NewInstallationProxy("apps"), Panic) \o Try(browseApps("apps"))
\* The error of the list itself is dropped: the command prints an empty one.
processList ==
    NewDeviceInfoService("dtx") \o Try(ProcessList("dtx")) \o Maybe(outputProcessListNoJSON)

runLaunchCommand == NewProcessControl \o StartProcess
runMemlimitOffCommand ==
    NewProcessControl \o NewDeviceInfoService("tapinfo") \o ProcessList("tapinfo")
      \o Maybe(Fail) \o Maybe(DisableMemoryLimit)

resolveBundleIDsToProcessNames ==
    Maybe(NewInstallationProxy("apps") \o browseApps("apps") \o Maybe(Fail))
\* A list that cannot be had is an empty one, in which no target is found.
runKillOnce ==
    NewProcessControl \o NewDeviceInfoService("tapinfo")
      \o Attempt(ProcessList("tapinfo") \o Choose({KillProcess, KillProcess \o KillProcess}), Fail)
runKillWatch == ListenAndKill \o UntilSignal(Loop(Try(WatchKill)) \o WatchClose)
runKillCommand == resolveBundleIDsToProcessNames \o Choose({runKillOnce, runKillWatch})

----------------------------------------------------------------------------
(* Management.                                                              *)

runEraseCommand == Local \o Maybe(Erase)
runWifiCommand == Choose({PrepareWifi, RemoveWifi})
runPrepareCommand ==
    Choose({Local, NewMcInstall \o GetCloudConfiguration, Local \o Prepare})
runHTTPProxyCommand == Choose({RemoveProxy, Local \o SetHttpProxy})

handleProfileRemove == NewMcInstall \o RemoveProfile
handleProfileAdd == NewMcInstall \o Local \o AddProfile
handleProfileAddSupervised == NewMcInstall \o Local \o AddProfileSupervised
handleProfileList == NewMcInstall \o HandleList
runProfileCommand ==
    Choose({handleProfileList, handleProfileAdd, handleProfileAddSupervised, handleProfileRemove})

handleSetWallpaper == Local \o NewMcInstall \o SetWallpaperSupervised
handleGetWallpaper == NewSpringboard \o GetHomeScreenWallpaperPNG \o Local
handleGetIconLayout == NewSpringboard \o GetIconLayout \o Local
handleSetIconLayout == Local \o NewSpringboard \o SetIconLayout

pairDevice == Choose({Pair, Local \o PairSupervised})
readPair == ReadPairRecord

\* Status 0 whatever comes of it.
runRebootCommand == Try(Reboot)
runShutdownCommand == Try(Shutdown)

runDevModeCommand ==
    Choose({EnableDeveloperMode, Try(IsDevModeEnabled),
            NewAmfi("amfi") \o RevealDevMode("amfi")})
runMdmCommand ==
    Local \o NewMcInstall \o Escalate
      \o Choose({FetchUnlockToken \o Local, Local \o ClearPasscode, SecurityInfo,
                 ClearScreenTimePassword})

\* The list is printed whether or not there was one.
deviceStateList == NewDeviceStateControl \o Try(ListProfileTypes)
deviceStateEnable ==
    NewDeviceStateControl \o ListProfileTypes \o Local \o Enable \o UntilSignal(Disable)
runDeviceStateCommand == Choose({deviceStateList, deviceStateEnable})

----------------------------------------------------------------------------
(* Locations.                                                               *)

startLocationSimulation == Local \o StartSimulateLocation \o UntilSignal(StopSimulateLocation)
runSetLocationCommand ==
    Choose({NewLocationSimulationService \o startLocationSimulation, SetLocation})

----------------------------------------------------------------------------
(* Images, crash reports and files.                                         *)

\* A download that fails is logged, and the command ends with status 0.
mountDownloaded == IfWorks(DownloadImageFor, MountImage, <<>>)
runImageCommand == Choose({ListImages, MountImage, UnmountImage, mountDownloaded})
runCrashCommand == Choose({ListReports, DownloadReports, RemoveReports})
runFileCommand ==
    Maybe(Fail) \o NewFileService
      \o Choose({ListDirectory, Local \o PullFile \o Local, Local \o PushFile})
runFsyncCommand ==
    Choose({NewAfc("afc"), HouseArrest("afc")})
      \o Choose({remove("afc"), WalkDir("afc", <<>>), MkDir("afc"), Local \o Pull("afc"),
                 AfcPush("afc")})

----------------------------------------------------------------------------
(* Streams.  Reading goroutines and the command share the process: an error *)
(* of the one ends the other.                                               *)

\* Attempts to listen are repeated for ever; each one's deferred close waits for
\* the end of a function that does not end.
startListening ==
    UntilSignal(Loop(Try(
        Dial("listener")
          \o Attempt(Write("listener", "Listen") \o Hear("listener", "Listen"),
                     Close("listener") \o Fail)
          \o Loop(ExpectAny("listener", "event")) \o Fail)))

runSyslog ==
    NewSyslog \o UntilSignal(Loop(ReadLogMessage \o Maybe(Try(SyslogParser))))

\* A process that cannot be looked for counts as one that has ended.
isProcessAlive ==
    Try(With("tapinfo", NewDeviceInfoService("tapinfo"), ProcessList("tapinfo")))
resolveProcess ==
    With("tapinfo", NewDeviceInfoService("tapinfo"), ProcessList("tapinfo") \o Maybe(Fail))
osTraceSession ==
    NewOsTrace \o Loop(ReadFilteredEntry)
\* Without --follow the first error ends the process, with it the next round
\* begins; the connection of a round that ends is closed.
followOsTrace ==
    Try(Maybe(resolveProcess)
          \o IfWorks(osTraceSession, isProcessAlive \o OsTraceClose, OsTraceClose))
runOsTrace ==
    Choose({Maybe(resolveProcess) \o osTraceSession, Loop(followOsTrace)})
runOSTraceCommand == Local \o runOsTrace
runPCAPCommand == PcapStart

streamInstrumentsFPS == NewGraphicsOpenGLService \o UntilSignal(GraphicsOpenGLServiceClose)
streamInstrumentsNetwork == NewNetworkService \o UntilSignal(NetworkServiceClose)
listenAppStateNotifications ==
    ListenAppStateNotifications \o UntilSignal(Loop(ExpectAny("notif", "event")))
runInstrumentsCommand ==
    Local \o Choose({streamInstrumentsFPS, streamInstrumentsNetwork, listenAppStateNotifications})
printSysmontapStats == NewSysmontapService \o UntilSignal(SysmontapClose)

----------------------------------------------------------------------------
(* Ports.                                                                   *)

\* The listener is local; each connection is served by ForwardedConnection.
startForwarding == Local \o UntilSignal(Loop(Try(ForwardedConnection)))
startMultiForwarding == Loop(Local) \o startForwarding

\* The proxy's error is logged, the status is 0 unless it panics.
startDebugProxy ==
    UntilSignal(Try(LaunchDebugProxy \o Loop(Try(startProxyConnection))))

----------------------------------------------------------------------------
(* Tests.                                                                   *)

\* A failed run is logged, the status is 0.
writeJUnitReport == Local
runTestCommand(run) == Local \o Try(RunTestTarget(run)) \o Maybe(writeJUnitReport)
runXCTestCommand(run) == Local \o Try(StartXCTest(run)) \o Maybe(writeJUnitReport)

\* Only a signal ends this command with status 0.  One that comes while the run
\* fails closes the channel the run's goroutine sends its error on.
runWDACommand(run) ==
    Local
      \o Choose({<<>>, IfWorks(RunTestTarget(run), Fail, Choose({Fail, Panic}))})

\* The signing tools do not talk to the device.
runSignAppCommand == Local \o Maybe(installApp)
=============================================================================
