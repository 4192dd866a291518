----------------------------- MODULE UiCommands -----------------------------
(***************************************************************************)
(* The commands that drive an application's user interface: through an      *)
(* automation server on the device reached over HTTP ("ui"), through the    *)
(* web inspector, through accessibility; and those of the tunnel agent.     *)
(***************************************************************************)
EXTENDS Commands, Accessibility, WebInspector

----------------------------------------------------------------------------
(* HTTP.  A status other than 2xx ends the process.                         *)

doHTTP(q) == Local \o With("ui", Dial("ui"), Write("ui", q) \o Hear("ui", q))
wdaHTTP(q) == doHTTP(q)
deviceKitHTTP(q) == doHTTP(q)

\* An error of the remote procedure travels in the body of an answer of status
\* 200, which is printed like any other.
deviceKitRPC(q) ==
    Local \o With("ui", Dial("ui"), Write("ui", q) \o Choose({Hear("ui", q), HearAny("ui", q)}))
pipeHTTP ==
    With("ui", Dial("ui"), Write("ui", "stream") \o Hear("ui", "stream")
      \o Loop(ExpectAny("ui", "frame")))

printUIResponse == Maybe(Local)
deviceKitHealthy == doHTTP("health")
wdaHealthy == doHTTP("status")

\* The driver may be looked for.
resolveDriver ==
    Choose({<<>>, Fail, Attempt(deviceKitHealthy, Attempt(wdaHealthy, Fail))})
newUIClient == resolveDriver

\* A session is asked for once per process, unless it is given.
wdaSession == Maybe(wdaHTTP("session") \o Local)
DeviceKitDo(q) == deviceKitRPC(q) \o printUIResponse
WdaDo(q) == wdaSession \o wdaHTTP(q) \o printUIResponse
Do(q) == Choose({DeviceKitDo(q), WdaDo(q)})

printStatus == Choose({deviceKitHTTP("health"), wdaHTTP("status")}) \o printUIResponse
api == Local \o Choose({DeviceKitDo("api"), wdaHTTP("api") \o printUIResponse})
tap == Do("tap")
swipe == Do("swipe")
longPress == Do("longpress")
typeText == Do("text")
button == Choose({Do("button"), Fail})
decodeBase64Response == Local
screenshot == Do("screenshot") \o decodeBase64Response \o Local
source == Do("source") \o Maybe(Local)
size == Do("size")
orientation == Choose({Do("orientation.set"), Do("orientation.get")})
appWithBundleID == Do("app")
app == Choose({DeviceKitDo("app.foreground"), appWithBundleID, Fail})
stream == Choose({pipeHTTP, Fail})

UIMethods == {printStatus, api, tap, swipe, longPress, typeText, button, screenshot, source,
              size, orientation, app, stream}
runUICommand == newUIClient \o Choose(UIMethods)

----------------------------------------------------------------------------
(* Installing and running the automation server.                            *)

downloadUIArtifact == With("ui", Dial("ui"), Write("ui", "artifact") \o Hear("ui", "artifact")
                             \o Local)
unzipUIArtifact == Local
findUIInstallApp == Local
prepareUIInstallAppPath == Maybe(unzipUIArtifact \o findUIInstallApp)
uiInstallArtifactPath == Maybe(Local \o downloadUIArtifact) \o prepareUIInstallAppPath
runUIInstallApp == uiInstallArtifactPath \o Local \o installApp
runUIInstallCommand == Maybe(Fail) \o runUIInstallApp

downloadUIInstallTarget ==
    downloadUIArtifact \o Local \o Maybe(unzipUIArtifact \o findUIInstallApp)
runUIDownloadCommand == Local \o Choose({downloadUIInstallTarget,
                                         downloadUIInstallTarget \o downloadUIInstallTarget})

\* The server is asked every second whether it answers: for the log only.
reportUIRunReady == Loop(Try(doHTTP("health")))
\* A run that ends, with or without an error, is a failure; a signal is not.
runUIRunCommand(run) ==
    Maybe(Fail) \o Local
      \o Choose({reportUIRunReady, IfWorks(RunTestTarget(run), Fail, Fail)})

----------------------------------------------------------------------------
(* Accessibility.                                                           *)

\* Runs beside the command, which waits for a signal.
startAx ==
    UntilSignal(NewWithoutEventChangeListeners \o Try(SwitchToDevice) \o Try(EnableSelectionMode)
                  \o Maybe(Try(UpdateAccessibilitySetting)) \o Try(GetElement)
                  \o Try(GetElement) \o Try(GetElement))
runAxAudit == NewAx \o RunAudit
resetAx == NewWithoutEventChangeListeners \o ResetToDefaultAccessibilitySettings

----------------------------------------------------------------------------
(* The web inspector.  The context of --timeout covers the whole command.   *)

selectWebInspectorPage == Maybe(ListPages \o Maybe(Fail))
webInspectorLaunch ==
    OpenApp \o AutomationSession \o StartAutomation \o Navigate \o Try(CurrentURL) \o Try(Title)
      \o Try(StopAutomation)
webInspectorEval ==
    selectWebInspectorPage
      \o Maybe(SetupInspectorSocket \o Try(SendCommand("Console.enable"))) \o Evaluate
runWebInspectorJSShell == Loop(Try(Evaluate))
webInspectorShell ==
    Maybe(OpenApp) \o selectWebInspectorPage \o Maybe(Evaluate) \o runWebInspectorJSShell
runWebInspectorCommand ==
    NewClient \o WebInspectorConnect
      \o Choose({ListPages, webInspectorLaunch, webInspectorEval, webInspectorShell, CDPServe})

----------------------------------------------------------------------------
(* The pasteboard, and the agent.                                           *)

runPasteboardCommand ==
    Maybe(Fail) \o NewPasteboard \o Choose({Local \o PasteboardSet, PasteboardGet})

\* Whether there is a device does not matter to the agent's commands.
dispatchTunnelCommand ==
    Try(GetDeviceWithAddress)
      \o Choose({ListRunningTunnels, Maybe(Fail) \o StopTunnelForDevice,
                 Maybe(Fail) \o RefreshTunnelForDevice, CloseAgent})
=============================================================================
