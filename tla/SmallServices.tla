--------------------------- MODULE SmallServices ---------------------------
(***************************************************************************)
(* Services of a few methods each: pasteboard, display, touch input, home   *)
(* screen, location, notifications, display information; and the services   *)
(* of instruments, which are spoken over DTX channels.                      *)
(***************************************************************************)
EXTENDS Connections

----------------------------------------------------------------------------
(* Services over XPC.                                                       *)

\* A service that stays silent is hung up on: no later answer can be taken for
\* that of another request.  Empty messages in between are passed over.
NewPasteboard == ConnectToXpcServiceTunnelIface("pb")
PasteboardSendReceive(q) ==
    Choose({Write("pb", q) \o Hear("pb", q), Post("pb", q) \o Close("pb") \o Fail})
PasteboardSet == PasteboardSendReceive("SET")
PasteboardGet == PasteboardSendReceive("PULL")

\* Also the context of the call may close the connection.
NewDisplay == ConnectToXpcServiceTunnelIface("display")
invoke(q) ==
    Attempt(Write("display", q) \o HearAny("display", q), Close("display") \o Fail)
      \o IfAccepted(<<>>, Fail)
StartVideoStream == Local \o invoke("StartMediaStream")
StopMediaStream == invoke("StopMediaStream")

NewDeviceInfo == ConnectToXpcServiceTunnelIface("info")
GetDisplayInfo == Write("info", "GetDisplayInfo") \o Hear("info", "GetDisplayInfo")

\* Touches are not answered.  Close lifts a contact that is still down, and goes
\* on if that fails.
newUniversal == ConnectToXpcServiceTunnelIface("hid")
sendTouch(state) == Post("hid", state)
TouchDown == sendTouch("contact")
TouchUp == sendTouch("release")
CloseDown == Try(TouchUp) \o Close("hid")
CloseUp == Close("hid")
HidSession ==
    newUniversal
      \o IfWorks(TouchDown,
                 Choose({CloseDown, IfWorks(TouchUp, CloseUp, CloseDown \o Fail)}),
                 CloseUp \o Fail)

----------------------------------------------------------------------------
(* Services over lockdown connections.                                      *)

NewSpringboard == ConnectToService("sb")
SpringboardAsk(q) == Write("sb", q) \o HearAny("sb", q) \o Local
GetHomeScreenWallpaperPNG == SpringboardAsk("getHomeScreenWallpaperPNGData")
GetIconLayout == SpringboardAsk("getIconState")
SetIconLayout == Post("sb", "setIconState")
ListIcons == SpringboardAsk("getIconState")

\* One connection for each point of a track; nothing is answered.
SimLocation(q) == With("loc", ConnectToService("loc"), Local \o Post("loc", q))
SetLocation == Local \o SimLocation("SetLocation")
SetLocationGPX == Local \o Loop(Local \o SetLocation)
ResetLocation == SimLocation("ResetLocation")

\* A relayed notification of another name is passed over; the wait for the right
\* one has a deadline.
NewNotificationProxy == ConnectToService("np")
startObserving == Post("np", "ObserveNotification")
Observe ==
    startObserving \o Choose({Fail, Loop(ExpectAny("np", "other")) \o ExpectAny("np", "Relay")})
NotificationProxyClose == Try(Post("np", "Shutdown")) \o Close("np")
WaitUntilSpringboardStarted ==
    NewNotificationProxy \o Deferred(NotificationProxyClose, Observe)

----------------------------------------------------------------------------
(* Instruments.                                                             *)

NewUsbmuxdConnection(c) == ConnectToService(c)
NewTunnelConnection(c) == ConnectToServiceTunnelIface(c)

instrumentsUnavailableErr == Try(GetProductVersion) \o Fail
connectInstruments(c) ==
    Choose({Attempt(NewTunnelConnection(c), instrumentsUnavailableErr),
            Attempt(NewUsbmuxdConnection(c),
                    Attempt(NewUsbmuxdConnection(c), instrumentsUnavailableErr))})

\* The channel is used whether or not the device has confirmed it.
Instruments(c) == connectInstruments(c) \o Try(Call(c, "_requestChannel"))

NewProcessControl == Instruments("dtx")
DisableMemoryLimit == Call("dtx", "requestDisableMemoryLimits") \o Local
KillProcess == Call("dtx", "killPid")

\* A transient error of the device is met with three more attempts.
Launch == Call("dtx", "launchSuspendedProcess")
Launches[n \in 1..4] == IF n = 1 THEN Launch ELSE Attempt(Launch, Choose({Fail, Launches[n - 1]}))
StartProcess == Launches[4]
ProcessControlMethods == {DisableMemoryLimit, KillProcess, StartProcess}

NewDeviceInfoService(c) == Instruments(c)
DeviceInfoCall(c, q) == Call(c, q) \o Local
ProcessList(c) == DeviceInfoCall(c, "runningProcesses")
NameForPid(c) == Call(c, "execnameForPid")
HardwareInformation(c) == DeviceInfoCall(c, "hardwareInformation")
NetworkInformation(c) == DeviceInfoCall(c, "networkInformation")
systemAttributes(c) == DeviceInfoCall(c, "sysmonSystemAttributes")
processAttributes(c) == DeviceInfoCall(c, "sysmonProcessAttributes")
DeviceInfoMethods == {ProcessList("dtx"), NameForPid("dtx"), HardwareInformation("dtx"),
                      NetworkInformation("dtx")}

NewDeviceStateControl == Instruments("dtx")
ListProfileTypes == Call("dtx", "availableConditionInducers") \o Local
Enable == Call("dtx", "enableCondition")
Disable == Call("dtx", "disableCondition")

\* Notifications of applications that come and go.  The listener neither closes
\* its connection when a setting is refused nor when it is told to close; the
\* watch does both, its calls to kill go over the same connection.
EnableNotifications(c) ==
    Call(c, "setApplicationStateNotificationsEnabled")
      \o Call(c, "setMemoryNotificationsEnabled")
ListenAppStateNotifications == Instruments("notif") \o EnableNotifications("notif")
ListenAndKill ==
    connectInstruments("watch") \o Try(Call("watch", "_requestChannel"))
      \o Attempt(EnableNotifications("watch"), Close("watch") \o Fail)
      \o Try(Call("watch", "_requestChannel"))
WatchKill == Call("watch", "killPid")
WatchClose == Close("watch")

\* Stopping closes the connection unless the device refuses to.
NewLocationSimulationService == Instruments("sim")
StartSimulateLocation == Call("sim", "simulateLocation")
StopSimulateLocation == Call("sim", "stopLocationSimulation") \o Close("sim")

NewScreenshotService == Instruments("dtx")
TakeScreenshot == Call("dtx", "takeScreenshot") \o Local

\* Each failing step closes both connections.
NewSysmontapService ==
    NewDeviceInfoService("tapinfo")
      \o Attempt(connectInstruments("tap"), Close("tapinfo") \o Fail)
      \o Attempt(Try(Call("tap", "_requestChannel"))
                   \o systemAttributes("tapinfo") \o processAttributes("tapinfo")
                   \o Call("tap", "setConfig") \o Post("tap", "start"),
                 Close("tapinfo") \o Close("tap") \o Fail)
SysmontapClose == Close("tapinfo") \o Close("tap")

\* Network and frame rate samples: the first call starts them.
NewSamplingService(q) == Instruments("tap") \o Attempt(Call("tap", q), Close("tap") \o Fail)
NewNetworkService == NewSamplingService("startMonitoring")
NetworkServiceClose == Try(Post("tap", "stopMonitoring")) \o Close("tap")
NewGraphicsOpenGLService == NewSamplingService("startSamplingAtTimeInterval")
GraphicsOpenGLServiceClose == Try(Post("tap", "stopSampling")) \o Close("tap")
=============================================================================
