---------------------------- MODULE Connections ----------------------------
(***************************************************************************)
(* How this repository reaches a device: usbmuxd, lockdown sessions,        *)
(* services started through lockdown, and services of the tunnel            *)
(* interface; pairing; and the values lockdown keeps.                       *)
(***************************************************************************)
EXTENDS Scripts

----------------------------------------------------------------------------
(* usbmuxd.                                                                 *)

NewUsbMuxConnectionSimple == Dial("mux")
Mux(body) == With("mux", NewUsbMuxConnectionSimple, body)

ListDevices == Mux(Write("mux", "ListDevices") \o HearAny("mux", "ListDevices"))
GetDeviceWithAddress == ListDevices \o Choose({<<>>, Fail})

ReadPair(c) == Write(c, "ReadPairRecord") \o Hear(c, "ReadPairRecord")
ReadPairRecord == Mux(ReadPair("mux"))
ReadBuid(c) == Write(c, "ReadBUID") \o HearAny(c, "ReadBUID")
savePair(c) == Write(c, "SavePairRecord") \o Hear(c, "SavePairRecord")

\* The send's error is not looked at: the read that follows it fails.
Connect(c) == Try(Write(c, "Connect")) \o Hear(c, "Connect")

\* The caller gets the function that closes the connection, also with an error.
Listen == Dial("listener") \o Write("listener", "Listen") \o Hear("listener", "Listen")

----------------------------------------------------------------------------
(* Lockdown.  A session shares the socket usbmuxd connected.                *)

ConnectLockdown(c) == Write(c, "ConnectLockdown") \o Hear(c, "ConnectLockdown")

StartSession(c) == Ask(c, "StartSession") \o Maybe(Secure(c))

StopSession(c) == Try(Tell(c, "StopSession")) \o Try(HearAny(c, "StopSession"))
LockdownClose(c) == StopSession(c) \o Close(c)

\* None of the error paths closes the socket.
ConnectLockdownWithSession ==
    Open("lockdown") \o ReadPair("lockdown") \o ConnectLockdown("lockdown")
      \o StartSession("lockdown") \o Give("lockdown")

Session(body) == ConnectLockdownWithSession \o Deferred(LockdownClose("lockdown"), body)

StartService(s) == Session(Ask("lockdown", s))

----------------------------------------------------------------------------
(* Services: through usbmuxd, or through the tunnel interface.              *)

connectWithStartServiceResponse(c) == Connect(c) \o Maybe(Secure(c))

\* The new connection is not closed when connecting or the handshake fails.
ConnectToService(c) ==
    StartService("StartService") \o ReadPairRecord
      \o Open(c) \o connectWithStartServiceResponse(c) \o Give(c)

\* The port may be unknown; in the userspace case the address is sent ahead,
\* and the connection is returned together with the error of that.
connectTUN(c) == Open(c) \o Maybe(Fail)
ConnectTUNDevice(c) ==
    Choose({Fail,
            connectTUN(c),
            Open(c) \o Maybe(Fail) \o Post(c, "address") \o Post(c, "port")})

\* The device answers the check-in, then sends a StartService message.
RsdCheckin(c) ==
    Write(c, "RSDCheckin") \o HearAny(c, "RSDCheckin") \o ExpectAny(c, "StartService")

RsdPortForService == Maybe(Fail)
Rsd == Maybe(Fail) \o RsdPortForService

ConnectToShimService(c) == Rsd \o ConnectTUNDevice(c) \o RsdCheckin(c) \o Give(c)
ConnectToServiceTunnelIface(c) == Rsd \o ConnectTUNDevice(c) \o Give(c)

\* Both streams of an XPC connection are primed by an exchange of messages.
initializeXpcConnection(c) ==
    Write(c, "cs1") \o HearAny(c, "cs1") \o Write(c, "ss") \o HearAny(c, "ss")
      \o Write(c, "cs2") \o HearAny(c, "cs2")
CreateXpcConnection(c) == initializeXpcConnection(c) \o Local
ConnectToXpcServiceTunnelIface(c) ==
    Rsd \o ConnectTUNDevice(c) \o Post(c, "preface") \o CreateXpcConnection(c) \o Give(c)

\* Most services exist in both worlds.
Service(c) == Choose({ConnectToService(c), ConnectToShimService(c)})

\* Remote service discovery: the device speaks first.
newRsdServiceFromTcpConn(c) == Post(c, "preface") \o CreateXpcConnection(c)
NewWithAddrPortDevice(c) == ConnectTUNDevice(c) \o newRsdServiceFromTcpConn(c) \o Give(c)
NewWithAddrPort(c) == connectTUN(c) \o newRsdServiceFromTcpConn(c) \o Give(c)
Handshake(c) == Expect(c, "Handshake") \o Local

\* One candidate address of a device: any error means it is another one.
tryHandshake == Try(With("rsd", NewWithAddrPortDevice("rsd"), Handshake("rsd")))

----------------------------------------------------------------------------
(* Values of lockdown.  What GetValue returns for a refused key is nil, not  *)
(* an error; SetValueForDomain looks at the error of the answer.            *)

GetValue(c, q) == Try(Tell(c, q)) \o HearAny(c, q)
GetValueForDomain(q) == GetValue("lockdown", q)
SetValueForDomain(q) == Try(Tell("lockdown", q)) \o Hear("lockdown", q)
LockdownGetValues == AskAny("lockdown", "AllValues")
LockdownGetProductVersion(c) == GetValue(c, "ProductVersion") \o Local

GetProductVersion == Session(LockdownGetProductVersion("lockdown") \o Local)
GetWifiMac == Session(GetValue("lockdown", "WiFiAddress") \o Local)
GetValues == Session(LockdownGetValues)
GetValuesPlist == Session(AskAny("lockdown", "AllValues") \o Local)

\* The callers below check a value before they convert it ...
GetSwitch(q) == Session(GetValueForDomain(q) \o Local)
GetAssistiveTouch == GetSwitch("AssistiveTouch")
GetVoiceOver == GetSwitch("VoiceOver")
GetZoomTouch == GetSwitch("ZoomTouch")
GetUses24HourClock == GetSwitch("Uses24HourClock")

SetSwitch(q) == Session(SetValueForDomain(q))
SetAssistiveTouch == SetSwitch("AssistiveTouch")
SetVoiceOver == SetSwitch("VoiceOver")
SetZoomTouch == SetSwitch("ZoomTouch")
SetUses24HourClock == SetSwitch("Uses24HourClock")

SetTime == Session(SetValueForDomain("Time") \o SetValueForDomain("TimeZone"))
SetSystemTime == SetTime
SetLanguage ==
    Session(Maybe(SetValueForDomain("Locale")) \o Maybe(SetValueForDomain("Language")))

\* ... and these convert it without a look.
GetLanguage ==
    Session(GetValueForDomain("Language") \o GetValueForDomain("Locale")
      \o GetValueForDomain("SupportedLocales") \o GetValueForDomain("SupportedLanguages")
      \o Cast("Language") \o Cast("Locale"))
GetBatteryDiagnostics ==
    Session(GetValueForDomain("BatteryCurrentCapacity") \o GetValueForDomain("FullyCharged")
      \o Cast("BatteryCurrentCapacity") \o Cast("FullyCharged"))

----------------------------------------------------------------------------
(* Pairing.  Lockdown is spoken on the socket usbmuxd was asked on; the new  *)
(* record is saved through a second one, whose close is deferred before the *)
(* error of opening it is looked at.                                        *)

PairingFacts ==
    ReadBuid("mux") \o ConnectLockdown("mux")
      \o GetValue("mux", "DevicePublicKey") \o GetValue("mux", "WiFiAddress") \o Local
SavesRecord ==
    Attempt(Dial("mux2"), Panic) \o Deferred(Close("mux2"), savePair("mux2"))

\* Fails as long as the user has not accepted the dialog.
Pair == Mux(PairingFacts \o Ask("mux", "Pair") \o SavesRecord)

\* The first answer has to be an error that carries a challenge; a locked
\* device accepts the second request without an escrow bag, and nothing is saved.
PairSupervised ==
    Local \o Mux(PairingFacts \o AskAny("mux", "Pair") \o Local
      \o Ask("mux", "PairSupervised") \o Maybe(Fail) \o SavesRecord)
==================================================
