------------------------------ MODULE Streams ------------------------------
(***************************************************************************)
(* Connections on which data flows for as long as somebody reads: the log   *)
(* relays, packet capture, screenshots as a film, forwarded ports, and the  *)
(* debug proxy between a tool of the host and usbmuxd.                      *)
(***************************************************************************)
EXTENDS SmallServices

----------------------------------------------------------------------------
(* Logs.  Everything after the start is pushed by the device.               *)

NewSyslogWithUsbmuxdConnection == ConnectToService("syslog")
NewSyslogWithShimConnection == ConnectToShimService("syslog")
NewSyslog == Choose({NewSyslogWithUsbmuxdConnection, NewSyslogWithShimConnection})
ReadLogMessage == ExpectAny("syslog", "message")
SyslogParser == Local
SyslogClose == Close("syslog")

\* A refused start closes the connection.
startActivity == Write("ostrace", "StartActivity") \o Hear("ostrace", "StartActivity") \o Local
NewOsTrace == Service("ostrace") \o Attempt(startActivity, Close("ostrace") \o Fail)
parseEntry == Local
ReadEntry == Expect("ostrace", "entry") \o parseEntry
ReadFilteredEntry == Loop(ReadEntry) \o ReadEntry
OsTraceClose == Close("ostrace")
ParseLevelFilter == Local

----------------------------------------------------------------------------
(* Packets.                                                                 *)

createPcap == Local
getPacket == Local
writePacket == Local
readPacket == ExpectAny("pcap", "packet") \o Local \o getPacket

\* Ends with an error only.
PcapStart ==
    With("pcap", ConnectToService("pcap"),
         createPcap \o Loop(readPacket \o Maybe(writePacket)) \o Fail)

\* Until a packet of the device's own address has shown all its addresses.
findIp == With("pcap", ConnectToService("pcap"), readPacket \o Loop(readPacket))
FindIp == GetWifiMac \o findIp

----------------------------------------------------------------------------
(* Screenshots as a film.  The goroutine that takes them stops at the first  *)
(* error, the server goes on until it cannot.                               *)

startScreenshotting == Loop(TakeScreenshot)
StartMJPEGStreamingServer ==
    With("dtx", NewScreenshotService, Try(startScreenshotting) \o Local)

----------------------------------------------------------------------------
(* Forwarded ports: "host" is the connection of the local client.  When      *)
(* usbmuxd refuses to connect, the connection to it is left open.           *)

StartNewProxyConnection(ends) ==
    Dial("host")
      \o Attempt(Dial("fwd") \o Connect("fwd"), Close("host") \o Fail)
      \o ends

\* Either end stops: both are closed, once.
Carry(from, to) == ExpectAny(from, "bytes") \o Post(to, "bytes")
Pump(a, b) == Try(Loop(Choose({Carry(a, b), Carry(b, a)})) \o Fail) \o Close(a) \o Close(b)
proxyConns == Pump("host", "fwd")
ForwardedConnection == StartNewProxyConnection(proxyConns)

----------------------------------------------------------------------------
(* The debug proxy takes the place of usbmuxd's socket.  "host" is the       *)
(* client of the moment, "dev" the connection to the real usbmuxd.          *)

\* Only the list of devices may be missing.
LaunchDebugProxy ==
    Try(ListDevices) \o Maybe(Fail) \o Maybe(ReadPairRecord) \o Local

\* An answer that cannot be read is logged, and passed on as it is.
Relay(q) == Try(HearAny("dev", q)) \o Try(Post("host", q))
Ends2 == Close("host") \o Close("dev")

\* The record in the answer is exchanged for the proxy's; there has to be one.
handleReadPairRecord ==
    Try(Write("dev", "ReadPairRecord"))
      \o Attempt(HearAny("dev", "ReadPairRecord") \o IfAccepted(<<>>, Fail), Panic)
      \o Try(Post("host", "ReadPairRecord"))

\* The answer, then devices that come and go, until one of the two ends is lost.
handleListen ==
    Try(HearAny("dev", "Listen") \o Try(Post("host", "Listen"))
          \o Loop(ExpectAny("dev", "event") \o Try(Post("host", "event"))) \o Fail)
      \o Ends2

\* A second attempt at the answer is made when the first fails.
proxyLockDownConnection ==
    Try(Loop(ExpectAny("host", "request")
               \o Try(Write("dev", "lockdown"))
               \o Try(Attempt(HearAny("dev", "lockdown"), HearAny("dev", "lockdown")))
               \o Try(Post("host", "lockdown"))
               \o Maybe(Try(Secure("dev")) \o Try(Secure("host")))) \o Fail)
      \o Ends2

handleConnectToLockdown ==
    Attempt(Write("dev", "Connect"), Panic) \o Relay("Connect") \o proxyLockDownConnection

proxyBinDumpConnection == Pump("host", "dev")

\* A tool that connects to a service nobody has asked lockdown to start.
UnknownService == Panic
handleConnectToService ==
    Attempt(Write("dev", "Connect") \o HearAny("dev", "Connect") \o Post("host", "Connect")
              \o Maybe(Secure("dev") \o Try(Secure("host"))), Panic)
      \o proxyBinDumpConnection

handleConnect ==
    Choose({handleConnectToLockdown, handleConnectToService, UnknownService})

\* One message of the tool is forwarded and answered at a time.  The connection
\* changes hands when it is used for something else.
HostRequest == ExpectAny("host", "request")
forward == Attempt(Write("dev", "mux"), Panic) \o Relay("mux")
proxyUsbMuxConnection ==
    IfWorks(Loop(HostRequest \o Choose({forward, handleReadPairRecord})) \o HostRequest,
            Choose({handleConnect,
                    Attempt(Write("dev", "Listen"), Panic) \o handleListen}),
            Ends2)

\* The client's connection is forgotten when usbmuxd cannot be reached.
startProxyConnection ==
    Dial("host")
      \o IfWorks(Dial("dev"), Choose({proxyBinDumpConnection, proxyUsbMuxConnection}), <<>>)
=============================================================================
