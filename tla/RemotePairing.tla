--------------------------- MODULE RemotePairing ---------------------------
(***************************************************************************)
(* How a tunnel comes about: the address of the device on the network, the   *)
(* pairing over an XPC connection, the listener the device opens for the     *)
(* tunnel, and the exchange of its parameters.  Packets are not modelled.    *)
(***************************************************************************)
EXTENDS Connections

----------------------------------------------------------------------------
(* Messages.  Requests and events in the clear, then an encrypted stream     *)
(* whose nonce counts pairs of a message to and a message from the device: a *)
(* reply that belongs to another request could not be decrypted.             *)

writeRequest(q) == Write("pair", q)
writeEvent(q) == Write("pair", q)
read(q) == HearAny("pair", q)
readEvent(q) == HearAny("pair", q)
cipherWrite(q) == Write("pair", q)
cipherRead(q) == HearAny("pair", q)
cipherReadChecked(q) == Hear("pair", q)

----------------------------------------------------------------------------
(* Pairing.                                                                  *)

\* An event nobody answers.
pairVerifyFailed == Post("pair", "pairVerifyFailed")
setupCiphers == Local

\* The device may keep its key back, or reject the signature.
verifyPair ==
    writeEvent("verifyStart") \o readEvent("verifyStart")
      \o IfAccepted(<<>>, Maybe(Try(pairVerifyFailed)) \o Fail)
      \o Local
      \o writeEvent("verifyProof") \o readEvent("verifyProof")
      \o IfAccepted(<<>>, Maybe(pairVerifyFailed) \o Fail)
      \o setupCiphers

\* Answered when the question has been put to the user; the device's key follows
\* when the user has accepted.
setupManualPairing == writeEvent("setup") \o read("setup")
readDeviceKey == Push("pair", "deviceKey") \o readEvent("deviceKey") \o Local
setupSessionKey == readDeviceKey \o Local \o writeEvent("proof") \o Hear("pair", "proof")
exchangeDeviceInfo == Local \o writeEvent("deviceInfo") \o Hear("pair", "deviceInfo")
createUnlockKey == cipherWrite("unlockKey") \o cipherRead("unlockKey")

ManualPair ==
    writeRequest("attemptPairVerify") \o read("attemptPairVerify")
      \o Attempt(verifyPair,
                 setupManualPairing \o setupSessionKey \o exchangeDeviceInfo
                   \o setupCiphers \o createUnlockKey)

createTunnelListener ==
    Local \o cipherWrite("createListener") \o cipherReadChecked("createListener")
createTcpTunnelListener == createTunnelListener

----------------------------------------------------------------------------
(* The tunnel service of the device, and the tunnel.                         *)

\* The first candidate that turns out to be the device, if any does in time.
FindDeviceInterfaceAddress == Loop(tryHandshake) \o Maybe(Fail)

getUntrustedTunnelServicePort ==
    With("rsd", NewWithAddrPortDevice("rsd"), Handshake("rsd") \o RsdPortForService)

\* The connection the pairing ran on is not closed by anybody, whatever happens.
Paired ==
    FindDeviceInterfaceAddress \o getUntrustedTunnelServicePort
      \o ConnectTUNDevice("pair") \o Give("pair")
      \o Post("pair", "preface") \o CreateXpcConnection("pair") \o ManualPair

\* Any well-formed answer is taken for the parameters.
exchangeCoreTunnelParameters ==
    Local \o Write("tunnel", "CDTunnel") \o HearAny("tunnel", "CDTunnel") \o Local
setupTunnelInterface == Local

\* Over QUIC.  A failing step leaves the connection to the device open.
connectToTunnel ==
    Local \o Dial("tunnel") \o Post("tunnel", "datagram") \o Local
      \o exchangeCoreTunnelParameters \o setupTunnelInterface
ManualPairAndConnectToTunnel == Paired \o createTunnelListener \o connectToTunnel

\* Over lockdown, or over TCP with a key both sides know.
connectToTunnelLockdown == exchangeCoreTunnelParameters \o setupTunnelInterface
ConnectTunnelLockdown == ConnectToService("tunnel") \o connectToTunnelLockdown
tlspskClient == Secure("tunnel")
ManualPairAndConnectToTunnelTCP ==
    Paired \o Maybe(Fail) \o createTcpTunnelListener
      \o Dial("tunnel") \o tlspskClient \o connectToTunnelLockdown

\* In the process itself: a network stack, and a listener for its clients.
connectToUserspaceTunnelLockdown == exchangeCoreTunnelParameters \o Local \o Local
ConnectUserSpaceTunnelLockdown ==
    ConnectToService("tunnel") \o connectToUserspaceTunnelLockdown

\* The closing function of a tunnel takes the connection down with it.
TunnelClose == Close("tunnel")

StartTunnel ==
    Choose({ConnectUserSpaceTunnelLockdown, ConnectTunnelLockdown,
            ManualPairAndConnectToTunnel, Fail})
startTunnel == GetProductVersion \o StartTunnel
=============================================================================
