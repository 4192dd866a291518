---------------------------- MODULE Applications ----------------------------
(***************************************************************************)
(* Applications: listing, installing and removing them, launching them with *)
(* or without their standard streams, and attaching a debugger.             *)
(***************************************************************************)
EXTENDS Connections

----------------------------------------------------------------------------
(* Installation proxy.  The answers to a request are chunks or reports that  *)
(* end with one of status Complete; an error report ends the call.          *)

NewInstallationProxy(c) == ConnectToService(c)
browseApps(c) == Local \o Post(c, "Browse") \o Progress(c, "Browsed")
Uninstall(c) == Local \o Post(c, "Uninstall") \o Progress(c, "Uninstalled")

----------------------------------------------------------------------------
(* Zip conduit: the request and the files go out without an answer; what     *)
(* comes back is the progress of the installation.                          *)

NewZipConduit == Choose({ConnectToService("zip"), ConnectToShimService("zip")})
addFileToZip == Local \o Post("zip", "file")
transferFile == Post("zip", "file")
transferDirectory == Post("zip", "directory")
waitForInstallation == Progress("zip", "Installed")
centralDirectory == Post("zip", "centralDirectory")

sendDirectory ==
    Local \o Post("zip", "InitTransfer") \o addFileToZip \o addFileToZip
      \o Loop(addFileToZip) \o centralDirectory \o waitForInstallation
sendIpaFile ==
    Local \o Post("zip", "InitTransfer") \o transferDirectory \o transferFile
      \o Loop(Choose({transferDirectory, Local \o transferFile}))
      \o centralDirectory \o waitForInstallation
SendFile == Local \o Choose({sendDirectory, sendIpaFile})

----------------------------------------------------------------------------
(* The application service of newer devices.  The socket of an application's *)
(* standard streams is not closed when the launch fails.                    *)

NewAppService == ConnectToXpcServiceTunnelIface("apps")
NewOpenStdIoSocket(c) ==
    Rsd \o ConnectTUNDevice(c) \o ExpectAny(c, "UUID") \o Local \o Give(c)

AppRequest(q) == Write("apps", q) \o Hear("apps", q)
launchApp == AppRequest("LaunchApplication")
LaunchApp == launchApp
LaunchAppWithStdIo == NewOpenStdIoSocket("stdio") \o launchApp
LaunchedAppClose == Close("stdio")
ListProcesses == AppRequest("ListProcesses") \o Local
AppServiceKillProcess == AppRequest("SendSignal")

\* A device that goes silent or hangs up is taken to reboot.
RebootWithStyle ==
    Write("apps", "Reboot")
      \o IfWorks(HearAny("apps", "Reboot"), IfAccepted(<<>>, Fail), Maybe(Fail))

----------------------------------------------------------------------------
(* The debug server.  The session ends with lldb, whose bytes are forwarded  *)
(* and not looked at; neither connection is closed.                         *)

getBundleidFromApp == Local
connectToDevice(c) == GetValuesPlist \o ConnectToService(c)
startLLDB == Local
DebugServerStart ==
    getBundleidFromApp \o NewInstallationProxy("dbgapps") \o browseApps("dbgapps") \o Maybe(Fail)
      \o connectToDevice("dbg") \o Local \o startLLDB
=============================================================================
