----------------------------- MODULE Management -----------------------------
(***************************************************************************)
(* Configuration of a device: MCInstall (profiles, supervision, passcodes,  *)
(* erasing, preparing), activation, developer mode, provisioning profiles,  *)
(* and the diagnostics relay.                                               *)
(***************************************************************************)
EXTENDS Images, FileServices

----------------------------------------------------------------------------
(* MCInstall.  check() is what makes an exchange strict.                    *)

NewMcInstall == ConnectToService("mc")
McInstall(body) == With("mc", NewMcInstall, body)
Checked(q) == Ask("mc", q)
McSendAndReceive(q) == AskAny("mc", q)

EscalateUnsupervised == Checked("Escalate")
EscalateWithCertAndKey == Checked("Escalate") \o Local \o Checked("EscalateResponse")
                            \o Checked("ProceedWithKeybagMigration")
Escalate == Local \o EscalateWithCertAndKey

HandleList == McSendAndReceive("GetProfileList") \o Local
addProfile(q) == Checked(q)
AddProfile == addProfile("InstallProfile")
AddProfileSupervised == Escalate \o addProfile("InstallProfileSilent")
RemoveProfile == Checked("RemoveProfile")
SetWallpaper == Checked("Settings")
SetWallpaperSupervised == Escalate \o SetWallpaper
GetCloudConfiguration == McSendAndReceive("GetCloudConfiguration")

sendChecked(q) == Checked(q)
FetchUnlockToken == sendChecked("RequestUnlockToken") \o Local
SecurityInfo == sendChecked("SecurityInfo") \o Local
PasscodePresent == SecurityInfo \o Local
ClearPasscode == sendChecked("ClearPasscode")
ClearScreenTimePassword == sendChecked("ClearRestrictionsPassword")

ProfileMethods == {HandleList, AddProfile, AddProfileSupervised, RemoveProfile,
                   SetWallpaperSupervised, FetchUnlockToken, PasscodePresent}
ProfileClient == Client(NewMcInstall, ProfileMethods, Close("mc"))

RemoveProxy == McInstall(RemoveProfile)
InstallProfileSilent == McInstall(AddProfileSupervised)
SetHttpProxy == Local \o InstallProfileSilent

\* The device may hang up instead of answering that it is being erased.
Erase == McInstall(Checked("Flush") \o Checked("GetCloudConfiguration")
                     \o Tell("mc", "EraseDevice")
                     \o IfWorks(HearAny("mc", "EraseDevice"), IfAccepted(<<>>, Fail), Maybe(Fail)))

\* Escalating without supervision fails, and is wanted all the same.
IsActivated == GetValuesPlist
Activated == IsActivated \o Maybe(Fail)
isSupervised == Try(GetCloudConfiguration)
OnWifi(change) ==
    Local \o Activated
      \o McInstall(Checked("Flush") \o isSupervised \o Try(EscalateUnsupervised) \o change)
PrepareWifi == OnWifi(AddProfile)
RemoveWifi == OnWifi(RemoveProfile)

Hello == Checked("HelloHostIdentifier")
setupSkipSetup ==
    With("afc", NewAfc("afc"),
         Try(remove("afc")) \o Try(MkDir("afc")) \o WriteToFile("afc") \o Maybe(Try(List("afc"))))
Prepare ==
    Activated
      \o McInstall(Checked("Flush") \o Checked("GetCloudConfiguration") \o Hello
           \o Checked("SetCloudConfiguration") \o Hello
           \o Checked("GetCloudConfiguration") \o Hello
           \o Try(EscalateUnsupervised) \o Hello \o AddProfile \o Hello
           \o SetLanguage \o SetTime \o setupSkipSetup)

----------------------------------------------------------------------------
(* Activation: three connections, with Apple's servers in between.  The      *)
(* first two answers must bring a Value, which no refusal does; the answer to *)
(* the last request, which stores the activation, is only logged.            *)

NewActivation(c) == ConnectToService(c)
ActivationSendAndReceive(c, q) == AskAny(c, q)
ValueOf(c, q) == ActivationSendAndReceive(c, q) \o IfAccepted(Local, Fail)
sendHandshakeRequest == Local
sendActivationRequest == Local
activateUnactivated ==
    With("act", NewActivation("act"),
         ValueOf("act", "CreateTunnel1SessionInfoRequest") \o sendHandshakeRequest
           \o With("act1", NewActivation("act1"),
                ValueOf("act1", "CreateActivationInfoRequest") \o sendActivationRequest
                  \o With("act2", NewActivation("act2"),
                       Local \o ActivationSendAndReceive("act2", "HandleActivationInfo"))))
Activate == IsActivated \o Choose({<<>>, activateUnactivated})

----------------------------------------------------------------------------
(* Developer mode.  The device restarts in between: only the host's own      *)
(* device list, polled for a minute, tells that it is back.                 *)

NewAmfi(c) == ConnectToService(c)
RevealDevMode(c) == Ask(c, "RevealDevMode")
EnableDevMode(c) == Ask(c, "EnableDevMode")
EnableDevModePostRestart(c) == Ask(c, "EnableDevModePostRestart")
GetDevice == GetDeviceWithAddress

revealAfterFailure ==
    IfWorks(NewAmfi("reveal"), Try(RevealDevMode("reveal")) \o Close("reveal"), <<>>)
WaitLoop == Loop(Try(GetDevice)) \o Choose({GetDevice, Fail})
EnableDeveloperMode ==
    Try(GetProductVersion) \o Maybe(Fail) \o IsDevModeEnabled
      \o Choose({<<>>,
           With("amfi", NewAmfi("amfi"),
                Attempt(EnableDevMode("amfi"), revealAfterFailure \o Fail) \o WaitLoop
                  \o Maybe(With("amfi2", NewAmfi("amfi2"), EnableDevModePostRestart("amfi2"))))})

CopyAll == With("misagent", ConnectToService("misagent"), Ask("misagent", "CopyAll"))

----------------------------------------------------------------------------
(* Diagnostics relay.  The connection stays open when the request or the     *)
(* goodbye fails.                                                           *)

NewDiagnostics == ConnectToService("diag")
DiagnosticsClose == AskAny("diag", "Goodbye") \o Close("diag")
Reboot == NewDiagnostics \o Ask("diag", "Restart") \o DiagnosticsClose
Shutdown == NewDiagnostics \o Ask("diag", "Shutdown") \o DiagnosticsClose

Battery == AskAny("diag", "IORegistry")
MobileGestaltQuery == AskAny("diag", "MobileGestalt") \o Local
DiagnosticsAllValues == Try(Tell("diag", "All")) \o HearAny("diag", "All")
DiagnosticsClient ==
    Client(NewDiagnostics, {Battery, MobileGestaltQuery, DiagnosticsAllValues},
           DiagnosticsClose)
=============================================================================
