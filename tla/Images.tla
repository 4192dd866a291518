------------------------------- MODULE Images -------------------------------
(***************************************************************************)
(* Developer disk images: three ways to mount one, by the device's version. *)
(* The signature for a device comes from Apple's servers, which are local   *)
(* work here; so are downloads and the files of the image.                  *)
(***************************************************************************)
EXTENDS Connections

WriteRead(c, q) == Write(c, q) \o Hear(c, q)

----------------------------------------------------------------------------
(* Images before iOS 17.                                                    *)

NewDeveloperDiskImageMounter == ConnectToService("img")
listImages == WriteRead("img", "LookupImage")
IsListed == listImages \o Local

sendUploadRequest == WriteRead("img", "ReceiveBytes")
waitForUploadComplete == Expect("img", "UploadComplete")
mountImage == WriteRead("img", "MountImage")
hangUp == Post("img", "Hangup")

\* A device that does not know the command has nothing mounted.
readUnmountResponse ==
    HearAny("img", "UnmountImage") \o IfAccepted(<<>>, Maybe(Fail))
Unmount == Write("img", "UnmountImage") \o readUnmountResponse

DeveloperMount ==
    Local \o sendUploadRequest \o Local \o Post("img", "image")
      \o waitForUploadComplete \o mountImage \o hangUp

----------------------------------------------------------------------------
(* Personalized images.                                                     *)

NewPersonalizedDeveloperDiskImageMounter ==
    GetValuesPlist \o Local \o ConnectToService("img")

queryIdentifiers == WriteRead("img", "QueryPersonalizationIdentifiers") \o Local
findDmgFile == Local \o queryIdentifiers \o Local
queryPersonalizationManifest(c) == Local \o WriteRead(c, "QueryPersonalizationManifest")
queryPersonalizedImageNonce(c) == WriteRead(c, "QueryNonce")
getSignature == Local

\* The receiver is a copy: the new connection replaces that of the copy, which
\* is gone when MountImage returns; the mounter keeps the closed one.
closeAndReconnect == Close("img") \o ConnectToService("img2")

\* Upload, mount and hang-up on the connection the signature was got on.
PersonalizedUpload(c) ==
    Local \o WriteRead(c, "ReceiveBytes") \o Local \o Post(c, "image")
      \o Expect(c, "UploadComplete") \o Local
mountPersonalizedImage(c) == WriteRead(c, "MountImage")
FinishMount(c) == PersonalizedUpload(c) \o mountPersonalizedImage(c) \o Post(c, "Hangup")

\* Any failure to read a stored manifest leads to a new one.
PersonalizedMount ==
    findDmgFile
      \o IfWorks(queryPersonalizationManifest("img"),
                 FinishMount("img"),
                 closeAndReconnect \o queryPersonalizedImageNonce("img2") \o getSignature
                   \o FinishMount("img2"))
PersonalizedIsMounted == listImages \o Maybe(findDmgFile \o Local)

----------------------------------------------------------------------------
(* Cryptexes: a connection for the questions, another for the upload.       *)

cryptexCall(q) == WriteRead("cryptexd", q)
Cryptexd(body) == With("cryptexd", ConnectToXpcServiceTunnelIface("cryptexd"), body)

SupportsCryptexDDI == Maybe(Fail)
ListCryptexes == Cryptexd(cryptexCall("copy-installed"))
CryptexUnmount ==
    Cryptexd(cryptexCall("copy-installed") \o Choose({Fail, cryptexCall("uninstall")}))

readCryptexPersonalizationIdentifiers == cryptexCall("read-personalization-id") \o Local
getCryptexNonce == cryptexCall("get-nonce") \o Local
cryptexDigests == Local

\* Each file has a stream of its own, opened before the request that names it;
\* the device accepts the files before it answers the request.
OpenFileTransfer == Local \o Post("cryptexd", "open")
WaitAccepted == Expect("cryptexd", "accepted")
Upload == WaitAccepted \o Local \o Post("cryptexd", "file")
installCryptex ==
    Loop(Local \o OpenFileTransfer) \o Post("cryptexd", "install") \o Loop(Upload)
      \o Expect("cryptexd", "install")

CryptexMount ==
    Local \o ConnectToXpcServiceTunnelIface("cryptexd")
      \o Attempt(readCryptexPersonalizationIdentifiers \o Local, Close("cryptexd") \o Fail)
      \o Attempt(getCryptexNonce, Close("cryptexd") \o Fail) \o Close("cryptexd")
      \o cryptexDigests \o getSignature \o Cryptexd(installCryptex)
CryptexIsMounted == Local \o ListCryptexes

----------------------------------------------------------------------------
(* The mounters behind one interface.  From iOS 17 on there are up to two,   *)
(* and ios17ImageMounter asks them in turn.                                  *)

Mounter(list, mounted, mount, unmount) ==
    [list |-> list, mounted |-> mounted, mount |-> mount, unmount |-> unmount]
Developer == Mounter(listImages, IsListed, DeveloperMount, Unmount)
Personalized == Mounter(listImages, PersonalizedIsMounted, PersonalizedMount, Unmount)
Cryptex == Mounter(ListCryptexes, CryptexIsMounted, CryptexMount, CryptexUnmount)

\* No mounter has unmounted anything when m is asked, or one has.
UnmountOnly(m) == IfWorks(m.list, Choose({Fail, m.unmount}), Fail)
UnmountToo(m) == IfWorks(m.list, Maybe(m.unmount), <<>>)
Single(m) == [m EXCEPT !.unmount = UnmountOnly(m)]

\* Failures to list are skipped unless all fail; the first that can mounts.
Ios17UnmountImage(a, b) ==
    IfWorks(a.list,
            Choose({UnmountOnly(b),
                    IfWorks(a.unmount, UnmountToo(b), Try(UnmountToo(b)) \o Fail)}),
            UnmountOnly(b))
Ios17(a, b) ==
    Mounter(IfWorks(a.list, Try(b.list), b.list),
            IfWorks(a.mounted, Maybe(b.mounted), b.mounted \o Maybe(Fail)),
            Attempt(a.mount, b.mount),
            Ios17UnmountImage(a, b))

\* What mounter m is opened for.  An image that is mounted already is left alone,
\* another one is unmounted.  Whoever lists images leaves the mounter open.
MountsImage(m) ==
    Deferred(Close("img"),
             m.list \o Choose({m.mount, m.mounted, m.mounted \o m.unmount \o m.mount}))
UnmountsImage(m) == Deferred(Close("img"), m.unmount)
Used(m, purpose) ==
    CASE purpose = "list" -> m.list
      [] purpose = "mount" -> MountsImage(m)
      [] purpose = "unmount" -> UnmountsImage(m)

newIOS17ImageMounter(purpose) ==
    IfWorks(NewPersonalizedDeveloperDiskImageMounter,
            Choose({Used(Single(Personalized), purpose),
                    Used(Ios17(Cryptex, Personalized), purpose)}),
            SupportsCryptexDDI \o Used(Single(Cryptex), purpose))
NewImageMounter(purpose) ==
    GetProductVersion
      \o Choose({NewDeveloperDiskImageMounter \o Used(Developer, purpose),
                 newIOS17ImageMounter(purpose)})

ListImages == NewImageMounter("list")
MountImage == NewImageMounter("mount")
UnmountImage == NewImageMounter("unmount")

IsDevModeEnabled ==
    With("img", ConnectToService("img"), AskAny("img", "QueryDeveloperModeStatus") \o Local)

DownloadImageFor == GetValues \o Local
=============================================================================
