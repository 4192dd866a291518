---------------------------- MODULE FileServices ----------------------------
(***************************************************************************)
(* File access: AFC and the services that hand out AFC connections, and the *)
(* file service of newer devices with its separate data connection.         *)
(***************************************************************************)
EXTENDS Connections

----------------------------------------------------------------------------
(* AFC.  Packets are written to the socket directly; an answer is matched to *)
(* its request by its place alone.                                          *)

Packet(c, q) == Write(c, q) \o Hear(c, q)
PacketAny(c, q) == Write(c, q) \o HearAny(c, q)

NewAfc(c) == ConnectToService(c)
List(c) == Packet(c, "List") \o Local
Stat(c) == Packet(c, "Stat")
MkDir(c) == Packet(c, "MkDir")
remove(c) == Packet(c, "Remove")
AfcDeviceInfo(c) == Packet(c, "DeviceInfo") \o Local
OpenFile(c) == Packet(c, "OpenFile")
ReadFile(c) == Packet(c, "ReadFile")
WriteFile(c) == Packet(c, "WriteFile")
CloseFile(c) == Packet(c, "CloseFile")

\* A directory or an entry the device denies access to is passed over.  The
\* visitors of this code leave directories alone, so an entry is either visited
\* or walked in its turn; the directories of the innermost level are empty.
DeniedOr(q, c, body) == PacketAny(c, q) \o IfAccepted(body, Maybe(Fail))
WalkDir(c, visit) ==
    LET Walk(entries) == DeniedOr("List", c, entries)
        Entries(directory) == Loop(DeniedOr("Stat", c, Choose({visit, directory})))
    IN Walk(Entries(Walk(Entries(Walk(<<>>)))))

\* The remote file is closed whether or not the copy works.
PullSingleFile(c) ==
    Stat(c) \o OpenFile(c)
      \o Deferred(CloseFile(c), Local \o Loop(ReadFile(c) \o Local))

\* Entries of a directory are pulled in turn, directories with all they hold,
\* unless their name is unsafe; those of the innermost level are empty.
Pull(c) ==
    LET PullOne(entries) ==
            Stat(c) \o Choose({PullSingleFile(c), Local \o List(c) \o entries})
        Entries(one) == Loop(Maybe(Fail) \o one)
    IN PullOne(Entries(PullOne(Entries(PullOne(<<>>)))))

\* A target that cannot be looked at may still be created.
WriteToFile(c) ==
    Try(Stat(c)) \o Maybe(Fail) \o OpenFile(c)
      \o Deferred(CloseFile(c), Loop(Local \o WriteFile(c)))
AfcPush(c) == Local \o Try(Stat(c)) \o WriteToFile(c)

----------------------------------------------------------------------------
(* House arrest: the container of an application, or its documents.         *)

vend(c, q) == Attempt(AskAny(c, q) \o Local, Close(c) \o Fail)

\* Only a denial of the device leads to the second try, on a new connection.
HouseArrest(c) ==
    ConnectToService(c) \o vend(c, "VendContainer")
      \o IfAccepted(<<>>,
           Close(c) \o ConnectToService(c) \o vend(c, "VendDocuments")
             \o IfAccepted(<<>>, Close(c) \o Fail))

----------------------------------------------------------------------------
(* Crash reports are first moved to where AFC can see them.                 *)

newMover == ConnectToService("mover")
moveReports == With("mover", newMover, Expect("mover", "ping"))

OnReports(visit) ==
    moveReports \o With("copy", ConnectToService("copy"), WalkDir("copy", visit))
DownloadReports == Maybe(Fail) \o OnReports(Maybe(PullSingleFile("copy")))
RemoveReports == Maybe(Fail) \o OnReports(Maybe(remove("copy")))
ListReports == OnReports(<<>>)

----------------------------------------------------------------------------
(* The file service: commands over XPC, contents over a connection of their *)
(* own that is opened for each file.                                        *)

FsAsk(q) == Write("fs", q) \o Hear("fs", q) \o Local
createSession == FsAsk("CreateSession")
NewFileService ==
    ConnectToXpcServiceTunnelIface("fs") \o Attempt(createSession, Close("fs") \o Fail)

ListDirectory == FsAsk("RetrieveDirectoryList")

sendRawData(q) == Post("fsdata", q)
receiveFileDataToWriter == Hear("fsdata", "RetrieveData") \o Local
downloadFileData ==
    With("fsdata", ConnectToServiceTunnelIface("fsdata"),
         Write("fsdata", "RetrieveData") \o receiveFileDataToWriter)
PullFile == FsAsk("RetrieveFile") \o downloadFileData

\* The size says how much will be sent; the device confirms at the end.
uploadFileData ==
    With("fsdata", ConnectToServiceTunnelIface("fsdata"),
         sendRawData("header") \o Loop(Local \o sendRawData("chunk"))
           \o Expect("fsdata", "Confirmation"))
PushEmptyFile == FsAsk("ProposeEmptyFile")
PushSmallFile == Local \o FsAsk("ProposeFile")
PushLargeFile == FsAsk("ProposeFile") \o uploadFileData
PushFile == Choose({Fail, PushEmptyFile, PushSmallFile, PushLargeFile})
=============================================================================
