------------------------------ MODULE Testing ------------------------------
(***************************************************************************)
(* How ios/testmanagerd brings a test target to run on each generation of   *)
(* devices, and how it cleans up.  What happens between the start of the    *)
(* plan and the return of the results is the subject of TestRun; here it is *)
(* a wait that ends one way or another.                                     *)
(***************************************************************************)
EXTENDS Applications, Management, SmallServices

----------------------------------------------------------------------------
(* Applications and the configuration of the test.                          *)

getappInfo == Maybe(Fail)
AppInfos == browseApps("ip") \o getappInfo \o Maybe(getappInfo)
getTestInfo == With("ip", NewInstallationProxy("ip"), AppInfos)

createTestConfigOnDevice ==
    Local \o OpenFile("afc") \o Deferred(CloseFile("afc"), Loop(WriteFile("afc")))
setupXcuiTest ==
    With("ip", NewInstallationProxy("ip"),
         AppInfos \o HouseArrest("afc") \o Deferred(Close("afc"), createTestConfigOnDevice))

\* A device that does not say what is installed is tested all the same.
getUserInstalledApps ==
    Try(With("ip", NewInstallationProxy("ip"), browseApps("ip")))

----------------------------------------------------------------------------
(* Calls to testmanagerd.  A reply of another type than expected is an error. *)

newDtxProxyWithConfig(c) == Try(Call(c, "_requestChannel"))
daemonCall(c, q) == Call(c, q) \o Local
initiateSessionWithIdentifierAndCaps(c) == daemonCall(c, "initiateSession")
initiateSessionWithIdentifier(c) == daemonCall(c, "initiateSession")
initiateControlSessionWithCapabilities(c) == daemonCall(c, "initiateControlSession")
initiateControlSession(c) == Call(c, "initiateControlSession")
authorizeTestSessionWithProcessID(c) == daemonCall(c, "authorizeTestSession")
startExecutingTestPlan(c) == Post(c, "startExecutingTestPlan")

\* Waits for the device to ask for a channel, and nothing else: it does not
\* notice that the connection is gone.
ForChannelRequest(c) == Attempt(ExpectAny(c, "_requestChannel"), Hang)

\* The plan ends, a connection is lost or the caller cancels; the test runner is
\* killed, whatever comes of that; what the listener has recorded is returned.
WaitAndKill(kill) == Try(kill) \o Maybe(Fail)

----------------------------------------------------------------------------
(* iOS 17 and later: both connections through the tunnel, the application is *)
(* launched by the application service.                                     *)

startTestRunner17 == LaunchAppWithStdIo
killTestRunner == AppServiceKillProcess
runXUITestWithBundleIdsXcode15Ctx ==
    With("tm1", NewTunnelConnection("tm1"),
    With("tm2", NewTunnelConnection("tm2"),
    With("ip", NewInstallationProxy("ip"),
         AppInfos \o newDtxProxyWithConfig("tm1")
           \o initiateSessionWithIdentifierAndCaps("tm1")
           \o With("apps", NewAppService,
                startTestRunner17 \o Deferred(LaunchedAppClose,
                  newDtxProxyWithConfig("tm2")
                    \o initiateControlSessionWithCapabilities("tm2")
                    \o authorizeTestSessionWithProcessID("tm2")
                    \o ForChannelRequest("tm1") \o startExecutingTestPlan("tm1")
                    \o WaitAndKill(killTestRunner))))))

----------------------------------------------------------------------------
(* Older devices: through usbmuxd, launched by process control.  Up to iOS 16 *)
(* the answer to the authorization is not looked at.                        *)

startTestRunner12 == StartProcess
Xcode12Session ==
    newDtxProxyWithConfig("tm2") \o initiateControlSessionWithCapabilities("tm1")
      \o initiateSessionWithIdentifierAndCaps("tm2")
      \o With("dtx", NewProcessControl,
           startTestRunner12 \o ForChannelRequest("tm2")
             \o Try(authorizeTestSessionWithProcessID("tm1"))
             \o startExecutingTestPlan("tm2") \o WaitAndKill(KillProcess))
runXUITestWithBundleIdsXcode12Ctx ==
    With("tm1", NewUsbmuxdConnection("tm1"),
         getTestInfo \o newDtxProxyWithConfig("tm1")
           \o With("tm2", NewUsbmuxdConnection("tm2"), Xcode12Session))

startTestRunner11 == StartProcess
Xcode11Session ==
    newDtxProxyWithConfig("tm2") \o initiateSessionWithIdentifier("tm1")
      \o With("dtx", NewProcessControl,
           startTestRunner11 \o initiateControlSession("tm2") \o ForChannelRequest("tm1")
             \o startExecutingTestPlan("tm1") \o WaitAndKill(KillProcess))
runXCUIWithBundleIdsXcode11Ctx ==
    setupXcuiTest
      \o With("tm1", NewUsbmuxdConnection("tm1"),
           newDtxProxyWithConfig("tm1")
             \o With("tm2", NewUsbmuxdConnection("tm2"), Xcode11Session))

----------------------------------------------------------------------------
(* The entry points.                                                        *)

RunTestTarget(run) == Maybe(Fail) \o GetProductVersion \o run
parseFile == Local
buildTestConfig == Local

\* Targets run one after the other; a failing one does not keep the next away.
StartXCTest(run) ==
    parseFile \o getUserInstalledApps \o Loop(buildTestConfig)
      \o Choose({RunTestTarget(run),
                 IfWorks(RunTestTarget(run), RunTestTarget(run),
                         Try(RunTestTarget(run)) \o Fail)})
=============================================================================
