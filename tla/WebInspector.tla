---------------------------- MODULE WebInspector ----------------------------
(***************************************************************************)
(* The client of the device's web inspector.  A goroutine reads all          *)
(* messages: it files applications and pages, hands answers to the commands *)
(* that wait for them by identifier, and queues everything else as events.  *)
(* A read of the script is what that goroutine hands to the caller.         *)
(***************************************************************************)
EXTENDS SmallServices

\* Nothing is answered directly.
sendMessage(selector) == Post("wi", selector)

\* State that the device reports some time, polled until the context ends; the
\* reader's error, and the notification that the inspector is off, end the wait.
waitFor(state) == Choose({ExpectAny("wi", state), Fail})

NewClient == Service("wi")

\* The watch for the notification has a connection of its own, which it closes.
watchDisabledNotification ==
    Try(With("np", NewNotificationProxy, Observe))
forwardGetListing == sendMessage("_rpc_forwardGetListing:")
GetConnectedApplications ==
    sendMessage("_rpc_getConnectedApplications:") \o waitFor("applications")
WebInspectorConnect ==
    watchDisabledNotification \o sendMessage("_rpc_reportIdentifier:")
      \o GetConnectedApplications
WebInspectorClose == Close("wi")

\* What the reader does with a message; it asks for the pages of each new
\* application, without waiting for them.
parseApplication == Local
parsePage == Local
handleApplicationData == Local
handleMessage ==
    Choose({<<>>,
            Loop(parseApplication \o Try(forwardGetListing)),
            parseApplication \o forwardGetListing,
            Loop(parsePage),
            handleApplicationData})
readLoop == Loop(ExpectAny("wi", "message") \o Try(handleMessage)) \o Fail

OpenApp == sendMessage("_rpc_requestApplicationLaunch:") \o waitFor("application")
ListPages == GetConnectedApplications \o Maybe(Fail)

SetupInspectorSocket == sendMessage("_rpc_forwardSocketSetup:")
RequestAutomationSession == sendMessage("_rpc_forwardAutomationSessionRequest:")
NextEvent == waitFor("event")

\* The answer is found by its identifier, so one that comes too late is no
\* longer waited for; an error in it is the command's.
SendCommand(q) == Local \o Call("wi", q)

----------------------------------------------------------------------------
(* Evaluation of an expression: the target is announced by an event, and so  *)
(* is the result, which is looked for by its number.                        *)

parseEvaluateResult == Local
Evaluate ==
    SetupInspectorSocket \o Loop(NextEvent) \o NextEvent
      \o SendCommand("Target.sendMessageToTarget") \o Loop(NextEvent) \o NextEvent
      \o parseEvaluateResult

----------------------------------------------------------------------------
(* Automation.                                                              *)

AutomationSession ==
    Maybe(Fail) \o RequestAutomationSession \o forwardGetListing \o waitFor("page")
      \o SetupInspectorSocket \o forwardGetListing \o waitFor("connection")

StartAutomation == SendCommand("Automation.createBrowsingContext") \o Local
WindowHandles == SendCommand("Automation.getBrowsingContexts")
StopAutomation == WindowHandles \o Loop(Try(SendCommand("Automation.closeBrowsingContext")))
Navigate == Maybe(StartAutomation) \o SendCommand("Automation.navigateBrowsingContext")
ExecuteScript == Maybe(StartAutomation) \o Local \o SendCommand("Automation.evaluateJavaScriptFunction")
CurrentURL == ExecuteScript
Title == ExecuteScript

----------------------------------------------------------------------------
(* The bridge for a browser's developer tools.  "ws" is the browser.  What   *)
(* it asks is wrapped for the page; the page's own answer comes as an event *)
(* and is found by its identifier, by the goroutine that forwards events.   *)

sendInner(q) == SendCommand("Target.sendMessageToTarget")
sendInnerWait(q) == sendInner(q) \o Choose({Expect("wi", q), Fail})
evaluate == sendInnerWait("Runtime.evaluate")

objectIDToNodeID == sendInnerWait("DOM.requestNode")
domGetNodeForLocation == evaluate \o Maybe(objectIDToNodeID)
domGetNodesForSubtreeByStyle ==
    sendInnerWait("DOM.resolveNode")
      \o Maybe(sendInnerWait("Runtime.callFunctionOn")
                 \o Maybe(sendInnerWait("Runtime.getCollectionEntries")
                            \o Loop(Try(objectIDToNodeID))))
domDebuggerGetEventListeners ==
    objectIDToNodeID \o Try(sendInnerWait("DOM.getEventListenersForNode"))
debuggerSetBlackboxPatterns == Loop(sendInnerWait("Debugger.setShouldBlackboxURL"))
runtimeCompileScript == sendInnerWait("Runtime.parse")
pageGetNavigationHistory == evaluate \o evaluate
pageGetResourceTree == sendInnerWait("Page.getResourceTree")
pageStartScreencast == evaluate
inputEmulateTouchFromMouseEvent == Choose({<<>>, evaluate, evaluate \o Try(evaluate)})
inputDispatchKeyEvent == Maybe(evaluate)
handleSpecialCommand ==
    Choose({domGetNodeForLocation, domGetNodesForSubtreeByStyle, domDebuggerGetEventListeners,
            debuggerSetBlackboxPatterns, runtimeCompileScript, pageGetNavigationHistory,
            pageGetResourceTree, pageStartScreencast, inputEmulateTouchFromMouseEvent,
            inputDispatchKeyEvent, <<>>})

\* A picture that fails is skipped.
screencastOffsets == Try(evaluate)
screencastLoop ==
    Loop(screencastOffsets \o IfWorks(sendInnerWait("Page.snapshotRect"), Try(Post("ws", "frame")), <<>>))

\* Three ways to deal with a command; only a browser that is gone ends the loop.
localCDPResponse == Post("ws", "result") \o Loop(Post("ws", "event"))
specialCommand ==
    IfWorks(handleSpecialCommand, Post("ws", "result"), Post("ws", "error"))
passedOnCommand == Attempt(sendInner("command"), Post("ws", "error"))
forwardBrowserCommands ==
    ExpectAny("ws", "command") \o Choose({specialCommand, localCDPResponse, passedOnCommand})
forwardDeviceEvents == NextEvent \o Maybe(Post("ws", "event"))

waitForTargetID ==
    Loop(NextEvent \o Maybe(Try(Post("ws", "event")))) \o NextEvent
      \o Maybe(Try(Post("ws", "event")))

\* A page's session lasts until one of its two directions ends; the browser's
\* connection is closed, the inspector's is the server's.
PageSession ==
    Attempt(SetupInspectorSocket \o waitForTargetID, Try(Post("ws", "error")) \o Fail)
      \o Loop(Choose({forwardDeviceEvents, forwardBrowserCommands, screencastLoop}))
handlePageWebSocket == Maybe(Fail) \o With("ws", Dial("ws"), PageSession)
handleTargets == ListPages
CDPServe == Local \o Loop(Try(Choose({handleTargets, handlePageWebSocket})))
=============================================================================
