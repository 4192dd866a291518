--------------------------- MODULE Accessibility ---------------------------
(***************************************************************************)
(* The accessibility inspector's client: method calls and unanswered        *)
(* messages on the global channel of a DTX connection, and events of the    *)
(* device, of which the queue of DtxEvents keeps the newest.                *)
(***************************************************************************)
EXTENDS SmallServices

\* MethodCallAsync sends and forgets.  Where its error is dropped as well, the
\* message may or may not have gone out.
Async(q) == Post("ax", q)
AsyncAnyway(q) == Try(Async(q))

\* The payload's type is asserted: a refusal ends the process.
Asserted(q) == Call("ax", q) \o Cast(q)

----------------------------------------------------------------------------
(* Set-up.  The connection is returned together with the set-up's error, and *)
(* the callers return that error without closing it.                        *)

NewWithoutEventChangeListeners == NewUsbmuxdConnection("ax")

notifyPublishedCapabilities == Async("_notifyOfPublishedCapabilities:")
deviceCapabilities == Call("ax", "deviceCapabilities") \o Local
deviceAPIVersion == Asserted("deviceApiVersion")
deviceAllAuditCaseIDs == Call("ax", "deviceAllSupportedAuditTypes") \o Local
deviceInspectorSupportedEventTypes == Asserted("deviceInspectorSupportedEventTypes")
deviceInspectorCanNavWhileMonitoringEvents ==
    Asserted("deviceInspectorCanNavWhileMonitoringEvents")
deviceSetAppMonitoringEnabled == Async("deviceSetAppMonitoringEnabled:")
deviceHumanReadableDescriptionForAuditCaseID ==
    Call("ax", "deviceHumanReadableDescriptionForAuditCaseID:") \o Local

axInit ==
    notifyPublishedCapabilities \o deviceCapabilities \o deviceAPIVersion
      \o deviceAllAuditCaseIDs \o deviceInspectorSupportedEventTypes
      \o deviceInspectorCanNavWhileMonitoringEvents \o deviceSetAppMonitoringEnabled
      \o Loop(Try(deviceHumanReadableDescriptionForAuditCaseID))
NewAx == NewUsbmuxdConnection("ax") \o axInit
AxClose == Close("ax")

----------------------------------------------------------------------------
(* The element in focus.                                                    *)

deviceInspectorSetMonitoredEventType == AsyncAnyway("deviceInspectorSetMonitoredEventType:")
deviceInspectorShowVisuals == AsyncAnyway("deviceInspectorShowVisuals:")
deviceInspectorFocusOnElement == AsyncAnyway("deviceInspectorFocusOnElement:")
deviceInspectorPreviewOnElement == AsyncAnyway("deviceInspectorPreviewOnElement:")
deviceHighlightIssue == AsyncAnyway("deviceHighlightIssue:")
deviceInspectorShowIgnoredElements == AsyncAnyway("deviceInspectorShowIgnoredElements:")
deviceSetAuditTargetPid == AsyncAnyway("deviceSetAuditTargetPid:")
deviceInspectorMoveWithOptions == AsyncAnyway("deviceInspectorMoveWithOptions:")
deviceAccessibilitySettings == Call("ax", "deviceAccessibilitySettings")

\* With a deadline the wait may end without an element; without one, a device
\* that sends nothing, or whose connection is lost, is waited for for ever.
elementChanged == ExpectAny("ax", "hostInspectorCurrentElementChanged:")
awaitHostInspectorCurrentElementChanged == Choose({elementChanged, Fail})
awaitElementForEver == Choose({elementChanged, Hang})

parseElementResponse == Local
AwaitElementChanged == awaitHostInspectorCurrentElementChanged \o parseElementResponse
Move == deviceInspectorMoveWithOptions
GetElement == Move \o AwaitElementChanged

EnableSelectionMode == deviceInspectorSetMonitoredEventType \o deviceInspectorShowVisuals
DisableSelectionMode == deviceInspectorSetMonitoredEventType

TurnOff ==
    deviceInspectorSetMonitoredEventType \o deviceInspectorFocusOnElement
      \o Try(awaitElementForEver) \o deviceInspectorPreviewOnElement \o deviceHighlightIssue
      \o deviceInspectorShowVisuals \o Try(deviceSetAppMonitoringEnabled)

SwitchToDevice ==
    TurnOff \o Try(deviceAccessibilitySettings) \o deviceInspectorShowIgnoredElements
      \o deviceSetAuditTargetPid \o deviceInspectorFocusOnElement
      \o Try(awaitElementForEver) \o deviceInspectorPreviewOnElement \o deviceHighlightIssue

queryAttributeValue == Call("ax", "deviceElement:valueForAttribute:")
QueryAttributeValue == Local \o queryAttributeValue
PerformAction == Local \o Call("ax", "deviceElement:performAction:withValue:")

----------------------------------------------------------------------------
(* Settings and audits.                                                     *)

updateAccessibilitySetting == Call("ax", "deviceUpdateAccessibilitySetting:withValue:")
UpdateAccessibilitySetting == Attempt(updateAccessibilitySetting, Panic)
ResetToDefaultAccessibilitySettings == Async("deviceResetToDefaultAccessibilitySettings")

auditTypes == Call("ax", "deviceAllSupportedAuditTypes") \o Local
auditCompleted ==
    Choose({ExpectAny("ax", "hostDeviceDidCompleteAuditCategoriesWithAuditIssues:"), Fail})

\* An issue without a label is still an issue.
RunAudit ==
    deviceAPIVersion \o auditTypes \o Async("deviceBeginAuditTypes:") \o auditCompleted
      \o Loop(Try(QueryAttributeValue))
=============================================================================
