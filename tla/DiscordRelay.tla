----------------------------- MODULE DiscordRelay -----------------------------
(***************************************************************************)
(* Relaying a message to a Discord destination from the chat:              *)
(* core/discord_relay/service.py on top of the approvals of TrustService,  *)
(* with the planner that turns "send it" and "no" into a dispatch          *)
(* (core/orchestrator/planner.py) and the assistant that stores what the   *)
(* relay hands back as the active request of the session.                  *)
(*                                                                         *)
(* A chat turn previews a payload; later turns confirm or deny what the    *)
(* stored preview offers.  handle_request is synchronous, so one turn runs *)
(* to its end on the event loop; status threads and a crash come between   *)
(* its writes: the trust tables, the send, the mark of the grant, and the  *)
(* stored request state.  That state and the tables survive a restart, the *)
(* memory of recent sends does not.                                        *)
(*                                                                         *)
(* An action of TrustService is the dispatch to one destination.           *)
(***************************************************************************)
EXTENDS TrustService, FiniteSetsExt

CONSTANTS
    Payloads,   \* what the fingerprint of a preview tells apart
    NoPreview,  \* no preview is stored
    NoReply     \* the relay has nothing to hand back

VARIABLES
    pending,  \* the preview in the active request state of the session
    source,   \* the payload the context of the next message holds
    sends,    \* the sends of this process within duplicate_window_seconds
    reply,    \* the request state handed back and not stored yet
    said      \* history: the answer the turn in progress acts on

relayVars == <<vars, pending, source, sends, reply, said>>

\* `request` is trust.request_id, 0 if the state carries none.
Preview == [to: Actions, payload: Payloads, lapsed: BOOLEAN, request: Nat]

ASSUME RelayAssumption ==
    /\ NoPreview \notin Preview
    /\ NoReply \notin Preview \cup {NoPreview}

RelayTypeOK ==
    /\ TypeOK
    /\ pending \in Preview \cup {NoPreview}
    /\ source \in Payloads
    /\ sends \in Seq(Payloads)
    /\ reply \in Preview \cup {NoPreview, NoReply}
    /\ said \in {"nothing", "yes", "no"}

-------------------------------------------------------------------------------

\* No turn is in progress.
Free == Idle /\ reply = NoReply

\* The request a decision that is not allowed names: the denial that blocks the
\* dispatch, the prompt that is still open, or the new one.
DeniedFor(d) == {k \in DOMAIN denials : /\ requests[denials[k]].state = "denied"
                                        /\ requests[denials[k]].action = d}
PromptFor(d) ==
    IF Blocked(d, NoTask) THEN denials[Max(DeniedFor(d))]
    ELSE IF PendingFor(d, NoTask) # {} THEN Max(PendingFor(d, NoTask))
    ELSE Len(requests) + 1

\* "send this to <alias>": a preview of what the context holds.  When a live
\* grant covers the destination the decision is "allowed" and names no request.
MakePreview(d) ==
    /\ Free
    /\ \E r \in 0..MaxRequests :
           /\ \/ Ask(d, NoTask) /\ r = PromptFor(d)
              \/ Allowed(d, NoTask) /\ UNCHANGED <<handVars, uses>> /\ r = 0
           /\ reply' = [to |-> d, payload |-> source, lapsed |-> FALSE, request |-> r]
    /\ UNCHANGED <<pending, source, sends, said>>

\* Mutation: every preview has a fingerprint of its own.
NeverDuplicate(p) == FALSE

\* _check_duplicate_send: the keys of _recent_dispatches are the payloads sent.
Duplicate(p) == \E k \in DOMAIN sends : sends[k] = p

\* Mutation: the preview goes back with the request it came with.
PreviewAlone == pending

\* _pending_preview_request_state: the preview without its trust payload.
PreviewAsStored == [pending EXCEPT !.request = 0]

\* Confirming or denying a preview whose TTL has passed offers it again, without
\* its approval request.
OfferAgain ==
    /\ pending.lapsed
    /\ reply' = [PreviewAsStored EXCEPT !.lapsed = FALSE]
    /\ UNCHANGED <<vars, sends>>

\* The source changed after the preview, or it was sent a moment ago.
Drop ==
    /\ ~pending.lapsed
    /\ pending.payload # source \/ Duplicate(pending.payload)
    /\ reply' = NoPreview
    /\ UNCHANGED <<vars, sends>>

Ready == ~pending.lapsed /\ pending.payload = source /\ ~Duplicate(pending.payload)

\* The adapter cannot send now.
CapabilityBlock ==
    /\ Ready
    /\ reply' = PreviewAsStored
    /\ UNCHANGED <<vars, sends>>

\* LocalDiscordClientAdapter.send, by what the relay looks at: the send gesture was
\* made, the wrong thread had the focus, or it gave up elsewhere before the gesture.
AdapterOutcomes == {"sent", "wrong thread", "given up"}

\* The attempt, allowed by the trust step it is conjoined with: a grant is in hand,
\* to be marked, if the message was sent.  Only the wrong thread keeps the preview.
Attempt ==
    \E outcome \in AdapterOutcomes :
        /\ (outcome = "sent") = (inHand' # 0)
        /\ sends' = IF outcome = "sent" THEN Append(sends, pending.payload) ELSE sends
        /\ reply' = IF outcome = "wrong thread" THEN PreviewAsStored ELSE NoPreview

\* The stored preview names an approval request: the answer goes to it.
AnswerRequest(word) ==
    /\ Ready
    /\ pending.request # 0
    /\ \/ RefuseAnswer(pending.request, NoTask) /\ reply' = pending /\ UNCHANGED sends
       \/ word = "no" /\ Deny(pending.request, NoTask) /\ reply' = NoPreview /\ UNCHANGED sends
       \/ word = "yes" /\ Approve(pending.request, NoTask, "once") /\ Attempt

\* It names none: the dispatch is evaluated, whatever the answer was.
EvaluateDispatch ==
    /\ Ready
    /\ pending.request = 0
    /\ \/ /\ Ask(pending.to, NoTask)
          /\ reply' = IF Blocked(pending.to, NoTask) THEN NoPreview
                      ELSE [pending EXCEPT !.request = PromptFor(pending.to)]
          /\ UNCHANGED sends
       \/ ActUnderGrant(pending.to, NoTask) /\ Attempt

\* A confirmation phrase, or one of "no", "deny", "cancel", "stop".
Answered(word) ==
    /\ Free
    /\ pending # NoPreview
    /\ said' = word
    /\ OfferAgain \/ Drop \/ CapabilityBlock \/ AnswerRequest(word) \/ EvaluateDispatch
    /\ UNCHANGED <<pending, source>>

\* mark_action_executed, after the send.
MarkSent == Mark /\ UNCHANGED <<pending, source, sends, reply, said>>

\* set_active_request_state or clear_active_request_state: the end of the turn.
Store ==
    /\ Idle
    /\ reply # NoReply
    /\ pending' = reply
    /\ reply' = NoReply
    /\ said' = "nothing"
    /\ UNCHANGED <<vars, source, sends>>

\* A turn about something else replaces the active request.
Forget ==
    /\ Free
    /\ pending # NoPreview
    /\ pending' = NoPreview
    /\ UNCHANGED <<vars, source, sends, reply, said>>

-------------------------------------------------------------------------------
(* Threads, clocks and crashes.  What only a handler reads changes between   *)
(* turns.                                                                    *)

Outside ==
    /\ ThreadReads \/ ThreadWrites \/ (\E i \in DOMAIN requests : LapseRequest(i)) \/ (\E i \in DOMAIN grants : LapseGrant(i))
    /\ UNCHANGED <<pending, source, sends, reply, said>>

SourceChanges ==
    /\ Free
    /\ source' \in Payloads \ {source}
    /\ UNCHANGED <<vars, pending, sends, reply, said>>

PreviewLapses ==
    /\ Free
    /\ pending # NoPreview
    /\ ~pending.lapsed
    /\ pending' = [pending EXCEPT !.lapsed = TRUE]
    /\ UNCHANGED <<vars, source, sends, reply, said>>

WindowPasses ==
    /\ Free
    /\ sends # <<>>
    /\ sends' = Tail(sends)
    /\ UNCHANGED <<vars, pending, source, reply, said>>

Crash ==
    /\ \/ Restart
       \/ /\ Free /\ pending # NoPreview /\ Ready /\ pending.request # 0
          /\ CrashBetweenSaves(pending.request, NoTask, "once")
    /\ sends' = <<>>
    /\ reply' = NoReply
    /\ said' = "nothing"
    /\ UNCHANGED <<pending, source>>

-------------------------------------------------------------------------------

RelayInit ==
    /\ Init
    /\ pending = NoPreview
    /\ source \in Payloads
    /\ sends = <<>>
    /\ reply = NoReply
    /\ said = "nothing"

RelayNext ==
    \/ \E d \in Actions : MakePreview(d)
    \/ \E word \in {"yes", "no"} : Answered(word)
    \/ MarkSent
    \/ Store
    \/ Forget
    \/ Outside
    \/ SourceChanges
    \/ PreviewLapses
    \/ WindowPasses
    \/ Crash

RelaySpec == RelayInit /\ [][RelayNext]_relayVars

-------------------------------------------------------------------------------
(* Safety.                                                                 *)

\* One answer of the operator sends one message at most: no approval request ever
\* yields two grants, though respond_to_request would give a second one, and no
\* grant of the relay is acted on twice.  The request a preview carries must be
\* gone once it is answered, through refusals, failed attempts and crashes.
OneSendPerAnswer ==
    \A i, j \in DOMAIN grants :
        /\ uses[i] <= 1
        /\ grants[i].request = grants[j].request => i = j

\* Within the window, and while the process lives, nothing is sent twice: not by
\* repeated confirmations, by a second preview of the same thing, nor when an
\* attempt failed in between.
NoDuplicate == \A k, l \in DOMAIN sends : sends[k] = sends[l] => k = l

\* The latest word of the operator stands: a denial that still counts and a grant
\* that still allows the dispatch never meet, though evaluate_action looks for the
\* grant first and a denial takes no grant back.
NoGrantUnderDenial ==
    \A d \in Actions : Blocked(d, NoTask) => Matching(d, NoTask) = {}

\* "Dispatch only happens after approval and valid pending preview."
\* (docs/examples.md:144): the turn in which the operator says no sends nothing.
DenialIsHonoured == [][uses' # uses => said' # "no"]_relayVars
===============================================================================
