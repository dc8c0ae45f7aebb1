---------------------------- MODULE Renegotiation ----------------------------
(***************************************************************************)
(* Renegotiating an established WebRTC session (client-core/src/rtc/mod.rs *)
(* and network/peer_orchestrator.rs).                                      *)
(*                                                                         *)
(* An end that starts or stops sharing its desktop spawns a task that      *)
(* takes the session's negotiation_lock, waits for the signaling state to  *)
(* be stable, or for a timeout, makes an offer, sends it over the data     *)
(* channel, and waits for the state to be stable again, or for a timeout,  *)
(* before it gives the lock back.  The end with the smaller id does the    *)
(* same, with a restart offer sent over the signaling path, when the       *)
(* connection is interrupted.  The other end handles an offer, and an      *)
(* answer, in a task of its own, without the lock.                         *)
(*                                                                         *)
(* The peer connection is a library: of its signaling state the model has  *)
(* "stable", "local" (an offer of this end is outstanding) and "remote"    *)
(* (an offer of the peer is to be answered).  Whether a second offer may   *)
(* replace an outstanding one depends on its version, so both may happen.  *)
(* An offer is abstracted to the version of the offerer's tracks, an answer*)
(* to the offer it answers.  Handlers are spawned one by one, so messages  *)
(* that are under way are handled in any order.                            *)
(*                                                                         *)
(* Each call of the library may also fail for reasons of its own, in any   *)
(* signaling state and with the new state entered or not; the code logs    *)
(* the error and goes no further with that offer or answer.                *)
(***************************************************************************)
EXTENDS Integers, FiniteSets

CONSTANTS Ends,         \* the two ends of the session
          Hosts,        \* ends that share a desktop
          Restarters,   \* ends that restart ICE: at most the one with the smaller id
          MaxChanges,   \* bound on streams started or stopped
          MaxRestarts,  \* bound on interruptions
          MaxFailures   \* bound on calls of the library that fail by themselves

ASSUME RenegotiationAssumption ==
    /\ IsFiniteSet(Ends) /\ Cardinality(Ends) = 2
    /\ Hosts \subseteq Ends /\ Restarters \subseteq Ends
    /\ Cardinality(Restarters) <= 1
    /\ MaxChanges \in Nat /\ MaxRestarts \in Nat /\ MaxFailures \in Nat

VARIABLES
    tracks,   \* version of an end's own tracks
    jobs,     \* spawned tasks that wait for negotiation_lock: how many per kind
    holder,   \* the task with the lock: "none", "before", "created" or "after"
    kind,     \* its kind: "desktop" or "restart"
    offered,  \* the offer it created
    sig,      \* the signaling state
    local,    \* the local offer that is outstanding
    remote,   \* the remote offer that is to be answered
    agreed,   \* the latest own offer an answer was applied for
    inbox,    \* messages on their way to an end, and tasks that handle them
    offers,   \* offers an end has sent
    hurried,  \* a wait timed out
    lost,     \* a message of the signaling path was lost
    failures, \* calls of the library that failed by themselves
    restarts  \* counted for the bound

sdpVars == <<tracks, jobs, holder, kind, offered, sig, local, remote, agreed, inbox,
             offers, hurried, lost, failures, restarts>>
pcVars == <<sig, local, remote, agreed>>
lockVars == <<jobs, holder, kind, offered>>
boundVars == <<offers, hurried, lost, failures, restarts>>

Kinds == {"desktop", "restart"}
Other(e) == CHOOSE f \in Ends : f # e

\* A session whose first offer and answer have been exchanged.
SdpInit ==
    /\ tracks = [e \in Ends |-> 0]
    /\ jobs = [e \in Ends |-> [k \in Kinds |-> 0]]
    /\ holder = [e \in Ends |-> "none"]
    /\ kind = [e \in Ends |-> "desktop"]
    /\ offered = [e \in Ends |-> 0]
    /\ sig = [e \in Ends |-> "stable"]
    /\ local = [e \in Ends |-> 0]
    /\ remote = [e \in Ends |-> 0]
    /\ agreed = [e \in Ends |-> 0]
    /\ inbox = [e \in Ends |-> {}]
    /\ offers = [e \in Ends |-> 0]
    /\ hurried = FALSE /\ lost = FALSE
    /\ failures = 0 /\ restarts = 0

\* A stream is started or stopped: the tracks change and a renegotiation is
\* spawned.
Change(e) ==
    /\ e \in Hosts
    /\ tracks[e] + tracks[Other(e)] < MaxChanges
    /\ tracks' = [tracks EXCEPT ![e] = @ + 1]
    /\ jobs' = [jobs EXCEPT ![e]["desktop"] = @ + 1]
    /\ UNCHANGED <<holder, kind, offered, pcVars, inbox, boundVars>>

\* The connection is still interrupted after the grace time and this end is
\* the one to restart it.
Interrupt(e) ==
    /\ e \in Restarters
    /\ restarts < MaxRestarts
    /\ restarts' = restarts + 1
    /\ jobs' = [jobs EXCEPT ![e]["restart"] = @ + 1]
    /\ UNCHANGED <<tracks, holder, kind, offered, pcVars, inbox, offers, hurried, lost, failures>>

\* Variant: no lock is taken, so a task starts while another one is at work.
TakeLockUnlocked(e, k) ==
    /\ holder[e] \in {"none", "after"}
    /\ jobs[e][k] > 0
    /\ jobs' = [jobs EXCEPT ![e][k] = @ - 1]
    /\ holder' = [holder EXCEPT ![e] = "created"]
    /\ kind' = [kind EXCEPT ![e] = k]
    /\ offered' = [offered EXCEPT ![e] = tracks[e]]
    /\ UNCHANGED <<tracks, pcVars, inbox, boundVars>>

\* A task gets the lock.
TakeLock(e, k) ==
    /\ holder[e] = "none"
    /\ jobs[e][k] > 0
    /\ jobs' = [jobs EXCEPT ![e][k] = @ - 1]
    /\ holder' = [holder EXCEPT ![e] = "before"]
    /\ kind' = [kind EXCEPT ![e] = k]
    /\ UNCHANGED <<tracks, offered, pcVars, inbox, boundVars>>

\* wait_until_signaling_stable returns.
Waited(e) ==
    \/ sig[e] = "stable" /\ UNCHANGED hurried
    \/ sig[e] # "stable" /\ hurried' = TRUE

\* A call of the library fails although the signaling state allows it.
Fails == failures < MaxFailures /\ failures' = failures + 1

\* The task has waited and creates its offer.  create_offer itself does not
\* depend on the signaling state.
CreateOffer(e) ==
    /\ holder[e] = "before"
    /\ Waited(e)
    /\ offered' = [offered EXCEPT ![e] = tracks[e]]
    /\ holder' = [holder EXCEPT ![e] = "created"]
    /\ UNCHANGED <<tracks, jobs, kind, pcVars, inbox, offers, lost, failures, restarts>>

\* create_offer fails: the task gives the lock back, nothing is offered.
OfferNotMade(e) ==
    /\ holder[e] = "before"
    /\ Waited(e)
    /\ Fails
    /\ holder' = [holder EXCEPT ![e] = "none"]
    /\ UNCHANGED <<tracks, jobs, kind, offered, pcVars, inbox, offers, lost, restarts>>

\* The created offer becomes the local description.
SetLocalOffer(e) ==
    /\ sig[e] \in {"stable", "local"}
    /\ sig' = [sig EXCEPT ![e] = "local"]
    /\ local' = [local EXCEPT ![e] = offered[e]]

\* set_local_description succeeds and the offer is sent.
SendOffer(e) ==
    /\ holder[e] = "created"
    /\ SetLocalOffer(e)
    /\ inbox' = [inbox EXCEPT ![Other(e)] = @ \cup
                    {[what |-> "offer", of |-> offered[e], nr |-> offers[e], kind |-> kind[e]]}]
    /\ offers' = [offers EXCEPT ![e] = @ + 1]
    /\ holder' = [holder EXCEPT ![e] = "after"]
    /\ UNCHANGED <<tracks, jobs, kind, offered, remote, agreed, hurried, lost, failures,
                   restarts>>

\* set_local_description fails: the desktop task returns, the restart task
\* waits as if it had sent its offer.
OfferRefused(e) ==
    /\ holder[e] = "created"
    /\ \/ sig[e] # "stable" /\ UNCHANGED <<sig, local, failures>>
       \/ Fails /\ UNCHANGED <<sig, local>>
       \/ Fails /\ SetLocalOffer(e)
    /\ holder' = [holder EXCEPT ![e] = IF kind[e] = "desktop" THEN "none" ELSE "after"]
    /\ UNCHANGED <<tracks, jobs, kind, offered, remote, agreed, inbox, offers, hurried, lost,
                   restarts>>

\* The task has waited for its answer, or long enough, and gives the lock back.
GiveBack(e) ==
    /\ holder[e] = "after"
    /\ Waited(e)
    /\ holder' = [holder EXCEPT ![e] = "none"]
    /\ UNCHANGED <<tracks, jobs, kind, offered, pcVars, inbox, offers, lost, failures, restarts>>

\* Variant: an offer that meets an outstanding one of this end takes its place.
TakesOfferYields(e) == TRUE

\* set_remote_description of an offer is accepted: not while an offer of this
\* end is outstanding.
TakesOffer(e) == sig[e] \in {"stable", "remote"}

\* An offer becomes the remote description.
SetRemote(e, m) ==
    /\ TakesOffer(e)
    /\ sig' = [sig EXCEPT ![e] = "remote"]
    /\ remote' = [remote EXCEPT ![e] = m.of]

\* The handler of an offer sets it as the remote description.
SetRemoteOffer(e, m) ==
    /\ m \in inbox[e] /\ m.what = "offer"
    /\ SetRemote(e, m)
    /\ inbox' = [inbox EXCEPT ![e] = (@ \ {m}) \cup {[m EXCEPT !.what = "answering"]}]
    /\ UNCHANGED <<tracks, lockVars, local, agreed, boundVars>>

\* The handler could not decode or set the offer, and returns.
OfferFails(e, m) ==
    /\ m \in inbox[e] /\ m.what = "offer"
    /\ \/ sig[e] # "stable" /\ UNCHANGED <<sig, remote, failures>>
       \/ Fails /\ UNCHANGED <<sig, remote>>
       \/ Fails /\ SetRemote(e, m)
    /\ inbox' = [inbox EXCEPT ![e] = @ \ {m}]
    /\ UNCHANGED <<tracks, lockVars, local, agreed, offers, hurried, lost, restarts>>

\* The handler creates the answer to the offer that is set now, makes it the
\* local description, and sends it.
SendAnswer(e, m) ==
    /\ m \in inbox[e] /\ m.what = "answering"
    /\ sig[e] = "remote"
    /\ sig' = [sig EXCEPT ![e] = "stable"]
    /\ inbox' = [inbox EXCEPT ![e] = @ \ {m},
                    ![Other(e)] = @ \cup {[m EXCEPT !.what = "answer", !.of = remote[e]]}]
    /\ UNCHANGED <<tracks, lockVars, local, remote, agreed, boundVars>>

\* create_answer or set_local_description fails, since another handler has
\* answered already or for reasons of its own: the handler returns, no answer is
\* sent.
AnswerFails(e, m) ==
    /\ m \in inbox[e] /\ m.what = "answering"
    /\ \/ sig[e] # "remote" /\ UNCHANGED <<sig, failures>>
       \/ /\ sig[e] = "remote" /\ Fails
          /\ \E state \in {"remote", "stable"} : sig' = [sig EXCEPT ![e] = state]
    /\ inbox' = [inbox EXCEPT ![e] = @ \ {m}]
    /\ UNCHANGED <<tracks, lockVars, local, remote, agreed, offers, hurried, lost, restarts>>

\* Variant: an answer is only applied to the offer it was made for.
AnsweredMatching(e, m) ==
    /\ m \in inbox[e] /\ m.what = "answer"
    /\ inbox' = [inbox EXCEPT ![e] = @ \ {m}]
    /\ IF sig[e] = "local" /\ m.of = local[e]
       THEN /\ sig' = [sig EXCEPT ![e] = "stable"]
            /\ agreed' = [agreed EXCEPT ![e] = m.of]
       ELSE UNCHANGED <<sig, agreed>>
    /\ UNCHANGED <<tracks, lockVars, local, remote, boundVars>>

\* An answer arrives: it is applied if an offer is outstanding, whichever it is.
Answered(e, m) ==
    /\ m \in inbox[e] /\ m.what = "answer"
    /\ inbox' = [inbox EXCEPT ![e] = @ \ {m}]
    /\ IF sig[e] = "local"
       THEN /\ sig' = [sig EXCEPT ![e] = "stable"]
            /\ agreed' = [agreed EXCEPT ![e] = m.of]
       ELSE UNCHANGED <<sig, agreed>>
    /\ UNCHANGED <<tracks, lockVars, local, remote, boundVars>>

\* The handler could not decode or set the answer.
AnswerNotApplied(e, m) ==
    /\ m \in inbox[e] /\ m.what = "answer"
    /\ sig[e] = "local" /\ Fails
    /\ \E state \in {"local", "stable"} : sig' = [sig EXCEPT ![e] = state]
    /\ inbox' = [inbox EXCEPT ![e] = @ \ {m}]
    /\ UNCHANGED <<tracks, lockVars, local, remote, agreed, offers, hurried, lost, restarts>>

\* A message of the signaling path is lost: there is no route to the peer.
LoseSignal(e, m) ==
    /\ m \in inbox[e] /\ m.kind = "restart" /\ m.what # "answering"
    /\ inbox' = [inbox EXCEPT ![e] = @ \ {m}]
    /\ lost' = TRUE
    /\ UNCHANGED <<tracks, lockVars, pcVars, offers, hurried, failures, restarts>>

HandleSdp(e, m) ==
    SetRemoteOffer(e, m) \/ OfferFails(e, m) \/ SendAnswer(e, m) \/ AnswerFails(e, m)
        \/ Answered(e, m) \/ AnswerNotApplied(e, m)

SdpNext ==
    \E e \in Ends :
        \/ Change(e)
        \/ Interrupt(e)
        \/ \E k \in Kinds : TakeLock(e, k)
        \/ CreateOffer(e)
        \/ OfferNotMade(e)
        \/ SendOffer(e)
        \/ OfferRefused(e)
        \/ GiveBack(e)
        \/ \E m \in inbox[e] : HandleSdp(e, m)
        \/ \E m \in inbox[e] : LoseSignal(e, m)

SdpSpec == SdpInit /\ [][SdpNext]_sdpVars

\* Tasks run, messages arrive, and a wait ends with the stable state or at its
\* deadline.
SdpFairness ==
    \A e \in Ends :
        /\ \A k \in Kinds : WF_sdpVars(TakeLock(e, k))
        /\ WF_sdpVars(CreateOffer(e) \/ OfferNotMade(e))
        /\ WF_sdpVars(SendOffer(e) \/ OfferRefused(e))
        /\ WF_sdpVars(GiveBack(e))
        /\ WF_sdpVars(\E m \in inbox[e] : HandleSdp(e, m))

FairSdpSpec == SdpSpec /\ SdpFairness

-----------------------------------------------------------------------------
SdpMessages ==
    [what : {"offer", "answering", "answer"}, of : 0..MaxChanges, nr : Nat, kind : Kinds]

\* The types of the state; the version that is agreed on is one the end had.
SdpTypeOK ==
    /\ tracks \in [Ends -> 0..MaxChanges]
    /\ jobs \in [Ends -> [Kinds -> Nat]]
    /\ holder \in [Ends -> {"none", "before", "created", "after"}]
    /\ kind \in [Ends -> Kinds]
    /\ offered \in [Ends -> 0..MaxChanges]
    /\ sig \in [Ends -> {"stable", "local", "remote"}]
    /\ local \in [Ends -> 0..MaxChanges] /\ remote \in [Ends -> 0..MaxChanges]
    /\ \A e \in Ends : agreed[e] \in 0..tracks[e]
    /\ \A e \in Ends : inbox[e] \subseteq SdpMessages
    /\ offers \in [Ends -> Nat]
    /\ hurried \in BOOLEAN /\ lost \in BOOLEAN
    /\ failures \in 0..MaxFailures /\ restarts \in 0..MaxRestarts

\* Nothing is being negotiated any more.
Quiet ==
    \A e \in Ends : /\ holder[e] = "none" /\ inbox[e] = {}
                    /\ \A k \in Kinds : jobs[e][k] = 0

\* Only one end has had a reason to make offers.
OneOfferer ==
    \E e \in Ends : tracks[e] = 0 /\ (e \in Restarters => restarts = 0)

\* When all is quiet, only one end had reason to make offers, none of their
\* messages was lost and no call of the library failed by itself, both ends are
\* stable: timeouts, offers made while another one is outstanding and perhaps
\* refused, and answers that come late do not wedge the session.
SettlesStable ==
    (Quiet /\ OneOfferer /\ ~lost /\ failures = 0) => \A e \in Ends : sig[e] = "stable"

\* Offers of both ends have met, or an offer was lost with its answer: each end
\* that waits for an answer waits for one that nobody is going to send.
Wedged ==
    /\ \A e \in Ends : sig[e] = "local"
    /\ \A e \in Ends : \A m \in inbox[e] : m.what = "offer"

\* The code has no rollback: a session whose ends are wedged stays so, whatever
\* is offered later, and no track that is added is negotiated any more.
WedgedForever == [][Wedged => Wedged']_sdpVars

\* A change of an end's tracks is negotiated in the end, however many others
\* come before and after, unless both ends made offers, a message was lost, a
\* wait timed out or a call of the library failed: nothing repeats an offer.
ChangesNegotiated ==
    \A e \in Ends : tracks[e] # agreed[e] ~>
        (tracks[e] = agreed[e] \/ ~OneOfferer \/ lost \/ hurried \/ failures > 0)
=============================================================================
