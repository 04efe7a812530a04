----------------------------- MODULE GitHubWatch -----------------------------
(***************************************************************************)
(* The GitHub plugin's subscriptions.  A poll collects what is new by one  *)
(* request after another: the pages of the issue events, newest first, or  *)
(* the pages of the pull requests, last updated first, and between two     *)
(* pages the reviews of each pull request.  What it found is sorted and    *)
(* sent one event at a time, each acknowledged by the daemon before the    *)
(* next; the acknowledged position is where a reconnected stream starts.   *)
(* A sorted list is kept as the set of its entries: the next one sent is   *)
(* the first of those left, and an entry's place on the pages is the       *)
(* number of those before it.                                              *)
(*                                                                         *)
(* GitHub numbers issue events as they happen; a review has the number of  *)
(* its draft and the second of its submission.  The daemon's clock may run *)
(* ahead of GitHub's by as much as the overlap.  GitHub may give out an    *)
(* event that lacks required fields, and the daemon may refuse one for     *)
(* good, for a review when its Run has ended.                              *)
(***************************************************************************)
EXTENDS Naturals, FiniteSets

CONSTANTS Numbers,     \* numbers of events or reviews
          Pulls,       \* numbers of pull requests
          PageSize,    \* entries of a page
          MaxPages,    \* pages of a listing a poll reads
          Overlap,     \* activationOverlap
          MaxSeconds,  \* bound: the clock
          MaxReviews,  \* bound: numbers of reviews
          MaxMishaps   \* bound: failed requests, broken streams and restarts, events
                       \* that lack fields or are refused, and updates of pull
                       \* requests other than reviews

ASSUME WatchAssumption ==
    /\ Numbers \subseteq Nat \ {0} /\ Pulls \subseteq Nat
    /\ PageSize \in Nat \ {0} /\ MaxPages \in Nat \ {0} /\ Overlap \in Nat

VARIABLES source,   \* "issues" or "reviews"
          posted,   \* what happened on GitHub: number, second, pull request, and
                    \* whether it is good, malformed or refused
          listed,   \* the pull requests opened so far, each with its place
          second,   \* GitHub's clock
          poll,     \* the stream: control point and locals
          durable,  \* the daemon's: acknowledged position, receipts, activation
          due,      \* history: the reviews the last poll had to find
          mishaps

watchVars == <<source, posted, listed, second, poll, durable, due, mishaps>>

NoPosition == [second |-> 0, number |-> 0]
Off == [pc |-> "off", cursor |-> NoPosition, fence |-> 0, left |-> {}, page |-> 0, found |-> {},
        queue |-> {}]

WatchInit ==
    /\ source \in {"issues", "reviews"}
    /\ posted = {} /\ listed = [p \in {} |-> 0] /\ second = 1 /\ poll = Off /\ due = {}
    /\ durable = [cursor |-> NoPosition, receipts |-> {}, activated |-> 0]
    /\ mishaps = 0

Position(e) == [second |-> e.second, number |-> e.number]

\* The order of events, and what lies after a position: reviewCursorAfter, or
\* the number alone.
After(p, q) ==
    IF source = "issues" THEN p.number > q.number
    ELSE p.second > q.second \/ (p.second = q.second /\ p.number > q.number)

\* The filter of both listings; the fence holds only for a stream without a
\* position.
Wanted(e) == /\ After(Position(e), poll.cursor)
             /\ poll.fence # 0 => e.second + Overlap >= poll.fence

Malformed(events) == \E e \in events : e.how = "malformed"

-----------------------------------------------------------------------------
(* GitHub and the daemon.                                                  *)

Mishap == mishaps < MaxMishaps /\ mishaps' = mishaps + 1

\* A pull request that is opened or updated is the first of its listing.
ToFront(p) ==
    listed' = [q \in DOMAIN listed \cup {p} |->
                 IF q = p THEN 0
                 ELSE IF p \notin DOMAIN listed \/ listed[q] < listed[p] THEN listed[q] + 1
                 ELSE listed[q]]

\* It may have gone from a page still to come to one already read: the poll
\* under way no longer has to find its reviews.
NotDue(p) ==
    due' = IF poll.pc = "list" /\ p \notin poll.left
           THEN {e \in due : e.pull = p => e \in poll.found} ELSE due

Post(e) ==
    /\ e.second = second /\ \A f \in posted : f.number # e.number
    /\ IF e.how = "good" THEN UNCHANGED mishaps ELSE Mishap
    /\ posted' = posted \cup {e}
    /\ \/ /\ source = "issues" /\ \A f \in posted : f.number < e.number
          /\ e.pull = CHOOSE p \in Pulls : TRUE
          /\ UNCHANGED <<listed, due>>
       \/ /\ source = "reviews" /\ e.number <= MaxReviews
          /\ e.pull \in DOMAIN listed /\ ToFront(e.pull) /\ NotDue(e.pull)
    /\ UNCHANGED <<source, second, poll, durable>>

\* A pull request is opened, or updated by something else than a review.
TouchPull(p) ==
    /\ source = "reviews" /\ ToFront(p) /\ NotDue(p)
    /\ \/ p \in DOMAIN listed /\ Mishap
       \/ /\ p \notin DOMAIN listed /\ \A q \in Pulls : q < p => q \in DOMAIN listed
          /\ UNCHANGED mishaps
    /\ UNCHANGED <<source, posted, second, poll, durable>>

TickSecond ==
    /\ second < MaxSeconds /\ second' = second + 1
    /\ UNCHANGED <<source, posted, listed, poll, durable, due, mishaps>>

\* The trigger is activated once; the fence of an empty position is that time.
WatchStart ==
    /\ poll.pc = "off"
    /\ \E skew \in 0..Overlap :
          LET at == IF durable.activated = 0 THEN second + skew ELSE durable.activated IN
          /\ durable' = [durable EXCEPT !.activated = at]
          /\ poll' = [Off EXCEPT !.pc = "wait", !.cursor = durable.cursor,
                                 !.fence = IF durable.cursor = NoPosition THEN at ELSE 0]
    /\ UNCHANGED <<source, posted, listed, second, due, mishaps>>

-----------------------------------------------------------------------------
(* One poll.                                                               *)

BeginPoll ==
    /\ poll.pc = "wait"
    /\ poll' = [poll EXCEPT !.pc = "list", !.left = {}, !.page = 1, !.found = {}]
    /\ due' = {e \in posted : source = "reviews" /\ Wanted(e)}
    /\ UNCHANGED <<source, posted, listed, second, durable, mishaps>>

\* Reviews: one page of the pull requests as they are listed now; the poll is
\* beyond the last page it may read when there are more.
ReadPulls ==
    /\ poll.pc = "list" /\ source = "reviews" /\ poll.left = {} /\ poll.page \in 1..MaxPages
    /\ LET from == (poll.page - 1) * PageSize
           to == poll.page * PageSize
       IN  poll' = [poll EXCEPT
                      !.left = {p \in DOMAIN listed : from <= listed[p] /\ listed[p] < to},
                      !.page = IF to < Cardinality(DOMAIN listed) THEN @ + 1 ELSE 0]
    /\ UNCHANGED <<source, posted, listed, second, durable, due, mishaps>>

\* The reviews of a pull request of that page, by requests of its own; one
\* without its identity fields, wanted or not, ends the watch.
ReadReviews(p) ==
    /\ poll.pc = "list" /\ source = "reviews" /\ p \in poll.left
    /\ LET reviews == {e \in posted : e.pull = p} IN
       poll' = IF Malformed(reviews) THEN Off
               ELSE [poll EXCEPT !.left = @ \ {p}, !.found = @ \cup {e \in reviews : Wanted(e)}]
    /\ UNCHANGED <<source, posted, listed, second, durable, due, mishaps>>

\* ResourceExhausted: more pull requests than a poll may list.
PullsExhausted ==
    /\ poll.pc = "list" /\ source = "reviews" /\ poll.left = {} /\ poll.page > MaxPages
    /\ poll' = Off
    /\ UNCHANGED <<source, posted, listed, second, durable, due, mishaps>>

\* The place of an issue event on the pages: how many are newer.
Place(e) == Cardinality({f \in posted : f.number > e.number})

\* Mutant: only the newest page is read.
ReadNewestPage ==
    /\ poll.pc = "list" /\ source = "issues" /\ poll.page # 0
    /\ poll' = [poll EXCEPT !.page = 0,
                            !.found = {e \in posted : Place(e) < PageSize /\ Wanted(e)}]
    /\ UNCHANGED <<source, posted, listed, second, durable, due, mishaps>>

\* Issue events: one page of the list as it is now, up to the last one or to
\* the limit; a wanted one without its issue ends the watch.
ReadPage ==
    /\ poll.pc = "list" /\ source = "issues" /\ poll.page # 0
    /\ LET from == (poll.page - 1) * PageSize
           to == poll.page * PageSize
           new == {e \in posted : from <= Place(e) /\ Place(e) < to /\ Wanted(e)}
       IN  poll' = IF Malformed(new) THEN Off
                   ELSE [poll EXCEPT
                           !.found = @ \cup new,
                           !.page = IF to < Cardinality(posted) /\ @ < MaxPages THEN @ + 1 ELSE 0]
    /\ UNCHANGED <<source, posted, listed, second, durable, due, mishaps>>

SortFound ==
    /\ poll.pc = "list"
    /\ poll.page = 0 /\ poll.left = {}
    /\ poll' = [poll EXCEPT !.pc = "send", !.found = {}, !.queue = poll.found]
    /\ UNCHANGED <<source, posted, listed, second, durable, due, mishaps>>

First(e) == e \in poll.queue /\ \A f \in poll.queue \ {e} : After(Position(f), Position(e))

\* The daemon stores the position with the receipt.
Accept(e) ==
    /\ e.how # "refused"
    /\ durable' = [durable EXCEPT !.receipts = @ \cup {e}, !.cursor = Position(e)]

\* sendAndAwaitAck: the daemon accepts and acknowledges; the next event is
\* sent after that.
Deliver(e) ==
    /\ poll.pc = "send" /\ First(e) /\ Accept(e)
    /\ poll' = [poll EXCEPT !.queue = @ \ {e}, !.cursor = Position(e)]
    /\ UNCHANGED <<source, posted, listed, second, due, mishaps>>

\* The daemon refuses the event and ends the stream; so will the next one.
Refuse(e) ==
    /\ poll.pc = "send" /\ First(e) /\ e.how = "refused"
    /\ poll' = Off
    /\ UNCHANGED <<source, posted, listed, second, durable, due, mishaps>>

EndPoll ==
    /\ poll.pc = "send" /\ poll.queue = {}
    /\ poll' = [poll EXCEPT !.pc = "wait"]
    /\ UNCHANGED <<source, posted, listed, second, durable, due, mishaps>>

\* A failed request or a broken stream ends the watch; the durable position
\* is what remains.
WatchBreaks ==
    /\ poll.pc # "off" /\ Mishap
    /\ poll' = Off
    /\ UNCHANGED <<source, posted, listed, second, durable, due>>

\* ... also when the acknowledgement is lost after the event was accepted.
AckLost(e) ==
    /\ poll.pc = "send" /\ First(e) /\ Accept(e) /\ Mishap
    /\ poll' = Off
    /\ UNCHANGED <<source, posted, listed, second, due>>

PollStep ==
    \/ WatchStart \/ BeginPoll \/ ReadPage \/ ReadPulls \/ PullsExhausted \/ SortFound \/ EndPoll
    \/ \E e \in poll.queue : Deliver(e) \/ Refuse(e)
    \/ \E p \in Pulls : ReadReviews(p)

WatchNext ==
    \/ PollStep \/ TickSecond \/ WatchBreaks
    \/ \E e \in poll.queue : AckLost(e)
    \/ \E p \in Pulls : TouchPull(p)
    \/ \E n \in Numbers, p \in Pulls, how \in {"good", "malformed", "refused"} :
          Post([number |-> n, second |-> second, pull |-> p, how |-> how])

WatchSpec == WatchInit /\ [][WatchNext]_watchVars

-----------------------------------------------------------------------------
(* Properties.                                                             *)

\* An issue event is never passed over: once the durable position is beyond
\* it, it was accepted, although the list moves under the pages of a poll,
\* unless as many newer events happened as a poll reads.
ReadyEventIsNotLost ==
    source = "issues" =>
        \A e \in posted : (durable.activated # 0 /\ e.second >= durable.activated
                           /\ Place(e) < MaxPages * PageSize
                           /\ ~After(Position(e), durable.cursor)) => e \in durable.receipts

\* A review that was there when a poll began, beyond the position, is not
\* passed over by it either, although the listing of the pull requests moves
\* under its pages.  What may be passed over, when the poll sends a later
\* review, is one that is submitted during the poll, one whose pull request
\* is updated before the poll came to its page, and one that is not beyond the
\* position from the start, for it was submitted in the same second with a
\* smaller number.
DueReviewIsNotLost ==
    source = "reviews" =>
        \A e \in due : ~After(Position(e), durable.cursor) => e \in durable.receipts

\* What ends every poll before it decides e: a malformed event among those it
\* reads, more pull requests than it may list, or an event at or before e that
\* the daemon refuses (any one when e is beyond the pages of issue events).
Blocked(e) ==
    \/ \E f \in posted : f.how = "malformed"
                        /\ (source = "issues" => After(Position(f), durable.cursor))
    \/ Cardinality(DOMAIN listed) > MaxPages * PageSize
    \/ \E f \in posted : /\ f.how = "refused" /\ After(Position(f), durable.cursor)
                         /\ \/ ~After(Position(f), Position(e))
                            \/ source = "issues" /\ Place(e) >= MaxPages * PageSize

\* Whatever is posted is in the end accepted or passed over, once failures and
\* new events stop, unless something blocks it for good.
PostedIsDecided ==
    <>[](\A e \in posted : \/ e \in durable.receipts
                           \/ ~After(Position(e), durable.cursor)
                           \/ e.second < durable.activated
                           \/ Blocked(e))
=============================================================================
