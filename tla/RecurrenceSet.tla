--------------------------- MODULE RecurrenceSet ---------------------------
(***************************************************************************)
(* What recur.Occurrences promises, with nothing of how it gets there: one *)
(* request, one reply.  The recurrence set is the union of the rules'      *)
(* instances, less those of the excluded rules, less the overrides that    *)
(* exclude, plus the other overrides, cut to the half-open window on the   *)
(* recurrence id; the reply lists it in order of instants, each entry      *)
(* being the master stripped of its recurrence members, stamped with its   *)
(* id and patched.  The reply is an error exactly when some part the call  *)
(* needs cannot be used.                                                   *)
(***************************************************************************)
EXTENDS RecurringObject

CONSTANTS
  Series,    \* the masters a caller may pass
  Windows    \* the windows [from, until] a caller may ask for

VARIABLES
  request,  \* [series, window]
  reply     \* [status, occurrences]

Pending == [status |-> "pending", occurrences |-> <<>>]
Error   == [status |-> "error", occurrences |-> <<>>]

Init ==
  /\ request \in [series : Series, window : Windows]
  /\ reply = Pending

Answer ==
  LET s == request.series
      w == request.window
  IN  /\ reply = Pending
      /\ IF Answerable(s, w)
         THEN \E q \in Listings(Loc(s), RecurrenceIds(s, w)) :
                reply' = [status |-> "ok",
                          occurrences |-> [i \in DOMAIN q |-> Body(s, q[i])]]
         ELSE reply' = Error
      /\ UNCHANGED request

Next == Answer

Spec == Init /\ [][Next]_<<request, reply>>
=============================================================================
