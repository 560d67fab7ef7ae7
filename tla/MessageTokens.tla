--------------------------- MODULE MessageTokens ---------------------------
(***************************************************************************)
(* The array of messages of src/src/core/session.c and the prefix sums of  *)
(* their token estimates, by which a compaction decides how much to keep.  *)
(* The text is a sequence of calls: a message of some length is appended,  *)
(* one is appended whose text cannot be copied, or the session is cleared. *)
(***************************************************************************)
EXTENDS Texts

CONSTANT FirstCapacity  \* of the array that the first message is put in

ASSUME CapacityAssumption == FirstCapacity \in Nat \ {0}

Lengths == [empty |-> 0, short |-> 1, long |-> 9]
Calls == {"oom", "clear"} \cup DOMAIN Lengths
Unset == 99  \* what malloc leaves

\* psi_estimate_tokens, psi_calibrate_tokens: four bytes a token, and 10.5 %.
EstimateTokens(length) == (length + 3) \div 4
CalibrateTokens(n) == (221 * n + 199) \div 200

\* psi_session_clear_messages.
Cleared == [estimates |-> <<>>, prefix |-> <<>>, capacity |-> 0]

\* Mutant: the copy of the sums is as long as that of the messages.
Enlarged_Short(s) ==
  IF Len(s.estimates) < s.capacity THEN s
  ELSE LET capacity == IF s.capacity = 0 THEN FirstCapacity ELSE 2 * s.capacity
           known == IF s.estimates = <<>> THEN <<0>> ELSE SubSeq(s.prefix, 1, Len(s.estimates))
       IN [s EXCEPT !.capacity = capacity,
                    !.prefix = known \o [i \in 1 .. capacity + 1 - Len(known) |-> Unset]]

\* The arrays are full and are moved to larger ones.
Enlarged(s) ==
  IF Len(s.estimates) < s.capacity THEN s
  ELSE LET capacity == IF s.capacity = 0 THEN FirstCapacity ELSE 2 * s.capacity
           known == IF s.estimates = <<>> THEN <<0>> ELSE SubSeq(s.prefix, 1, Len(s.estimates) + 1)
       IN [s EXCEPT !.capacity = capacity,
                    !.prefix = known \o [i \in 1 .. capacity + 1 - Len(known) |-> Unset]]

\* psi_session_append_with_data_and_estimate.
Pushed(s, estimate) ==
  LET g == Enlarged(s)
      n == Len(g.estimates)
  IN [g EXCEPT !.estimates = Append(@, estimate),
               !.prefix = [@ EXCEPT ![n + 2] = g.prefix[n + 1] + estimate]]

\* lfn_session_append without an estimate of its own, lfn_session_clear.
Called(s, call) ==
  CASE call = "clear" -> Cleared
    [] call = "oom" -> Enlarged(s)
    [] OTHER -> Pushed(s, CalibrateTokens(EstimateTokens(Lengths[call])))

\* psi_session_token_estimate_from: the messages from the start-th on.
TokenEstimateFrom(s, start) ==
  LET n == Len(s.estimates) IN
    IF n = 0 \/ start > n THEN 0 ELSE s.prefix[n + 1] - s.prefix[Larger(1, start)]

\* Mutant: the messages that just fit are one too many.
Narrowed_Strict(s, threshold, range) ==
  LET mid == range.lo + (range.hi - range.lo) \div 2 IN
    IF range.lo >= range.hi THEN range
    ELSE IF s.prefix[mid + 1] <= threshold THEN [range EXCEPT !.lo = mid + 1]
    ELSE [range EXCEPT !.hi = mid]

\* A pass of the binary search of psi_session_keep_recent_by_tokens.
Narrowed(s, threshold, range) ==
  LET mid == range.lo + (range.hi - range.lo) \div 2 IN
    IF range.lo >= range.hi THEN range
    ELSE IF s.prefix[mid + 1] < threshold THEN [range EXCEPT !.lo = mid + 1]
    ELSE [range EXCEPT !.hi = mid]

\* Its loop: every pass shortens the range, so that it ends within n passes.
Search(s, threshold) ==
  LET n == Len(s.estimates)
      after[k \in 0 .. n] ==
        IF k = 0 THEN [lo |-> 0, hi |-> n] ELSE Narrowed(s, threshold, after[k - 1])
  IN  after[n].lo

KeepRecentByTokens(s, target) ==
  LET n == Len(s.estimates)
      total == s.prefix[n + 1]
      start == Smaller(n, Search(s, total - target) + 1)
  IN IF n = 0 THEN 0 ELSE IF target >= total THEN n ELSE n - start + 1

\* lfn_session_keep_recent_by_tokens.
KeepRecent(s, asked) == KeepRecentByTokens(s, Larger(0, asked))

-----------------------------------------------------------------------------
(* Properties.                                                             *)

\* The session after some calls.
SessionOf(calls) ==
  LET after[n \in 0 .. Len(calls)] ==
        IF n = 0 THEN Cleared ELSE Called(after[n - 1], calls[n])
  IN  after[Len(calls)]

Added(estimates) ==
  LET sum[k \in 0 .. Len(estimates)] == IF k = 0 THEN 0 ELSE sum[k - 1] + estimates[k]
  IN  sum[Len(estimates)]

\* Through any appends, failed appends, growth and clearing, the tokens from a
\* message on are those of the messages; and as many of the last messages are
\* kept as fit the target, and one at least.
TokensAdd ==
  Over(Calls) =>
    LET s == SessionOf(text)
        n == Len(s.estimates)
        rest(k) == Added(SubSeq(s.estimates, k, n))
    IN /\ n <= s.capacity
       /\ \A start \in 0 .. n + 1 : TokenEstimateFrom(s, start) = rest(Larger(1, start))
       /\ \A asked \in -1 .. rest(1) + 1 :
            LET fit == {k \in 0 .. n : rest(n - k + 1) <= Larger(0, asked)}
            IN KeepRecent(s, asked) = Smaller(n, Larger(1, Largest(fit)))
=============================================================================
