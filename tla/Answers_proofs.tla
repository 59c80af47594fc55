--------------------------- MODULE Answers_proofs ---------------------------
(***************************************************************************)
(* What the dispatcher learns and what requests are answered.  The         *)
(* supervision of the forge watchers (ForgeWatch), for any number of       *)
(* trackers and issues, any limits and any sequence of failures,           *)
(* cancellations, timers and changes: type correctness, and one watcher    *)
(* for each tracker.  The parts of Answers, for any histories, lists,      *)
(* files, diffs, logs, issues and limits: the summaries of the logs, the   *)
(* rounds of the GitHub client, the figures of the host and the excerpts.  *)
(***************************************************************************)
EXTENDS ForgeWatch, Answers, FiniteSetTheorems, SequenceTheorems, WellFoundedInduction,
        TLAPS

(***************************************************************************)
(* ForgeWatch.                                                             *)
(***************************************************************************)

\* How Watch goroutines end.
Ending == [repo : Repos, cause : {"cancelled", "failed"}]

\* The goroutine of a tracker.
Watched(r) == IF watch[r] = "none" THEN 0 ELSE 1

\* Run goes on as long as no watcher has failed too often.
FailureInv == ~exited => \A r \in Repos : failures[r] < MaxWatcherFailures

IInv == TypeOK /\ OneWatcherEach /\ FailureInv

(***************************************************************************)
(* Counting in the channels, as sequences.                                 *)
(***************************************************************************)

\* The places of a sequence where something holds can be counted.
LEMMA PlacesCounted ==
    ASSUME NEW n \in Nat, NEW A \in SUBSET (1..n)
    PROVE  IsFiniteSet(A) /\ Cardinality(A) \in Nat
<1>1. IsFiniteSet(1..n)
  <2>1. 1 \in Int /\ n \in Int
    OBVIOUS
  <2> QED
    BY <2>1, FS_Interval
<1>2. IsFiniteSet(A)
  BY <1>1, FS_Subset
<1> QED
  BY <1>2, FS_CardinalityType

\* One more place at the end.
LEMMA PlacesAppend ==
    ASSUME NEW n \in Nat, NEW A \in SUBSET (1..n), NEW B \in SUBSET (1..(n + 1)),
           \A k \in 1..n : k \in A <=> k \in B
    PROVE  Cardinality(B) = Cardinality(A) + (IF n + 1 \in B THEN 1 ELSE 0)
<1>1. /\ IsFiniteSet(A) /\ Cardinality(A) \in Nat
      /\ \A k \in A : k \in 1..n
      /\ \A k \in B : k \in 1..n \/ k = n + 1
      /\ n + 1 \notin 1..n
  <2>1. IsFiniteSet(A) /\ Cardinality(A) \in Nat
    BY PlacesCounted
  <2>2. \A k \in 1..(n + 1) : k \in 1..n \/ k = n + 1
    OBVIOUS
  <2>3. n + 1 \notin 1..n
    OBVIOUS
  <2> QED
    BY <2>1, <2>2, <2>3
<1>2. CASE n + 1 \in B
  <2>1. \A k : k \in B <=> k \in A \cup {n + 1}
    BY <1>1, <1>2
  <2>2. B = A \cup {n + 1} /\ n + 1 \notin A
    BY <1>1, <2>1
  <2> QED
    BY <1>1, <1>2, <2>2, FS_AddElement
<1>3. CASE n + 1 \notin B
  <2>1. \A k : k \in B <=> k \in A
    BY <1>1, <1>3
  <2>2. B = A
    BY <2>1
  <2> QED
    BY <1>1, <1>3, <2>2
<1> QED
  BY <1>2, <1>3

\* One place less at the beginning: the others move up.
LEMMA PlacesTail ==
    ASSUME NEW n \in Nat, NEW A \in SUBSET (1..n), NEW B \in SUBSET (1..(n + 1)),
           \A k \in 1..n : k \in A <=> k + 1 \in B
    PROVE  Cardinality(B) = Cardinality(A) + (IF 1 \in B THEN 1 ELSE 0)
<1> DEFINE Rest == B \ {1}
           shift == [k \in A |-> k + 1]
<1>1. IsFiniteSet(A) /\ Cardinality(A) \in Nat /\ IsFiniteSet(B) /\ Cardinality(B) \in Nat
  BY PlacesCounted
<1>2. shift \in Bijection(A, Rest)
  <2>1. shift \in [A -> Rest]
    OBVIOUS
  <2>2. \A j, k \in A : shift[j] = shift[k] => j = k
    OBVIOUS
  <2>3. ASSUME NEW m \in Rest PROVE \E k \in A : shift[k] = m
    <3>1. m - 1 \in 1..n /\ (m - 1) + 1 = m
      BY <2>3
    <3>2. m - 1 \in A
      BY <3>1
    <3> QED
      BY <3>1, <3>2
  <2> QED
    BY <2>1, <2>2, <2>3 DEF Bijection, Injection, Surjection, IsInjective
<1>3. Cardinality(Rest) = Cardinality(A)
  BY <1>1, <1>2, FS_Bijection DEF ExistsBijection
<1>4. Cardinality(Rest) = IF 1 \in B THEN Cardinality(B) - 1 ELSE Cardinality(B)
  BY <1>1, FS_RemoveElement
<1> QED
  BY <1>1, <1>3, <1>4

\* Counting the trackers whose backoff is over.
LEMMA CountMoves ==
    ASSUME NEW s \in Seq(Repos), NEW x \in Repos
    PROVE  /\ Count(s, x) \in Nat
           /\ \A r \in Repos : Count(Append(s, r), x) = Count(s, x) + (IF r = x THEN 1 ELSE 0)
           /\ s # <<>> => Count(s, x) = Count(Tail(s), x) + (IF Head(s) = x THEN 1 ELSE 0)
<1> DEFINE A == {n \in 1..Len(s) : s[n] = x}
<1>1. Count(s, x) \in Nat
  <2>1. A \in SUBSET (1..Len(s)) /\ Len(s) \in Nat
    OBVIOUS
  <2> HIDE DEF A
  <2>2. Cardinality(A) \in Nat
    BY <2>1, PlacesCounted
  <2> QED
    BY <2>2 DEF Count, A
<1>2. ASSUME NEW r \in Repos
      PROVE  Count(Append(s, r), x) = Count(s, x) + (IF r = x THEN 1 ELSE 0)
  <2> DEFINE B == {n \in 1..Len(Append(s, r)) : Append(s, r)[n] = x}
  <2>1. /\ Len(Append(s, r)) = Len(s) + 1 /\ Append(s, r)[Len(s) + 1] = r
        /\ \A n \in 1..Len(s) : Append(s, r)[n] = s[n]
    OBVIOUS
  <2>2. /\ B \in SUBSET (1..(Len(s) + 1)) /\ A \in SUBSET (1..Len(s))
        /\ \A n \in 1..Len(s) : n \in A <=> n \in B
        /\ Len(s) + 1 \in B <=> r = x
    BY <2>1
  <2> HIDE DEF A, B
  <2>3. Cardinality(B) = Cardinality(A) + (IF Len(s) + 1 \in B THEN 1 ELSE 0)
    BY <2>2, PlacesAppend
  <2> QED
    BY <2>2, <2>3 DEF Count, A, B
<1>3. ASSUME s # <<>>
      PROVE  Count(s, x) = Count(Tail(s), x) + (IF Head(s) = x THEN 1 ELSE 0)
  <2> DEFINE T == {n \in 1..Len(Tail(s)) : Tail(s)[n] = x}
             m == Len(s) - 1
  <2>1. /\ Len(Tail(s)) = m /\ m \in Nat /\ Len(s) = m + 1 /\ Head(s) = s[1]
        /\ \A n \in 1..m : Tail(s)[n] = s[n + 1]
    BY <1>3
  <2>2. /\ A \in SUBSET (1..(m + 1)) /\ T \in SUBSET (1..m)
        /\ \A n \in 1..m : n \in T <=> n + 1 \in A
        /\ 1 \in A <=> Head(s) = x
    BY <2>1
  <2> HIDE DEF A, T, m
  <2>3. Cardinality(A) = Cardinality(T) + (IF 1 \in A THEN 1 ELSE 0)
    BY <2>1, <2>2, PlacesTail
  <2> QED
    BY <2>2, <2>3 DEF Count, A, T
<1> QED
  BY <1>1, <1>2, <1>3

\* How many Watch goroutines of a tracker have ended, in a sequence of endings.
EndedIn(s, r) == Cardinality({n \in 1..Len(s) : s[n].repo = r})

\* Counting them.
LEMMA EndedMoves ==
    ASSUME NEW s \in Seq(Ending), NEW x \in Repos
    PROVE  /\ EndedIn(s, x) \in Nat
           /\ \A e \in Ending :
                EndedIn(Append(s, e), x) = EndedIn(s, x) + (IF e.repo = x THEN 1 ELSE 0)
           /\ s # <<>> => EndedIn(s, x) = EndedIn(Tail(s), x)
                                            + (IF Head(s).repo = x THEN 1 ELSE 0)
<1> DEFINE A == {n \in 1..Len(s) : s[n].repo = x}
<1>1. EndedIn(s, x) \in Nat
  <2>1. A \in SUBSET (1..Len(s)) /\ Len(s) \in Nat
    OBVIOUS
  <2> HIDE DEF A
  <2>2. Cardinality(A) \in Nat
    BY <2>1, PlacesCounted
  <2> QED
    BY <2>2 DEF EndedIn, A
<1>2. ASSUME NEW e \in Ending
      PROVE  EndedIn(Append(s, e), x) = EndedIn(s, x) + (IF e.repo = x THEN 1 ELSE 0)
  <2> DEFINE B == {n \in 1..Len(Append(s, e)) : Append(s, e)[n].repo = x}
  <2>1. /\ Len(Append(s, e)) = Len(s) + 1 /\ Append(s, e)[Len(s) + 1] = e
        /\ \A n \in 1..Len(s) : Append(s, e)[n] = s[n]
    OBVIOUS
  <2>2. /\ B \in SUBSET (1..(Len(s) + 1)) /\ A \in SUBSET (1..Len(s))
        /\ \A n \in 1..Len(s) : n \in A <=> n \in B
        /\ Len(s) + 1 \in B <=> e.repo = x
    BY <2>1
  <2> HIDE DEF A, B
  <2>3. Cardinality(B) = Cardinality(A) + (IF Len(s) + 1 \in B THEN 1 ELSE 0)
    BY <2>2, PlacesAppend
  <2> QED
    BY <2>2, <2>3 DEF EndedIn, A, B
<1>3. ASSUME s # <<>>
      PROVE  EndedIn(s, x) = EndedIn(Tail(s), x) + (IF Head(s).repo = x THEN 1 ELSE 0)
  <2> DEFINE T == {n \in 1..Len(Tail(s)) : Tail(s)[n].repo = x}
             m == Len(s) - 1
  <2>1. /\ Len(Tail(s)) = m /\ m \in Nat /\ Len(s) = m + 1 /\ Head(s) = s[1]
        /\ \A n \in 1..m : Tail(s)[n] = s[n + 1]
    BY <1>3
  <2>2. /\ A \in SUBSET (1..(m + 1)) /\ T \in SUBSET (1..m)
        /\ \A n \in 1..m : n \in T <=> n + 1 \in A
        /\ 1 \in A <=> Head(s).repo = x
    BY <2>1
  <2> HIDE DEF A, T, m
  <2>3. Cardinality(A) = Cardinality(T) + (IF 1 \in A THEN 1 ELSE 0)
    BY <2>1, <2>2, PlacesTail
  <2> QED
    BY <2>2, <2>3 DEF EndedIn, A, T
<1> QED
  BY <1>1, <1>2, <1>3

(***************************************************************************)
(* Type correctness, and the failure count while Run goes on.              *)
(***************************************************************************)

\* What an initial listing finds and a poll notices.
ToOffer(r) == {i \in Listed(r) : status[i] = "queued"}
NewIn(r) == {i \in Listed(r) : known[i] = "unknown"}

\* What a listing leaves behind on the forge and in the watcher's map.
LEMMA ListingTyped ==
    ASSUME TypeOK, NEW r \in Repos, Remember(r), NEW s \in SUBSET Issues,
           offered' = offered \cup s,
           \E routed \in SUBSET Issues :
             status' = [i \in Issues |-> IF i \in routed THEN "claimed" ELSE status[i]]
    PROVE  /\ known' \in [Issues -> OpenStatus \cup {"unknown"}]
           /\ status' \in [Issues -> Status] /\ offered' \subseteq Issues
<1>1. status \in [Issues -> Status] /\ known \in [Issues -> OpenStatus \cup {"unknown"}]
      /\ offered \subseteq Issues
  BY DEF TypeOK
<1>2. \A i \in Listed(r) : status[i] \in OpenStatus
  BY <1>1 DEF Listed, Of, Status
<1>3. known' \in [Issues -> OpenStatus \cup {"unknown"}]
  BY <1>1, <1>2 DEF Remember
<1>4. "claimed" \in Status
  BY DEF Status, OpenStatus
<1>5. status' \in [Issues -> Status]
  BY <1>1, <1>4
<1> QED
  BY <1>1, <1>3, <1>5

\* How a Watch goroutine ends.
LEMMA EndTyped ==
    ASSUME TypeOK, NEW r \in Repos, NEW cause \in {"cancelled", "failed"}, WatchEnds(r, cause)
    PROVE  /\ errCh' \in Seq(Ending) /\ watch' \in [Repos -> {"none", "loading", "polling"}]
           /\ errCh' = Append(errCh, [repo |-> r, cause |-> cause])
<1>1. [repo |-> r, cause |-> cause] \in Ending
  BY DEF Ending
<1>2. errCh \in Seq(Ending) /\ watch \in [Repos -> {"none", "loading", "polling"}]
  BY DEF TypeOK, Ending
<1> QED
  BY <1>1, <1>2 DEF WatchEnds

\* What Run takes from errCh.
LEMMA EndTaken ==
    ASSUME TypeOK, errCh # <<>>
    PROVE  Head(errCh) \in Ending /\ Head(errCh).repo \in Repos /\ Tail(errCh) \in Seq(Ending)
<1>1. errCh \in Seq(Ending)
  BY DEF TypeOK, Ending
<1>2. Head(errCh) \in Ending /\ Tail(errCh) \in Seq(Ending)
  BY <1>1
<1> QED
  BY <1>2 DEF Ending

\* Every step keeps the types and the failure count.
LEMMA TypeStep == TypeOK /\ FailureInv /\ [Next]_vars => TypeOK' /\ FailureInv'
<1> SUFFICES ASSUME TypeOK, FailureInv, [Next]_vars
             PROVE  TypeOK' /\ FailureInv'
  OBVIOUS
<1> USE DEF env, watcher, channel, restart, silence
<1>1. ASSUME NEW i \in Issues, Change(i) PROVE TypeOK' /\ FailureInv'
  <2>1. changes' \in 0..MaxChanges
    BY <1>1, WatchAssumption DEF Change, TypeOK
  <2>2. status' \in [Issues -> Status] /\ offered' \subseteq Issues
    BY <1>1 DEF Change, TypeOK
  <2> QED
    BY <1>1, <2>1, <2>2 DEF Change, TypeOK, FailureInv
<1>2. ASSUME NEW i \in Issues, Relabel(i) PROVE TypeOK' /\ FailureInv'
  <2>1. "claimed" \in Status /\ "labelled" \in Status
    BY DEF Status, OpenStatus
  <2>2. changes' \in 0..MaxChanges
    BY <1>2, WatchAssumption DEF Relabel, TypeOK
  <2>3. status' \in [Issues -> Status]
    BY <1>2, <2>1 DEF Relabel, TypeOK
  <2> QED
    BY <1>2, <2>2, <2>3 DEF Relabel, TypeOK, FailureInv
<1>3. ASSUME NEW r \in Repos, Load(r) PROVE TypeOK' /\ FailureInv'
  <2>1. ToOffer(r) \in SUBSET Issues
    BY DEF ToOffer, Listed, Of
  <2>2. /\ Remember(r) /\ offered' = offered \cup ToOffer(r)
        /\ \E routed \in SUBSET Issues :
             status' = [i \in Issues |-> IF i \in routed THEN "claimed" ELSE status[i]]
    BY <1>3, <2>1 DEF Load, Opened, ToOffer
  <2>3. /\ known' \in [Issues -> OpenStatus \cup {"unknown"}]
        /\ status' \in [Issues -> Status] /\ offered' \subseteq Issues
    BY <2>1, <2>2, ListingTyped
  <2>4. silent' \in BOOLEAN
    BY <1>3 DEF Load, SignOfLife
  <2>5. watch' \in [Repos -> {"none", "loading", "polling"}]
    BY <1>3 DEF Load, TypeOK
  <2> QED
    BY <1>3, <2>3, <2>4, <2>5 DEF Load, TypeOK, FailureInv
<1>4. ASSUME NEW r \in Repos, Poll(r) PROVE TypeOK' /\ FailureInv'
  <2>1. NewIn(r) \in SUBSET Issues
    BY DEF NewIn, Listed, Of
  <2>2. /\ Remember(r) /\ offered' = offered \cup NewIn(r)
        /\ \E routed \in SUBSET Issues :
             status' = [i \in Issues |-> IF i \in routed THEN "claimed" ELSE status[i]]
    BY <1>4, <2>1 DEF Poll, NewIn
  <2>3. /\ known' \in [Issues -> OpenStatus \cup {"unknown"}]
        /\ status' \in [Issues -> Status] /\ offered' \subseteq Issues
    BY <2>1, <2>2, ListingTyped
  <2>4. silent' \in BOOLEAN
    BY <1>4 DEF Poll, SignOfLife
  <2> QED
    BY <1>4, <2>3, <2>4 DEF Poll, TypeOK, FailureInv
<1>5. ASSUME NEW r \in Repos, LoadFails(r) PROVE TypeOK' /\ FailureInv'
  <2>1. WatchEnds(r, "failed") /\ outages' \in 0..MaxOutages
    BY <1>5, WatchAssumption DEF LoadFails, TypeOK
  <2>2. errCh' \in Seq(Ending) /\ watch' \in [Repos -> {"none", "loading", "polling"}]
    BY <2>1, EndTyped
  <2> QED
    BY <2>1, <2>2 DEF WatchEnds, TypeOK, FailureInv, Ending
<1>6. ASSUME NEW r \in Repos, CancelSeen(r) PROVE TypeOK' /\ FailureInv'
  <2>1. WatchEnds(r, "cancelled") /\ outages' = outages
    BY <1>6 DEF CancelSeen
  <2>2. errCh' \in Seq(Ending) /\ watch' \in [Repos -> {"none", "loading", "polling"}]
    BY <2>1, EndTyped
  <2> QED
    BY <2>1, <2>2 DEF WatchEnds, TypeOK, FailureInv, Ending
<1>7. ASSUME NEW r \in Repos, TimerFires(r) PROVE TypeOK' /\ FailureInv'
  <2>1. timers' \in [Repos -> Nat] /\ restartCh' \in Seq(Repos)
    BY <1>7 DEF TimerFires, TypeOK
  <2> QED
    BY <1>7, <2>1 DEF TimerFires, TypeOK, FailureInv
<1>8. ASSUME NEW r \in Repos, Forget(r) PROVE TypeOK' /\ FailureInv'
  <2>1. failures' \in [Repos -> 0..MaxWatcherFailures] /\ FailureInv'
    BY <1>8, WatchAssumption DEF Forget, TypeOK, FailureInv
  <2> QED
    BY <1>8, <2>1 DEF Forget, TypeOK
<1>9. CASE HandleCancelled
  <2>1. Head(errCh).repo \in Repos /\ Tail(errCh) \in Seq(Ending)
    BY <1>9, EndTaken DEF HandleCancelled
  <2>2. /\ backoff' \in [Repos -> 0..MaxBackoff]
        /\ watch' \in [Repos -> {"none", "loading", "polling"}]
        /\ cancelled' \in [Repos -> BOOLEAN]
    <3> DEFINE r == Head(errCh).repo
    <3>1. r \in Repos /\ backoff' = [backoff EXCEPT ![r] = 0] /\ StartWatcher(r)
      BY <1>9, <2>1 DEF HandleCancelled
    <3> HIDE DEF r
    <3>2. backoff \in [Repos -> 0..MaxBackoff] /\ 0 \in 0..MaxBackoff
      BY WatchAssumption DEF TypeOK
    <3>3. backoff' \in [Repos -> 0..MaxBackoff]
      BY <3>1, <3>2
    <3> QED
      BY <3>1, <3>3 DEF StartWatcher, TypeOK
  <2>3. errCh' \in Seq([repo : Repos, cause : {"cancelled", "failed"}])
    BY <1>9, <2>1 DEF HandleCancelled, Ending
  <2>4. UNCHANGED <<env, known, timers, restartCh, failures, exited, silence, offered>>
    BY <1>9 DEF HandleCancelled
  <2> QED
    BY <2>2, <2>3, <2>4 DEF env, silence, TypeOK, FailureInv
<1>10. CASE HandleFailed
  <2> DEFINE r == Head(errCh).repo
  <2>1. r \in Repos /\ Tail(errCh) \in Seq(Ending)
    BY <1>10, EndTaken DEF HandleFailed
  <2>2. /\ ~exited /\ failures' = [failures EXCEPT ![r] = @ + 1] /\ errCh' = Tail(errCh)
        /\ \/ TooMany(r) /\ exited' = TRUE /\ timers' = timers /\ backoff' = backoff
           \/ /\ ~TooMany(r) /\ exited' = exited
              /\ timers' = [timers EXCEPT ![r] = @ + 1]
              /\ backoff' = [backoff EXCEPT ![r] = IF @ = MaxBackoff THEN @ ELSE @ + 1]
    BY <1>10 DEF HandleFailed
  <2> HIDE DEF r
  <2>3. timers' \in [Repos -> Nat] /\ backoff' \in [Repos -> 0..MaxBackoff] /\ exited' \in BOOLEAN
    <3>1. timers \in [Repos -> Nat] /\ backoff \in [Repos -> 0..MaxBackoff] /\ exited \in BOOLEAN
      BY DEF TypeOK
    <3>2. \A b \in 0..MaxBackoff : (IF b = MaxBackoff THEN b ELSE b + 1) \in 0..MaxBackoff
      BY WatchAssumption
    <3>3. timers[r] + 1 \in Nat
      BY <2>1, <3>1
    <3>4. timers' \in [Repos -> Nat]
      BY <2>2, <3>1, <3>3
    <3>5. backoff' \in [Repos -> 0..MaxBackoff]
      <4> DEFINE b == IF backoff[r] = MaxBackoff THEN backoff[r] ELSE backoff[r] + 1
      <4>1. backoff' = backoff \/ backoff' = [backoff EXCEPT ![r] = b]
        BY <2>2
      <4>2. b \in 0..MaxBackoff
        BY <2>1, <3>1, <3>2
      <4> HIDE DEF b
      <4> QED
        BY <3>1, <4>1, <4>2
    <3> QED
      BY <2>2, <3>1, <3>4, <3>5
  <2>4. failures' \in [Repos -> 0..MaxWatcherFailures] /\ FailureInv'
    <3>1. failures[r] < MaxWatcherFailures
      BY <2>1, <2>2 DEF FailureInv
    <3> QED
      <4>1. /\ failures \in [Repos -> 0..MaxWatcherFailures]
            /\ failures[r] + 1 \in 0..MaxWatcherFailures
        BY <2>1, <3>1, WatchAssumption DEF TypeOK
      <4>2. failures' = [failures EXCEPT ![r] = failures[r] + 1]
        BY <2>2
      <4>3. failures' \in [Repos -> 0..MaxWatcherFailures]
        BY <2>1, <4>1, <4>2
      <4>4. ~exited' => failures[r] + 1 < MaxWatcherFailures
        BY <2>2, <4>1, WatchAssumption DEF TooMany
      <4>5. ~exited' => \A q \in Repos : failures'[q] < MaxWatcherFailures
        BY <2>1, <2>2, <4>1, <4>2, <4>4 DEF FailureInv
      <4> QED
        BY <4>3, <4>5 DEF FailureInv
  <2> QED
    BY <1>10, <2>1, <2>2, <2>3, <2>4 DEF HandleFailed, TypeOK, Ending
<1>11. CASE HandleRestart
  <2>1. Head(restartCh) \in Repos /\ Tail(restartCh) \in Seq(Repos)
    BY <1>11 DEF HandleRestart, TypeOK
  <2>2. /\ watch' \in [Repos -> {"none", "loading", "polling"}]
        /\ cancelled' \in [Repos -> BOOLEAN]
    BY <1>11, <2>1 DEF HandleRestart, StartWatcher, TypeOK
  <2> QED
    BY <1>11, <2>1, <2>2 DEF HandleRestart, TypeOK, FailureInv
<1>12. CASE Tick
  <2>1. stalePeriods' \in 0..(MaxStalePeriods - 1)
    BY <1>12, WatchAssumption DEF Tick, TypeOK
  <2>2. silent' \in BOOLEAN /\ cancelled' \in [Repos -> BOOLEAN]
    BY <1>12 DEF Tick, TypeOK
  <2> QED
    BY <1>12, <2>1, <2>2 DEF Tick, TypeOK, FailureInv
<1>13. CASE Silence
  BY <1>13 DEF Silence, TypeOK, FailureInv
<1>14. CASE UNCHANGED vars
  BY <1>14 DEF vars, TypeOK, FailureInv
<1> QED
  BY <1>1, <1>2, <1>3, <1>4, <1>5, <1>6, <1>7, <1>8, <1>9, <1>10, <1>11, <1>12, <1>13, <1>14
     DEF Next, WatchStep, RunStep

(***************************************************************************)
(* One place for each tracker.                                             *)
(***************************************************************************)

\* Every step moves a tracker from one place to the next, and no other tracker.
LEMMA PlaceStep == IInv /\ [Next]_vars => OneWatcherEach'
<1> SUFFICES ASSUME IInv, [Next]_vars, NEW x \in Repos, ~exited'
             PROVE  Watched(x)' + EndedIn(errCh', x) + timers'[x] + Count(restartCh', x) = 1
  BY DEF OneWatcherEach, Watched, Ended, EndedIn, Count
<1> USE DEF env, watcher, channel, restart, silence
<1>1. ~exited
  BY DEF Next, Change, Relabel, WatchStep, Load, Poll, CancelSeen, LoadFails, WatchEnds,
         TimerFires, Forget, RunStep, HandleCancelled, HandleFailed, HandleRestart, Tick,
         Silence, vars
<1>2. Watched(x) + EndedIn(errCh, x) + timers[x] + Count(restartCh, x) = 1
  BY <1>1 DEF IInv, OneWatcherEach, Watched, Ended, EndedIn
<1>3. TypeOK /\ errCh \in Seq(Ending) /\ restartCh \in Seq(Repos) /\ timers \in [Repos -> Nat]
      /\ watch \in [Repos -> {"none", "loading", "polling"}]
  BY DEF IInv, TypeOK, Ending
<1>4. EndedIn(errCh, x) \in Nat /\ Count(restartCh, x) \in Nat /\ Watched(x) \in {0, 1}
  BY <1>3, EndedMoves, CountMoves DEF Watched
<1>5. ASSUME watch' = watch, errCh' = errCh, timers' = timers, restartCh' = restartCh
      PROVE  Watched(x)' + EndedIn(errCh', x) + timers'[x] + Count(restartCh', x) = 1
  BY <1>2, <1>5 DEF Watched
<1>6. ASSUME NEW r \in Repos, Load(r)
      PROVE  Watched(x)' + EndedIn(errCh', x) + timers'[x] + Count(restartCh', x) = 1
  <2>1. Watched(x)' = Watched(x) /\ errCh' = errCh /\ timers' = timers /\ restartCh' = restartCh
    BY <1>3, <1>6 DEF Load, Watched
  <2> QED
    BY <1>2, <2>1
<1>7. ASSUME NEW r \in Repos, NEW cause \in {"cancelled", "failed"}, watch[r] # "none",
             WatchEnds(r, cause)
      PROVE  Watched(x)' + EndedIn(errCh', x) + timers'[x] + Count(restartCh', x) = 1
  <2> DEFINE e == [repo |-> r, cause |-> cause]
  <2>1. e \in Ending /\ e.repo = r /\ errCh' = Append(errCh, e)
    BY <1>7 DEF WatchEnds, Ending
  <2> HIDE DEF e
  <2>2. EndedIn(errCh', x) = EndedIn(errCh, x) + (IF r = x THEN 1 ELSE 0)
    BY <1>3, <2>1, EndedMoves
  <2>3. Watched(x) = Watched(x)' + (IF r = x THEN 1 ELSE 0)
    BY <1>3, <1>7 DEF WatchEnds, Watched
  <2>4. timers' = timers /\ restartCh' = restartCh /\ Watched(x)' \in {0, 1}
    BY <1>7 DEF WatchEnds, Watched
  <2> QED
    BY <1>2, <1>3, <1>4, <2>2, <2>3, <2>4
<1>8. ASSUME NEW r \in Repos, TimerFires(r)
      PROVE  Watched(x)' + EndedIn(errCh', x) + timers'[x] + Count(restartCh', x) = 1
  <2>1. Count(restartCh', x) = Count(restartCh, x) + (IF r = x THEN 1 ELSE 0)
    BY <1>3, <1>8, CountMoves DEF TimerFires
  <2>2. timers[x] = timers'[x] + (IF r = x THEN 1 ELSE 0) /\ timers'[x] \in Nat
    BY <1>3, <1>8 DEF TimerFires
  <2>3. Watched(x)' = Watched(x) /\ errCh' = errCh
    BY <1>8 DEF TimerFires, Watched
  <2> QED
    BY <1>2, <1>4, <2>1, <2>2, <2>3
<1>9. CASE HandleCancelled
  <2> DEFINE r == Head(errCh).repo
  <2>1. r \in Repos /\ errCh # <<>> /\ errCh' = Tail(errCh) /\ StartWatcher(r)
        /\ timers' = timers /\ restartCh' = restartCh
    BY <1>3, <1>9, EndTaken DEF HandleCancelled
  <2>2. EndedIn(errCh, x) = EndedIn(errCh', x) + (IF r = x THEN 1 ELSE 0)
    BY <1>3, <2>1, EndedMoves
  <2>3. EndedIn(errCh', x) \in Nat
    <3>1. errCh' \in Seq(Ending)
      BY <1>3, <2>1
    <3> QED
      BY <3>1, EndedMoves
  <2> HIDE DEF r
  <2>4. CASE r = x
    <3>1. Watched(x)' = 1
      BY <1>3, <2>1, <2>4 DEF StartWatcher, Watched
    <3>2. timers[x] \in Nat
      BY <1>3
    <3>3. Watched(x) = 0
      BY <1>2, <1>4, <2>2, <2>3, <2>4, <3>2
    <3> QED
      BY <1>2, <1>4, <2>1, <2>2, <2>3, <2>4, <3>1, <3>2, <3>3
  <2>5. CASE r # x
    <3>1. Watched(x)' = Watched(x)
      BY <1>3, <2>1, <2>5 DEF StartWatcher, Watched
    <3> QED
      BY <1>2, <1>3, <1>4, <2>1, <2>2, <2>3, <2>5, <3>1
  <2> QED
    BY <2>4, <2>5
<1>10. CASE HandleFailed
  <2> DEFINE r == Head(errCh).repo
  <2>1. r \in Repos /\ errCh # <<>> /\ errCh' = Tail(errCh) /\ watch' = watch
        /\ timers' = [timers EXCEPT ![r] = @ + 1] /\ restartCh' = restartCh
    BY <1>3, <1>10, EndTaken DEF HandleFailed
  <2>2. EndedIn(errCh, x) = EndedIn(errCh', x) + (IF r = x THEN 1 ELSE 0)
    BY <1>3, <2>1, EndedMoves
  <2>3. EndedIn(errCh', x) \in Nat
    <3>1. errCh' \in Seq(Ending)
      BY <1>3, <2>1
    <3> QED
      BY <3>1, EndedMoves
  <2> HIDE DEF r
  <2>4. timers'[x] = timers[x] + (IF r = x THEN 1 ELSE 0)
    BY <1>3, <2>1
  <2>5. Watched(x)' = Watched(x)
    BY <2>1 DEF Watched
  <2> QED
    BY <1>2, <1>3, <1>4, <2>1, <2>2, <2>3, <2>4, <2>5
<1>11. CASE HandleRestart
  <2> DEFINE r == Head(restartCh)
  <2>1. r \in Repos /\ restartCh # <<>> /\ restartCh' = Tail(restartCh) /\ StartWatcher(r)
        /\ timers' = timers /\ errCh' = errCh
    BY <1>3, <1>11 DEF HandleRestart
  <2>2. Count(restartCh, x) = Count(restartCh', x) + (IF r = x THEN 1 ELSE 0)
    BY <1>3, <2>1, CountMoves
  <2>3. Count(restartCh', x) \in Nat
    <3>1. restartCh' \in Seq(Repos)
      BY <1>3, <2>1
    <3> QED
      BY <3>1, CountMoves
  <2> HIDE DEF r
  <2>4. CASE r = x
    <3>1. Watched(x)' = 1
      BY <1>3, <2>1, <2>4 DEF StartWatcher, Watched
    <3>2. timers[x] \in Nat
      BY <1>3
    <3>3. Watched(x) = 0
      BY <1>2, <1>4, <2>2, <2>3, <2>4, <3>2
    <3> QED
      BY <1>2, <1>4, <2>1, <2>2, <2>3, <2>4, <3>1, <3>2, <3>3
  <2>5. CASE r # x
    <3>1. Watched(x)' = Watched(x)
      BY <1>3, <2>1, <2>5 DEF StartWatcher, Watched
    <3> QED
      BY <1>2, <1>3, <1>4, <2>1, <2>2, <2>3, <2>5, <3>1
  <2> QED
    BY <2>4, <2>5
<1>12. ASSUME NEW r \in Repos, LoadFails(r) \/ CancelSeen(r)
       PROVE  Watched(x)' + EndedIn(errCh', x) + timers'[x] + Count(restartCh', x) = 1
  BY <1>7, <1>12 DEF LoadFails, CancelSeen
<1>13. ASSUME NEW r \in Repos, Poll(r) \/ Forget(r)
       PROVE  Watched(x)' + EndedIn(errCh', x) + timers'[x] + Count(restartCh', x) = 1
  BY <1>5, <1>13 DEF Poll, Forget
<1>14. CASE Tick \/ Silence \/ UNCHANGED vars \/ \E i \in Issues : Change(i) \/ Relabel(i)
  BY <1>5, <1>14 DEF Tick, Silence, vars, Change, Relabel
<1> QED
  BY <1>6, <1>8, <1>9, <1>10, <1>11, <1>12, <1>13, <1>14 DEF Next, WatchStep, RunStep

\* In the beginning every tracker's watcher is loading.
LEMMA InitIInv == Init => IInv
<1> SUFFICES ASSUME Init PROVE IInv
  OBVIOUS
<1>1. TypeOK
  <2>1. \A i \in Issues : status[i] \in Status
    BY DEF Init, Status, OpenStatus
  <2>2. status \in [Issues -> Status]
    BY <2>1 DEF Init
  <2>3. errCh \in Seq([repo : Repos, cause : {"cancelled", "failed"}]) /\ restartCh \in Seq(Repos)
    BY DEF Init
  <2>4. /\ changes \in 0..MaxChanges /\ outages \in 0..MaxOutages
        /\ stalePeriods \in 0..(MaxStalePeriods - 1)
        /\ 0 \in 0..MaxWatcherFailures /\ 0 \in 0..MaxBackoff
    BY WatchAssumption DEF Init
  <2>5. /\ failures \in [Repos -> 0..MaxWatcherFailures] /\ backoff \in [Repos -> 0..MaxBackoff]
        /\ timers \in [Repos -> Nat]
    BY <2>4 DEF Init
  <2> QED
    BY <2>2, <2>3, <2>4, <2>5 DEF Init, TypeOK
<1>2. OneWatcherEach
  <2> SUFFICES ASSUME NEW x \in Repos
               PROVE  Watched(x) + EndedIn(errCh, x) + timers[x] + Count(restartCh, x) = 1
    BY DEF OneWatcherEach, Watched, Ended, EndedIn
  <2>1. EndedIn(errCh, x) = 0
    <3>1. {n \in 1..Len(errCh) : errCh[n].repo = x} = {}
      BY DEF Init
    <3> QED
      BY <3>1, FS_EmptySet DEF EndedIn
  <2>2. Count(restartCh, x) = 0
    <3>1. {n \in 1..Len(restartCh) : restartCh[n] = x} = {}
      BY DEF Init
    <3> QED
      BY <3>1, FS_EmptySet DEF Count
  <2> QED
    BY <2>1, <2>2 DEF Init, Watched
<1>3. FailureInv
  BY WatchAssumption DEF Init, FailureInv
<1> QED
  BY <1>1, <1>2, <1>3 DEF IInv

\* The inductive invariant holds of every reachable state.
THEOREM Inductive == Spec => []IInv
<1>1. IInv /\ [Next]_vars => IInv'
  BY TypeStep, PlaceStep DEF IInv
<1> QED
  BY <1>1, InitIInv, PTL DEF Spec

(***************************************************************************)
(* Every variable of the watchers and their supervision keeps its type.    *)
(***************************************************************************)
THEOREM TypeCorrect == Spec => []TypeOK
<1>1. IInv => TypeOK
  BY DEF IInv
<1> QED
  BY <1>1, Inductive, PTL

(***************************************************************************)
(* Dispatcher.Run: as long as it goes on, every tracker has one Watch      *)
(* goroutine, or one report of its end, or one backoff timer, or one       *)
(* restart that waits, and only one of these.                              *)
(***************************************************************************)
THEOREM WatchedOnce == Spec => []OneWatcherEach
<1>1. IInv => OneWatcherEach
  BY DEF IInv
<1> QED
  BY <1>1, Inductive, PTL


\* A set of numbers has a least member.
LEMMA LeastMember ==
    ASSUME NEW S \in SUBSET Nat, S # {}
    PROVE  \E n \in S : \A k \in S : n <= k
<1>1. PICK n \in S : \A k \in S : <<k, n>> \notin OpToRel(<, Nat)
  BY NatLessThanWellFounded, WFMin
<1>2. \A k \in S : ~(k < n)
  BY <1>1 DEF OpToRel
<1> QED
  BY <1>2

(***************************************************************************)
(* Places in a strict order of a finite set: how many come before.  The    *)
(* order is given as the set of its pairs.                                 *)
(***************************************************************************)
Orders(R, S) ==
    /\ \A x \in S : <<x, x>> \notin R
    /\ \A x, y \in S : x = y \/ <<x, y>> \in R \/ <<y, x>> \in R
    /\ \A x, y, z \in S : <<x, y>> \in R /\ <<y, z>> \in R => <<x, z>> \in R

Before(R, S, x) == {y \in S : <<y, x>> \in R}
Place(R, S) == [x \in S |-> Cardinality(Before(R, S, x))]

\* What comes earlier has the smaller place.
LEMMA PlaceGrows ==
    ASSUME NEW S, NEW R, IsFiniteSet(S), Orders(R, S)
    PROVE  /\ Cardinality(S) \in Nat
           /\ \A x \in S : Place(R, S)[x] \in 0..(Cardinality(S) - 1)
           /\ \A x, y \in S : <<x, y>> \in R <=> Place(R, S)[x] < Place(R, S)[y]
<1>1. \A x \in S : Before(R, S, x) \subseteq S \ {x}
  BY DEF Orders, Before
<1>2. \A x \in S : IsFiniteSet(Before(R, S, x)) /\ IsFiniteSet(S \ {x})
  BY <1>1, FS_Subset
<1>3. \A x \in S : Place(R, S)[x] \in Nat /\ Place(R, S)[x] = Cardinality(Before(R, S, x))
  BY <1>2, FS_CardinalityType DEF Place
<1>4. Cardinality(S) \in Nat
  BY FS_CardinalityType
<1>5. ASSUME NEW x \in S PROVE Place(R, S)[x] \in 0..(Cardinality(S) - 1)
  <2>1. Cardinality(Before(R, S, x)) <= Cardinality(S \ {x})
    BY <1>1, <1>2, FS_Subset
  <2>2. Cardinality(S \ {x}) = Cardinality(S) - 1
    BY FS_RemoveElement
  <2> QED
    BY <1>3, <1>4, <2>1, <2>2
<1>6. ASSUME NEW x \in S, NEW y \in S, <<x, y>> \in R
      PROVE  Place(R, S)[x] < Place(R, S)[y]
  <2>1. Before(R, S, x) \cup {x} \subseteq Before(R, S, y) /\ x \notin Before(R, S, x)
    BY <1>6 DEF Orders, Before
  <2>2. Cardinality(Before(R, S, x) \cup {x}) = Cardinality(Before(R, S, x)) + 1
    BY <1>2, <2>1, FS_AddElement
  <2>3. Cardinality(Before(R, S, x) \cup {x}) <= Cardinality(Before(R, S, y))
    BY <1>2, <2>1, FS_Subset
  <2> QED
    BY <1>3, <2>2, <2>3
<1>7. ASSUME NEW x \in S, NEW y \in S, <<x, y>> \notin R
      PROVE  ~(Place(R, S)[x] < Place(R, S)[y])
  <2>1. CASE x = y
    BY <1>3, <2>1
  <2>2. CASE x # y
    <3>1. Place(R, S)[y] < Place(R, S)[x]
      BY <1>6, <1>7, <2>2 DEF Orders
    <3> QED
      BY <1>3, <3>1
  <2> QED
    BY <2>1, <2>2
<1> QED
  BY <1>4, <1>5, <1>6, <1>7

\* Every place is taken once.
LEMMA PlacesTaken ==
    ASSUME NEW S, NEW R, IsFiniteSet(S), Orders(R, S)
    PROVE  /\ \A x, y \in S : Place(R, S)[x] = Place(R, S)[y] => x = y
           /\ \A k \in 0..(Cardinality(S) - 1) : \E x \in S : Place(R, S)[x] = k
<1> DEFINE place == Place(R, S)
           n == Cardinality(S)
<1>1. n \in Nat /\ \A x \in S : place[x] \in 0..(n - 1)
  BY PlaceGrows
<1>2. \A x, y \in S : place[x] = place[y] => x = y
  <2> SUFFICES ASSUME NEW x \in S, NEW y \in S, place[x] = place[y]
               PROVE  x = y
    OBVIOUS
  <2>1. ~(place[x] < place[y]) /\ ~(place[y] < place[x])
    BY <1>1
  <2> QED
    BY <2>1, PlaceGrows DEF Orders
<1>3. place = [x \in S |-> place[x]]
  BY DEF Place
<1> HIDE DEF place, n
<1>4. place \in [S -> 0..(n - 1)]
  BY <1>1, <1>3
<1>5. place \in Injection(S, 0..(n - 1))
  BY <1>2, <1>4 DEF Injection, IsInjective
<1>6. IsFiniteSet(0..(n - 1)) /\ Cardinality(0..(n - 1)) = n
  BY <1>1, FS_Interval
<1>7. place \in Surjection(S, 0..(n - 1))
  BY <1>5, <1>6, FS_Injection DEF n
<1>8. \A k \in 0..(n - 1) : \E x \in S : place[x] = k
  BY <1>7 DEF Surjection
<1> QED
  BY <1>2, <1>8 DEF place, n

\* As many as there are places have one of some places in a row.
LEMMA ListedPlaces ==
    ASSUME NEW S, NEW R, IsFiniteSet(S), Orders(R, S), NEW a \in Nat, NEW b \in Nat,
           a <= b, b <= Cardinality(S)
    PROVE  Cardinality({x \in S : a <= Place(R, S)[x] /\ Place(R, S)[x] < b}) = b - a
<1> DEFINE place == Place(R, S)
           n == Cardinality(S)
           some == {x \in S : a <= place[x] /\ place[x] < b}
           f == [x \in some |-> place[x]]
<1>1. n \in Nat /\ \A x \in S : place[x] \in 0..(n - 1)
  BY PlaceGrows
<1>2. \A x, y \in S : place[x] = place[y] => x = y
  BY PlacesTaken
<1>3. \A k \in 0..(n - 1) : \E x \in S : place[x] = k
  BY PlacesTaken
<1>4. a <= b /\ b <= n
  OBVIOUS
<1>9. IsFiniteSet(some)
  BY FS_Subset
<1> HIDE DEF place, n
<1>5. f \in [some -> a..(b - 1)]
  BY <1>1
<1>6. \A x, y \in some : f[x] = f[y] => x = y
  BY <1>2
<1>7. \A k \in a..(b - 1) : \E x \in some : f[x] = k
  BY <1>1, <1>3, <1>4
<1> HIDE DEF f, some
<1>8. f \in Bijection(some, a..(b - 1))
  BY <1>5, <1>6, <1>7 DEF Bijection, Injection, Surjection, IsInjective
<1>10. Cardinality(a..(b - 1)) = Cardinality(some)
  BY <1>8, <1>9, FS_Bijection DEF ExistsBijection
<1>11. Cardinality(a..(b - 1)) = b - a
  <2>1. a \in Int /\ b - 1 \in Int
    OBVIOUS
  <2>2. Cardinality(a..(b - 1)) = IF a > b - 1 THEN 0 ELSE (b - 1) - a + 1
    BY <2>1, FS_Interval
  <2> QED
    BY <1>4, <2>2
<1> QED
  BY <1>10, <1>11 DEF some, place

(***************************************************************************)
(* LogSummary.  A summary counts the log as it was when it was taken; it   *)
(* is cached under the key of what it is about, and the language model has *)
(* been asked no longer than it may take.                                  *)
(***************************************************************************)
Good(s) == s.taken \in Nat /\ Logs!CountsRight(s)

LogTyped ==
    /\ now \in Nat /\ written \in Nat
    /\ IsFiniteSet(logs)
    /\ \A e \in logs : e.id \in 1..written /\ e.at \in Nat
    /\ \A e, f \in logs : e.id = f.id => e = f

EntryInv(c) ==
    /\ c.key = Logs!CacheKey(c.summary.scope)
    /\ Good(c.summary)
    /\ c.createdAt \in Nat /\ c.createdAt <= c.summary.taken + Patience

ReadingInv(j) ==
    /\ j.step \in {"asked", "reading"} => j.scope \in Logs!Scopes
    /\ j.step = "reading" =>
         /\ Good(j.summary) /\ j.summary.scope = j.scope
         /\ now <= j.summary.taken + Patience
    /\ j.step = "answered" =>
         /\ Good(j.summary) /\ Logs!CacheKey(j.scope) = Logs!CacheKey(j.summary.scope)
         /\ j.at - j.summary.taken <= TTL + Patience

LogInv ==
    /\ LogTyped
    /\ \A c \in cache : EntryInv(c)
    /\ reading = [r \in Requests |-> reading[r]]
    /\ \A r \in Requests : ReadingInv(reading[r])

LEMMA LogBounds == /\ Sinces \subseteq Nat /\ Untils \subseteq Nat
                   /\ LogLimit \in Nat /\ TTL \in Nat /\ Patience \in Nat
  BY AnswersAssumption DEF AnswersAssumption, Logs!LogAssumption

LEMMA LogCounts == \A S : Logs!Cardinality(S) = Cardinality(S)
  BY DEF Logs!Cardinality, Cardinality

\* The order of the texts is that of the times, to the second.
LEMMA TextOrder ==
    ASSUME NEW t \in Nat, NEW u \in Nat
    PROVE  /\ Logs!Text(t) \in Nat /\ Logs!Second(t) \in Nat
           /\ Logs!Text(t) >= Logs!Text(u) => Logs!Second(t) >= Logs!Second(u)
           /\ Logs!Second(t) > Logs!Second(u) => Logs!Text(t) > Logs!Text(u)
<1>1. t \div 2 \in Nat /\ u \div 2 \in Nat /\ t % 2 \in 0..1 /\ u % 2 \in 0..1
  OBVIOUS
<1> QED
  BY <1>1 DEF Logs!Text, Logs!Second

\* What the query matches lies between what surely and what at most is in the scope.
LEMMA MatchesBetween ==
    ASSUME NEW scope \in Logs!Scopes, NEW e, e.at \in Nat
    PROVE  /\ Logs!Matches(scope, e) => Logs!AtMost(scope, e)
           /\ Logs!Surely(scope, e) => Logs!Matches(scope, e)
<1>1. CASE scope \in [type : {"session"}, id : Sessions]
  BY <1>1 DEF Logs!Matches, Logs!AtMost, Logs!Surely
<1>2. \A t, u \in Nat :
        /\ Logs!Text(t) >= Logs!Text(u) => Logs!Second(t) >= Logs!Second(u)
        /\ Logs!Second(t) > Logs!Second(u) => Logs!Text(t) >= Logs!Text(u)
        /\ Logs!Text(t) <= Logs!Text(u) => Logs!Second(t) <= Logs!Second(u)
        /\ Logs!Second(t) < Logs!Second(u) => Logs!Text(t) <= Logs!Text(u)
  <2> TAKE t \in Nat, u \in Nat
  <2>1. /\ Logs!Text(t) \in Nat /\ Logs!Second(t) \in Nat
        /\ Logs!Text(t) >= Logs!Text(u) => Logs!Second(t) >= Logs!Second(u)
        /\ Logs!Second(t) > Logs!Second(u) => Logs!Text(t) > Logs!Text(u)
    BY TextOrder
  <2>2. /\ Logs!Text(u) \in Nat /\ Logs!Second(u) \in Nat
        /\ Logs!Text(u) >= Logs!Text(t) => Logs!Second(u) >= Logs!Second(t)
        /\ Logs!Second(u) > Logs!Second(t) => Logs!Text(u) > Logs!Text(t)
    BY TextOrder
  <2> QED
    BY <2>1, <2>2
<1>3. CASE scope \in [type : {"failures"}, since : Sinces]
  <2>1. scope.type = "failures" /\ scope.since \in Nat
    BY <1>3, LogBounds
  <2> QED
    BY <1>2, <2>1 DEF Logs!Matches, Logs!AtMost, Logs!Surely
<1>4. CASE scope \in [type : {"timerange"}, since : Sinces, until : Untils]
  <2>1. scope.type = "timerange" /\ scope.since \in Nat /\ scope.until \in Nat
    BY <1>4, LogBounds
  <2> QED
    BY <1>2, <2>1 DEF Logs!Matches, Logs!AtMost, Logs!Surely
<1> QED
  BY <1>1, <1>3, <1>4 DEF Logs!Scopes

\* The newest entries of a scope, as the database orders them.
NewerPairs(S) == {p \in S \X S : Logs!Newer(p[1], p[2])}

LEMMA NewerOrders ==
    ASSUME LogTyped, NEW S \in SUBSET logs
    PROVE  /\ Orders(NewerPairs(S), S)
           /\ \A e, f \in S : <<e, f>> \in NewerPairs(S) <=> Logs!Newer(e, f)
<1>1. \A e, f \in S : <<e, f>> \in NewerPairs(S) <=> Logs!Newer(e, f)
  BY DEF NewerPairs
<1>2. \A e \in S : e.id \in Nat /\ Logs!Text(e.at) \in Nat
  BY TextOrder DEF LogTyped
<1>3. \A e, f \in S : e.id = f.id => e = f
  BY DEF LogTyped
<1>4. \A e \in S : ~Logs!Newer(e, e)
  BY <1>2 DEF Logs!Newer
<1>5. \A e, f \in S : e = f \/ Logs!Newer(e, f) \/ Logs!Newer(f, e)
  BY <1>2, <1>3 DEF Logs!Newer
<1>6. \A e, f, g \in S : Logs!Newer(e, f) /\ Logs!Newer(f, g) => Logs!Newer(e, g)
  BY <1>2 DEF Logs!Newer
<1>7. Orders(NewerPairs(S), S)
  <2> HIDE DEF NewerPairs
  <2> QED
    BY <1>1, <1>4, <1>5, <1>6 DEF Orders
<1> QED
  BY <1>1, <1>7

\* The entries found are the newest of those that match.
LEMMA QueryNewest ==
    ASSUME LogTyped, NEW scope
    PROVE  LET found == {e \in logs : Logs!Matches(scope, e)}
               shown == Logs!Query(scope)
           IN  /\ shown \subseteq found
               /\ Cardinality(shown) <= LogLimit
               /\ Cardinality(shown) < LogLimit => shown = found
               /\ \A e \in shown, f \in found \ shown : Logs!Newer(e, f)
<1> DEFINE found == {e \in logs : Logs!Matches(scope, e)}
           shown == Logs!Query(scope)
           R == NewerPairs(found)
           place == Place(R, found)
           n == Cardinality(found)
<1>1. found \in SUBSET logs /\ IsFiniteSet(found)
  BY FS_Subset DEF LogTyped
<1>2. Orders(R, found) /\ \A e, f \in found : <<e, f>> \in R <=> Logs!Newer(e, f)
  BY <1>1, NewerOrders
<1>3. /\ n \in Nat
      /\ \A e \in found : place[e] \in 0..(n - 1)
      /\ \A e, f \in found : <<e, f>> \in R <=> place[e] < place[f]
  BY <1>1, <1>2, PlaceGrows
<1>4. \A e \in found : place[e] = Logs!Cardinality({f \in found : Logs!Newer(f, e)})
  <2> SUFFICES ASSUME NEW e \in found
               PROVE  place[e] = Logs!Cardinality({f \in found : Logs!Newer(f, e)})
    OBVIOUS
  <2>1. Before(R, found, e) = {f \in found : Logs!Newer(f, e)}
    <3> HIDE DEF R, found
    <3> QED
      BY <1>2 DEF Before
  <2>2. place[e] = Cardinality(Before(R, found, e))
    BY DEF Place
  <2> QED
    BY <2>1, <2>2, LogCounts
<1>5. shown = {e \in found : place[e] < LogLimit}
  <2>1. shown = {e \in found : Logs!Cardinality({f \in found : Logs!Newer(f, e)}) < LogLimit}
    BY DEF Logs!Query
  <2> HIDE DEF found, shown, place
  <2> QED
    BY <1>4, <2>1
<1>6. \A a, b \in Nat : a <= b /\ b <= n =>
        Cardinality({e \in found : a <= place[e] /\ place[e] < b}) = b - a
  BY <1>1, <1>2, ListedPlaces
<1> HIDE DEF found, shown, place, n
<1>9. /\ shown \subseteq found
      /\ \A e \in shown, f \in found \ shown : Logs!Newer(e, f)
  <2>1. shown \subseteq found
    BY <1>5
  <2>2. ASSUME NEW e \in shown, NEW f \in found \ shown
        PROVE  place[e] < place[f]
    BY <1>3, <1>5, LogBounds
  <2> QED
    BY <1>2, <1>3, <2>1, <2>2
<1>7. CASE LogLimit <= n
  <2>1. shown = {e \in found : 0 <= place[e] /\ place[e] < LogLimit}
    BY <1>3, <1>5
  <2>2. Cardinality(shown) = LogLimit
    BY <1>6, <1>7, <2>1, LogBounds
  <2> QED
    BY <1>9, <2>2, LogBounds DEF found, shown
<1>8. CASE ~(LogLimit <= n)
  <2>1. shown = found
    BY <1>3, <1>5, <1>8, LogBounds
  <2>2. Cardinality(shown) = n
    BY <2>1 DEF n
  <2> QED
    BY <1>3, <1>8, <1>9, <2>1, <2>2, LogBounds DEF found, shown
<1> QED
  BY <1>7, <1>8

\* A summary counts right when it is taken.
LEMMA TakenRight ==
    ASSUME LogTyped, NEW scope \in Logs!Scopes, NEW s,
           s.scope = scope, s.taken = now, s.log = logs, s.shown = Logs!Query(scope),
           s.total = Logs!Cardinality(s.shown)
    PROVE  Good(s)
<1> DEFINE found == {e \in logs : Logs!Matches(scope, e)}
           surely == {e \in logs : Logs!Surely(scope, e)}
           total == Cardinality(s.shown)
<1>1. /\ s.shown \subseteq found
      /\ total <= LogLimit
      /\ total < LogLimit => s.shown = found
      /\ \A e \in s.shown, f \in found \ s.shown : Logs!Newer(e, f)
  BY QueryNewest
<1>2. s.total = total
  BY LogCounts
<1>3. \A e \in logs : /\ e.at \in Nat
                      /\ Logs!Matches(scope, e) => Logs!AtMost(scope, e)
                      /\ Logs!Surely(scope, e) => Logs!Matches(scope, e)
  BY MatchesBetween DEF LogTyped
<1>4. s.shown \subseteq {e \in logs : Logs!AtMost(scope, e)} /\ surely \subseteq found
  BY <1>1, <1>3
<1>5. ASSUME NEW e \in s.shown, NEW f \in surely \ s.shown
      PROVE  Logs!Second(f.at) <= Logs!Second(e.at)
  <2>1. f \in found \ s.shown /\ e \in found /\ Logs!Newer(e, f)
    BY <1>1, <1>4, <1>5
  <2>2. e.at \in Nat /\ f.at \in Nat
    BY <1>3, <2>1
  <2>3. Logs!Text(e.at) \in Nat /\ Logs!Text(f.at) \in Nat /\ Logs!Second(e.at) \in Nat
        /\ Logs!Second(f.at) \in Nat
    BY <2>2, TextOrder
  <2>4. Logs!Text(e.at) >= Logs!Text(f.at)
    BY <2>1, <2>3 DEF Logs!Newer
  <2>5. Logs!Second(e.at) >= Logs!Second(f.at)
    BY <2>2, <2>4, TextOrder
  <2> QED
    BY <2>3, <2>5
<1>6. /\ s.shown \subseteq {e \in logs : Logs!AtMost(scope, e)}
      /\ total <= LogLimit /\ (total < LogLimit => surely \subseteq s.shown)
  BY <1>1, <1>4
<1>7. s.taken \in Nat
  BY DEF LogTyped
<1>8. Logs!CountsRight(s)
  <2> HIDE DEF total
  <2> QED
    BY <1>2, <1>5, <1>6 DEF Logs!CountsRight
<1> QED
  BY <1>7, <1>8 DEF Good

\* The log starts empty.
LEMMA LogStart == AnswersInit => LogInv
<1> SUFFICES ASSUME Logs!Init
             PROVE  LogInv
  BY DEF AnswersInit
<1>1. LogTyped
  BY FS_EmptySet DEF Logs!Init, LogTyped
<1>2. /\ \A c \in cache : EntryInv(c)
      /\ reading = [r \in Requests |-> reading[r]]
  BY DEF Logs!Init
<1>3. \A r \in Requests : ReadingInv(reading[r])
  <2>1. \A r \in Requests : reading[r].step = "idle"
    BY DEF Logs!Init, Logs!Idle
  <2> QED
    BY <2>1 DEF ReadingInv
<1> QED
  BY <1>1, <1>2, <1>3 DEF LogInv

\* What is said of a job lasts, as long as it does and no time passes.
LEMMA JobLasts ==
    ASSUME LogInv, now' = now, NEW r \in Requests, reading'[r] = reading[r]
    PROVE  ReadingInv(reading[r])'
<1>1. ReadingInv(reading[r])
  BY DEF LogInv
<1> QED
  BY <1>1 DEF ReadingInv, Good, Logs!CountsRight

\* A cached summary stays as it is.
LEMMA CacheLasts == ASSUME NEW c, EntryInv(c) PROVE EntryInv(c)'
  BY DEF EntryInv, Good, Logs!CountsRight

\* One goroutine moves, and the log stays.
LEMMA LogJobMoves ==
    ASSUME LogInv, UNCHANGED <<now, logs, written>>, NEW r \in Requests, NEW new,
           reading' = [reading EXCEPT ![r] = new], ReadingInv(new),
           \A c \in cache' : EntryInv(c)
    PROVE  LogInv'
<1>1. LogTyped'
  BY DEF LogInv, LogTyped
<1>2. \A c \in cache' : EntryInv(c)'
  BY CacheLasts
<1>3. reading' = [q \in Requests |-> reading'[q]]
      /\ reading'[r] = new /\ \A q \in Requests \ {r} : reading'[q] = reading[q]
  BY DEF LogInv
<1>4. ReadingInv(new)'
  BY DEF ReadingInv, Good, Logs!CountsRight
<1>5. ASSUME NEW q \in Requests PROVE ReadingInv(reading[q])'
  <2>1. CASE q = r
    <3>1. ReadingInv(reading[q])' <=> ReadingInv(new)'
      BY <1>3, <2>1 DEF ReadingInv, Good, Logs!CountsRight
    <3> QED
      BY <1>4, <3>1
  <2>2. CASE q # r
    BY <1>3, <2>2, JobLasts
  <2> QED
    BY <2>1, <2>2
<1> QED
  BY <1>1, <1>2, <1>3, <1>5 DEF LogInv

\* A line is written, or old ones are deleted.
LEMMA LogWritten ==
    ASSUME LogInv, LogTyped', UNCHANGED <<now, cache, reading>>
    PROVE  LogInv'
<1>1. \A c \in cache' : EntryInv(c)'
  BY CacheLasts DEF LogInv
<1>2. \A r \in Requests : ReadingInv(reading[r])'
  BY JobLasts DEF LogInv
<1> QED
  BY <1>1, <1>2 DEF LogInv

LEMMA InsertKeeps == LogInv /\ Logs!Insert => LogInv'
<1> SUFFICES ASSUME LogInv, Logs!Insert
             PROVE  LogInv'
  OBVIOUS
<1>1. PICK level \in Levels, s \in Sessions :
        logs' = logs \cup {[id |-> written', at |-> now, level |-> level, session |-> s]}
  BY DEF Logs!Insert
<1> DEFINE new == [id |-> written', at |-> now, level |-> level, session |-> s]
<1>2. written' = written + 1 /\ UNCHANGED <<now, cache, reading>>
  BY DEF Logs!Insert
<1>3. new.id = written + 1 /\ new.at = now
  BY <1>2
<1> HIDE DEF new
<1>4. logs' = logs \cup {new}
  BY <1>1 DEF new
<1>5. LogTyped
  BY DEF LogInv
<1>6. now' \in Nat /\ written' \in Nat /\ IsFiniteSet(logs')
  BY <1>2, <1>4, <1>5, FS_AddElement DEF LogTyped
<1>7. \A e \in logs' : e.id \in 1..written' /\ e.at \in Nat
  BY <1>2, <1>3, <1>4, <1>5 DEF LogTyped
<1>8. \A e, f \in logs' : e.id = f.id => e = f
  <2>1. \A e \in logs : e.id # new.id
    BY <1>3, <1>5 DEF LogTyped
  <2>2. \A e, f \in logs : e.id = f.id => e = f
    BY <1>5 DEF LogTyped
  <2> QED
    BY <1>4, <2>1, <2>2
<1>9. LogTyped'
  BY <1>6, <1>7, <1>8 DEF LogTyped
<1> QED
  BY <1>2, <1>9, LogWritten

LEMMA PruneKeeps == LogInv /\ Logs!Prune => LogInv'
<1> SUFFICES ASSUME LogInv, Logs!Prune
             PROVE  LogInv'
  OBVIOUS
<1>1. logs' \subseteq logs /\ UNCHANGED <<now, written, cache, reading>>
  BY DEF Logs!Prune
<1>2. IsFiniteSet(logs')
  BY <1>1, FS_Subset DEF LogInv, LogTyped
<1>3. LogTyped'
  BY <1>1, <1>2 DEF LogInv, LogTyped
<1> QED
  BY <1>1, <1>3, LogWritten

LEMMA SummaryAskedKeeps ==
    ASSUME LogInv, NEW r \in Requests, NEW scope \in Logs!Scopes, Logs!HandleLogSummary(r, scope)
    PROVE  LogInv'
<1> DEFINE new == [step |-> "asked", scope |-> scope]
<1>1. /\ reading' = [reading EXCEPT ![r] = new] /\ UNCHANGED <<now, logs, written, cache>>
  BY DEF Logs!HandleLogSummary
<1>2. ReadingInv(new)
  BY DEF ReadingInv
<1>3. \A c \in cache' : EntryInv(c)
  BY <1>1 DEF LogInv
<1> HIDE DEF new
<1> QED
  BY <1>1, <1>2, <1>3, LogJobMoves

\* What a request is answered, from the cache or anew.
LEMMA AnswerRight ==
    ASSUME LogInv, NEW scope, NEW s, Good(s), Logs!CacheKey(scope) = Logs!CacheKey(s.scope),
           now - s.taken <= TTL + Patience
    PROVE  ReadingInv([step |-> "answered", scope |-> scope, at |-> now, summary |-> s])
<1> DEFINE j == [step |-> "answered", scope |-> scope, at |-> now, summary |-> s]
<1>1. j.step = "answered" /\ j.scope = scope /\ j.at = now /\ j.summary = s
  OBVIOUS
<1> HIDE DEF j
<1>2. ReadingInv(j)
  BY <1>1 DEF ReadingInv
<1> QED
  BY <1>2 DEF j

LEMMA CachedKeeps ==
    ASSUME LogInv, NEW r \in Requests, Logs!Cached(r)
    PROVE  LogInv'
<1>1. PICK c \in Logs!GetCached(Logs!CacheKey(reading[r].scope)) : Logs!Answer(r, c.summary)
  BY DEF Logs!Cached
<1> DEFINE new == [step |-> "answered", scope |-> reading[r].scope,
                   at |-> now, summary |-> c.summary]
<1>2. UNCHANGED <<now, logs, written, cache>>
  BY DEF Logs!Cached
<1>3. reading' = [reading EXCEPT ![r] = new]
  BY <1>1 DEF Logs!Answer, LogInv
<1>4. c \in cache /\ c.key = Logs!CacheKey(reading[r].scope) /\ now - c.createdAt <= TTL
  BY <1>1 DEF Logs!GetCached
<1>5. EntryInv(c)
  BY <1>4 DEF LogInv
<1>6. now - c.summary.taken <= TTL + Patience
  <2>1. /\ now \in Nat /\ c.createdAt \in Nat /\ c.summary.taken \in Nat
        /\ c.createdAt <= c.summary.taken + Patience
    BY <1>5 DEF LogInv, LogTyped, EntryInv, Good
  <2> QED
    BY <1>4, <2>1, LogBounds
<1>7. Good(c.summary) /\ Logs!CacheKey(reading[r].scope) = Logs!CacheKey(c.summary.scope)
  BY <1>4, <1>5 DEF EntryInv
<1>8. ReadingInv(new)
  BY <1>6, <1>7, AnswerRight
<1>9. \A d \in cache' : EntryInv(d)
  BY <1>2 DEF LogInv
<1> HIDE DEF new
<1> QED
  BY <1>2, <1>3, <1>8, <1>9, LogJobMoves

LEMMA ReadKeeps ==
    ASSUME LogInv, NEW r \in Requests, Logs!Read(r)
    PROVE  LogInv'
<1> DEFINE scope == reading[r].scope
           shown == Logs!Query(scope)
           s == [scope |-> scope, taken |-> now, log |-> logs, shown |-> shown,
                 total |-> Logs!Cardinality(shown),
                 errors |-> Logs!Cardinality({e \in shown : e.level = "error"})]
           new == [step |-> "reading", scope |-> scope, summary |-> s]
<1>1. /\ reading[r].step = "asked"
      /\ cache' \subseteq cache /\ UNCHANGED <<now, logs, written>>
      /\ \/ reading' = [reading EXCEPT ![r] = Logs!Idle]
         \/ reading' = [reading EXCEPT ![r] = new]
  BY DEF Logs!Read
<1>2. \A c \in cache' : EntryInv(c)
  BY <1>1 DEF LogInv
<1>3. ReadingInv(Logs!Idle)
  BY DEF ReadingInv, Logs!Idle
<1>4. scope \in Logs!Scopes
  BY <1>1 DEF LogInv, ReadingInv
<1>5. /\ s.scope = scope /\ s.taken = now /\ s.log = logs /\ s.shown = shown
      /\ s.total = Logs!Cardinality(s.shown)
  OBVIOUS
<1>6. new.step = "reading" /\ new.scope = scope /\ new.summary = s
  OBVIOUS
<1> HIDE DEF s, new
<1>7. Good(s)
  <2> HIDE DEF scope
  <2> QED
    BY <1>4, <1>5, TakenRight DEF LogInv
<1>8. now <= s.taken + Patience
  BY <1>5, LogBounds DEF LogInv, LogTyped
<1>9. ReadingInv(new)
  <2> HIDE DEF scope
  <2> QED
    BY <1>4, <1>5, <1>6, <1>7, <1>8 DEF ReadingInv
<1> QED
  BY <1>1, <1>2, <1>3, <1>9, LogJobMoves

LEMMA SummarizeKeeps ==
    ASSUME LogInv, NEW r \in Requests, Logs!Summarize(r)
    PROVE  LogInv'
<1> DEFINE key == Logs!CacheKey(reading[r].scope)
           s == reading[r].summary
           c == [key |-> key, createdAt |-> now, summary |-> s]
           new == [step |-> "answered", scope |-> reading[r].scope, at |-> now, summary |-> s]
<1>1. /\ reading[r].step = "reading"
      /\ cache' = {d \in cache : d.key # key} \cup {c}
      /\ UNCHANGED <<now, logs, written>>
  BY DEF Logs!Summarize
<1>2. reading' = [reading EXCEPT ![r] = new]
  BY DEF Logs!Summarize, Logs!Answer, LogInv
<1>3. /\ Good(s) /\ s.scope = reading[r].scope /\ now <= s.taken + Patience
  BY <1>1 DEF LogInv, ReadingInv
<1>4. now \in Nat /\ s.taken \in Nat
  BY <1>3 DEF LogInv, LogTyped, Good
<1>5. EntryInv(c)
  <2>1. c.key = key /\ c.createdAt = now /\ c.summary = s
    OBVIOUS
  <2> HIDE DEF c, s
  <2> QED
    BY <1>3, <1>4, <2>1 DEF EntryInv
<1>6. \A d \in cache' : EntryInv(d)
  <2> HIDE DEF c
  <2> QED
    BY <1>1, <1>5 DEF LogInv
<1>7. now - s.taken <= TTL + Patience
  <2> HIDE DEF s
  <2> QED
    BY <1>3, <1>4, LogBounds
<1>8. ReadingInv(new)
  <2> HIDE DEF s
  <2> QED
    BY <1>3, <1>7, AnswerRight
<1> HIDE DEF new
<1> QED
  BY <1>1, <1>2, <1>6, <1>8, LogJobMoves

\* Time passes only as long as the language model may take.
LEMMA LogTickKeeps == LogInv /\ Logs!Tick => LogInv'
<1> SUFFICES ASSUME LogInv, Logs!Tick
             PROVE  LogInv'
  OBVIOUS
<1>1. /\ now' = now + 1 /\ UNCHANGED <<logs, written, cache>>
      /\ reading' = [r \in Requests |-> IF reading[r].step = "answered" THEN Logs!Idle ELSE reading[r]]
      /\ \A r \in Requests : /\ reading[r].step # "asked"
                             /\ reading[r].step = "reading" => now < reading[r].summary.taken + Patience
  BY DEF Logs!Tick
<1>2. LogTyped'
  BY <1>1 DEF LogInv, LogTyped
<1>3. \A c \in cache' : EntryInv(c)'
  BY <1>1, CacheLasts DEF LogInv
<1>4. ASSUME NEW r \in Requests PROVE ReadingInv(reading[r])'
  <2>1. CASE reading[r].step = "answered"
    <3>1. reading'[r].step = "idle"
      BY <1>1, <2>1 DEF Logs!Idle
    <3> QED
      BY <3>1 DEF ReadingInv
  <2>2. CASE reading[r].step = "reading"
    <3>1. reading'[r] = reading[r]
      BY <1>1, <2>2
    <3>2. ReadingInv(reading[r])
      BY DEF LogInv
    <3>3. /\ Good(reading[r].summary) /\ reading[r].summary.scope = reading[r].scope
          /\ reading[r].scope \in Logs!Scopes
      BY <2>2, <3>2 DEF ReadingInv
    <3>4. now' <= reading[r].summary.taken + Patience
      <4>1. now < reading[r].summary.taken + Patience /\ now \in Nat
            /\ reading[r].summary.taken \in Nat
        BY <1>1, <2>2, <3>3 DEF Good, LogInv, LogTyped
      <4> QED
        BY <1>1, <4>1, LogBounds
    <3> QED
      BY <2>2, <3>1, <3>3, <3>4 DEF ReadingInv, Good, Logs!CountsRight
  <2>3. CASE reading[r].step \notin {"answered", "reading"}
    <3>1. reading'[r] = reading[r] /\ reading[r].step # "asked"
      BY <1>1, <2>3
    <3> QED
      BY <2>3, <3>1 DEF ReadingInv
  <2> QED
    BY <2>1, <2>2, <2>3
<1>5. reading' = [r \in Requests |-> reading'[r]]
  BY <1>1
<1> QED
  BY <1>2, <1>3, <1>4, <1>5 DEF LogInv

\* What was said is so as long as nothing changes.
LEMMA LogStays == LogInv /\ UNCHANGED logVars => LogInv'
<1> SUFFICES ASSUME LogInv, UNCHANGED logVars
             PROVE  LogInv'
  OBVIOUS
<1>1. UNCHANGED <<now, logs, written, cache, reading>>
  BY DEF logVars
<1>2. LogTyped'
  BY <1>1 DEF LogInv, LogTyped
<1> QED
  BY <1>1, <1>2, LogWritten

LEMMA LogKeeps == LogInv /\ [AnswersNext]_answersVars => LogInv'
<1>1. LogInv /\ Logs!Next => LogInv'
  BY InsertKeeps, PruneKeeps, LogTickKeeps, SummaryAskedKeeps, CachedKeeps, ReadKeeps,
     SummarizeKeeps DEF Logs!Next
<1>2. [AnswersNext]_answersVars => Logs!Next \/ UNCHANGED logVars
  BY DEF AnswersNext, answersVars, Aside
<1> QED
  BY <1>1, <1>2, LogStays

\* A summary is recent, counts right, and is about what was asked.
LEMMA SummariesRecent == LogInv => Logs!SummaryRecent
<1> SUFFICES ASSUME LogInv, NEW r \in Requests, reading[r].step = "answered"
             PROVE  /\ Logs!CacheKey(reading[r].scope) = Logs!CacheKey(reading[r].summary.scope)
                    /\ reading[r].at - reading[r].summary.taken <= TTL + Patience
                    /\ Logs!CountsRight(reading[r].summary)
  BY DEF Logs!SummaryRecent, Logs!Answered
<1>1. ReadingInv(reading[r])
  BY DEF LogInv
<1> QED
  BY <1>1 DEF ReadingInv, Good

(***************************************************************************)
(* GitHubClient.  An issue that has been open all the time stands on the   *)
(* pages that are still to come until it is listed, unless one that is     *)
(* listed before it was closed; and it is not on them any more when it has *)
(* been listed, unless one that is listed before it was opened.            *)
(***************************************************************************)
IssueRecords == [open : BOOLEAN, labels : SUBSET StatusLabels, assignees : SUBSET Assignees,
                 text : {"first", "second"}]
Entries == [number : Nat, issue : IssueRecords]

GitHubTyped ==
    /\ issues \in Seq(IssueRecords) /\ all \in Seq(Entries) /\ page \in Nat

Above(S, n) == \E m \in S : m > n

\* How many issues stand on the pages before this one.
PageStart == (page - 1) * PageSize

ListedOrToCome(n) ==
    \/ n \in GitHub!Listed
    \/ page > 0 /\ PageStart <= GitHub!Before(n)
    \/ Above(shut, n)

ListedOnce(n) ==
    \/ /\ \A i, j \in GitHub!Places(n) : i = j
       /\ n \in GitHub!Listed /\ page > 0 => GitHub!Before(n) < PageStart
    \/ Above(added, n)

InRound == GitHub!Listing \/ watching = "told"

SoFarInv ==
    /\ GitHub!Snapshot(issues) \subseteq held
    /\ \A i \in DOMAIN all : all[i] \in held
    /\ \A n \in GitHub!Steady : ListedOrToCome(n) /\ ListedOnce(n)

\* What has been told: the first page comes again only after the handlers.
ToldInv ==
    /\ page = 0
    /\ \A e \in told : e.type # "closed" => [number |-> e.number, issue |-> e.issue] \in held
    /\ \A n \in GitHub!Steady :
         /\ (n \in DOMAIN seen /\ GitHub!TellsOf("closed", n) = {}) \/ Above(shut, n)
         /\ (\A d, e \in GitHub!TellsOf("opened", n) : d = e) \/ Above(added, n)

GitHubInv ==
    /\ GitHubTyped
    /\ InRound => SoFarInv
    /\ watching = "told" => ToldInv

LEMMA GitHubBounds == PageSize \in Nat /\ PageSize > 0 /\ OldIssues \in Nat
  BY AnswersAssumption DEF AnswersAssumption, GitHub!GitHubAssumption

LEMMA GitHubCounts == \A S : GitHub!Cardinality(S) = Cardinality(S)
  BY DEF GitHub!Cardinality, Cardinality

\* The open issues are numbered in the order in which the forge lists them.
HigherPairs == {p \in GitHub!Open \X GitHub!Open : p[1] > p[2]}

LEMMA ListingPlaces ==
    ASSUME GitHubTyped
    PROVE  /\ Cardinality(GitHub!Open) \in Nat
           /\ \A n \in GitHub!Open : n \in Nat /\ GitHub!Before(n) \in 0..(Cardinality(GitHub!Open) - 1)
           /\ \A k \in 0..(Cardinality(GitHub!Open) - 1) :
                GitHub!AtPlace(k) \in GitHub!Open /\ GitHub!Before(GitHub!AtPlace(k)) = k
           /\ \A m, n \in GitHub!Open : GitHub!Before(m) = GitHub!Before(n) => m = n
<1> DEFINE S == GitHub!Open
           R == HigherPairs
<1>1. S \subseteq 1..Len(issues) /\ Len(issues) \in Nat
  BY DEF GitHubTyped, GitHub!Open
<1>2. IsFiniteSet(S)
  <2>1. IsFiniteSet(1..Len(issues))
    BY <1>1, FS_Interval
  <2> HIDE DEF S
  <2> QED
    BY <1>1, <2>1, FS_Subset
<1>3. \A m, n \in S : <<m, n>> \in R <=> m > n
  BY DEF HigherPairs
<1>4. Orders(R, S)
  <2> HIDE DEF R, S
  <2> QED
    BY <1>1, <1>3 DEF Orders
<1>5. \A n \in S : Place(R, S)[n] = GitHub!Before(n)
  <2> SUFFICES ASSUME NEW n \in S PROVE Place(R, S)[n] = GitHub!Before(n)
    OBVIOUS
  <2>1. Before(R, S, n) = {m \in S : m > n}
    <3> HIDE DEF R, S
    <3> QED
      BY <1>3 DEF Before
  <2>2. Place(R, S)[n] = Cardinality(Before(R, S, n))
    BY DEF Place
  <2> QED
    BY <2>1, <2>2, GitHubCounts DEF GitHub!Before
<1>6. /\ Cardinality(S) \in Nat
      /\ \A n \in S : Place(R, S)[n] \in 0..(Cardinality(S) - 1)
  BY <1>2, <1>4, PlaceGrows
<1>7. /\ \A m, n \in S : Place(R, S)[m] = Place(R, S)[n] => m = n
      /\ \A k \in 0..(Cardinality(S) - 1) : \E n \in S : Place(R, S)[n] = k
  BY <1>2, <1>4, PlacesTaken
<1> HIDE DEF R, S
<1>8. ASSUME NEW k \in 0..(Cardinality(S) - 1)
      PROVE  GitHub!AtPlace(k) \in S /\ GitHub!Before(GitHub!AtPlace(k)) = k
  <2>1. \E n \in S : GitHub!Before(n) = k
    BY <1>5, <1>7
  <2>2. GitHub!AtPlace(k) = CHOOSE n \in S : GitHub!Before(n) = k
    BY DEF GitHub!AtPlace, S
  <2> QED
    BY <2>1, <2>2
<1>9. \A n \in S : n \in Nat /\ GitHub!Before(n) \in 0..(Cardinality(S) - 1)
  BY <1>1, <1>5, <1>6
<1>10. \A m, n \in S : GitHub!Before(m) = GitHub!Before(n) => m = n
  BY <1>5, <1>7
<1> QED
  BY <1>6, <1>8, <1>9, <1>10 DEF S

\* A page of the listing holds the issues at its places, and is full unless it is the last.
LEMMA PageHolds ==
    ASSUME GitHubTyped, page > 0
    PROVE  LET batch == GitHub!ListIssues(page)
           IN  /\ PageStart \in Nat
               /\ batch \in Seq(Entries)
               /\ \A i \in DOMAIN batch :
                    /\ batch[i].number \in GitHub!Open
                    /\ batch[i].issue = issues[batch[i].number]
                    /\ GitHub!Before(batch[i].number) = PageStart + i - 1
                    /\ i <= PageSize
               /\ \A n \in GitHub!Open :
                    PageStart <= GitHub!Before(n) =>
                      \/ \E i \in DOMAIN batch : batch[i].number = n
                      \/ Len(batch) = PageSize /\ PageStart + PageSize <= GitHub!Before(n)
<1> DEFINE total == Cardinality(GitHub!Open)
           from  == PageStart
           left  == IF from < total THEN total - from ELSE 0
           size == IF left < PageSize THEN left ELSE PageSize
           batch == GitHub!ListIssues(page)
           Number(i) == GitHub!AtPlace(from + i - 1)
<1>1. from \in Nat
  <2>1. page - 1 \in Nat
    BY DEF GitHubTyped
  <2>2. \A a, b \in Nat : a * b \in Nat
    OBVIOUS
  <2> QED
    BY <2>1, <2>2, GitHubBounds DEF PageStart
<1>2. total \in Nat /\ GitHub!Cardinality(GitHub!Open) = total
  BY ListingPlaces, GitHubCounts
<1>3. batch = [i \in 1..size |-> [number |-> Number(i), issue |-> issues[Number(i)]]]
  BY <1>2 DEF GitHub!ListIssues, PageStart
<1> HIDE DEF from, total, batch
<1>5. size \in Nat
  BY <1>1, <1>2, GitHubBounds
<1>6. ASSUME NEW i \in 1..size
      PROVE  Number(i) \in GitHub!Open /\ GitHub!Before(Number(i)) = from + i - 1 /\ i <= PageSize
  <2>1. from + i - 1 \in 0..(total - 1) /\ i <= PageSize
    BY <1>1, <1>2, GitHubBounds
  <2> QED
    BY <2>1, ListingPlaces DEF total
<1>7. ASSUME NEW n \in GitHub!Open, from <= GitHub!Before(n)
      PROVE  \/ \E i \in 1..size : Number(i) = n
             \/ size = PageSize /\ from + PageSize <= GitHub!Before(n)
  <2>1. GitHub!Before(n) \in 0..(total - 1)
    BY ListingPlaces DEF total
  <2>2. CASE GitHub!Before(n) < from + PageSize
    <3> DEFINE k == GitHub!Before(n) - from + 1
    <3>1. k \in 1..size /\ from + k - 1 = GitHub!Before(n)
      BY <1>1, <1>2, <1>7, <2>1, <2>2, GitHubBounds
    <3>2. GitHub!Before(Number(k)) = GitHub!Before(n) /\ Number(k) \in GitHub!Open
      <4> HIDE DEF k
      <4> QED
        BY <1>6, <3>1
    <3>3. Number(k) = n
      BY <3>2, ListingPlaces
    <3> HIDE DEF k
    <3> QED
      BY <3>1, <3>3
  <2>3. CASE ~(GitHub!Before(n) < from + PageSize)
    BY <1>1, <1>2, <2>1, <2>3, GitHubBounds
  <2> QED
    BY <2>2, <2>3
<1> HIDE DEF size, Number
<1>8. DOMAIN batch = 1..size
      /\ \A i \in 1..size : batch[i].number = Number(i) /\ batch[i].issue = issues[Number(i)]
  BY <1>3
<1>9. batch \in Seq(Entries) /\ Len(batch) = size
  <2>1. ASSUME NEW i \in 1..size
        PROVE  [number |-> Number(i), issue |-> issues[Number(i)]] \in Entries
    <3>1. Number(i) \in GitHub!Open
      BY <1>6
    <3>2. Number(i) \in Nat /\ Number(i) \in DOMAIN issues
      BY <3>1, ListingPlaces DEF GitHub!Open
    <3>3. issues[Number(i)] \in IssueRecords
      BY <3>2 DEF GitHubTyped
    <3> QED
      BY <3>2, <3>3 DEF Entries
  <2> QED
    BY <1>3, <1>5, <2>1
<1>10. \A i \in DOMAIN batch :
         /\ batch[i].number \in GitHub!Open
         /\ batch[i].issue = issues[batch[i].number]
         /\ GitHub!Before(batch[i].number) = from + i - 1
         /\ i <= PageSize
  BY <1>6, <1>8
<1>11. \A n \in GitHub!Open :
         from <= GitHub!Before(n) =>
           \/ \E i \in DOMAIN batch : batch[i].number = n
           \/ Len(batch) = PageSize /\ from + PageSize <= GitHub!Before(n)
  BY <1>7, <1>8, <1>9
<1> QED
  BY <1>1, <1>9, <1>10, <1>11 DEF from, batch

\* An event of the round is about the entry at its place.
LEMMA EventOf ==
    ASSUME NEW type, NEW i
    PROVE  /\ GitHub!Event(type, i).type = type
           /\ GitHub!Event(type, i).number = all[i].number
           /\ GitHub!Event(type, i).issue = all[i].issue
  BY DEF GitHub!Event

LEMMA EntryRecord == ASSUME NEW e \in Entries PROVE e = [number |-> e.number, issue |-> e.issue]
  BY DEF Entries

\* A listing begins: nothing has been read or changed.
BeginsListing ==
    /\ GitHubTyped
    /\ held = GitHub!Snapshot(issues) /\ added = {} /\ shut = {}
    /\ page = 1 /\ all = <<>> /\ GitHub!Listing

LEMMA NewListing == BeginsListing => GitHubInv
<1> SUFFICES ASSUME BeginsListing
             PROVE  GitHubInv
  OBVIOUS
<1> USE DEF BeginsListing
<1>1. \A n \in GitHub!Steady : n \in GitHub!Open
  BY DEF GitHub!Steady
<1>2. PageStart = 0
  BY GitHubBounds DEF PageStart
<1>3. DOMAIN all = {} /\ GitHub!Listed = {}
  BY DEF GitHub!Listed
<1>4. \A n \in GitHub!Open : PageStart <= GitHub!Before(n)
  BY <1>2, ListingPlaces
<1>5. \A n \in GitHub!Steady : ListedOrToCome(n)
  BY <1>1, <1>4 DEF ListedOrToCome
<1>6. \A n \in GitHub!Steady : ListedOnce(n)
  BY <1>3 DEF ListedOnce, GitHub!Places
<1>7. SoFarInv
  BY <1>3, <1>5, <1>6 DEF SoFarInv
<1>8. watching # "told"
  BY DEF GitHub!Listing
<1> QED
  BY <1>7, <1>8 DEF GitHubInv

LEMMA GitHubStart == AnswersInit => GitHubInv
<1> SUFFICES ASSUME GitHub!Init
             PROVE  GitHubInv
  BY DEF AnswersInit
<1>1. PICK queued \in SUBSET (1..OldIssues) :
        issues = [n \in 1..OldIssues |-> GitHub!NewIssue(IF n \in queued THEN StatusLabels ELSE {}, {})]
  BY DEF GitHub!Init
<1>2. \A n \in 1..OldIssues :
        GitHub!NewIssue(IF n \in queued THEN StatusLabels ELSE {}, {}) \in IssueRecords
  BY DEF GitHub!NewIssue, IssueRecords
<1>3. issues \in Seq(IssueRecords)
  BY <1>1, <1>2, GitHubBounds
<1>4. /\ held = GitHub!Snapshot(issues) /\ added = {} /\ shut = {}
      /\ page = 1 /\ all = <<>> /\ watching = "loading"
  BY DEF GitHub!Init
<1>5. GitHubTyped
  BY <1>3, <1>4 DEF GitHubTyped
<1> QED
  BY <1>4, <1>5, NewListing DEF BeginsListing, GitHub!Listing

\* Issues are listed earlier only when some before them are closed, and later only when
\* some before them are opened.
LEMMA BeforeMoves ==
    ASSUME GitHubTyped, GitHubTyped', NEW n \in Nat
    PROVE  /\ GitHub!Before(n) \in Nat /\ GitHub!Before(n)' \in Nat
           /\ (\A m \in GitHub!Open : m > n => m \in GitHub!Open')
                => GitHub!Before(n) <= GitHub!Before(n)'
           /\ (\A m \in GitHub!Open' : m > n => m \in GitHub!Open)
                => GitHub!Before(n)' <= GitHub!Before(n)
<1> DEFINE old == {m \in GitHub!Open : m > n}
           new == {m \in GitHub!Open' : m > n}
<1>1. GitHub!Before(n) = Cardinality(old) /\ GitHub!Before(n)' = Cardinality(new)
  BY GitHubCounts DEF GitHub!Before
<1>2. GitHub!Open \subseteq 1..Len(issues) /\ GitHub!Open' \subseteq 1..Len(issues')
      /\ Len(issues) \in Nat /\ Len(issues') \in Nat
  BY DEF GitHubTyped, GitHub!Open
<1>3. IsFiniteSet(1..Len(issues)) /\ IsFiniteSet(1..Len(issues'))
  BY <1>2, FS_Interval
<1>4. old \subseteq 1..Len(issues) /\ new \subseteq 1..Len(issues')
  BY <1>2
<1>5. (\A m \in GitHub!Open : m > n => m \in GitHub!Open') => old \subseteq new
  OBVIOUS
<1>6. (\A m \in GitHub!Open' : m > n => m \in GitHub!Open) => new \subseteq old
  OBVIOUS
<1> HIDE DEF old, new
<1>7. IsFiniteSet(old) /\ IsFiniteSet(new)
  BY <1>3, <1>4, FS_Subset
<1>8. Cardinality(old) \in Nat /\ Cardinality(new) \in Nat
  BY <1>7, FS_CardinalityType
<1>9. /\ old \subseteq new => Cardinality(old) <= Cardinality(new)
      /\ new \subseteq old => Cardinality(new) <= Cardinality(old)
  BY <1>7, FS_Subset
<1> QED
  BY <1>1, <1>5, <1>6, <1>8, <1>9

\* An issue is opened, closed or otherwise changed while Watch reads or tells.
LEMMA IssueChangeKeeps ==
    ASSUME GitHubInv, NEW new \in Seq(IssueRecords), DOMAIN issues \subseteq DOMAIN new,
           GitHub!Change(new)
    PROVE  GitHubInv'
<1>1. issues' = new /\ UNCHANGED <<watching, seen, page, all, told>>
  BY DEF GitHub!Change
<1>2. GitHubTyped /\ GitHubTyped'
  BY <1>1 DEF GitHubInv, GitHubTyped
<1>3. InRound' <=> InRound
  BY <1>1 DEF InRound, GitHub!Listing
<1>4. CASE ~InRound
  <2>1. watching' # "told"
    BY <1>1, <1>4 DEF InRound
  <2> QED
    BY <1>2, <1>3, <1>4, <2>1 DEF GitHubInv
<1>5. CASE InRound
  <2>1. /\ held' = held \cup GitHub!Snapshot(new)
        /\ added' = added \cup {n \in DOMAIN new : new[n].open /\ n \notin GitHub!Open}
        /\ shut' = shut \cup {n \in GitHub!Open : ~new[n].open}
    BY <1>5 DEF GitHub!Change, InRound
  <2>2. /\ GitHub!Open' = {n \in DOMAIN new : new[n].open}
        /\ GitHub!Open \subseteq DOMAIN new
    BY <1>1 DEF GitHub!Open
  <2>3. /\ \A m \in GitHub!Open : m \in GitHub!Open' \/ m \in shut'
        /\ \A m \in GitHub!Open' : m \in GitHub!Open \/ m \in added'
    BY <2>1, <2>2
  <2>4. \A n \in GitHub!Steady' : n \in GitHub!Steady /\ n \in GitHub!Open
    <3>1. \A n \in GitHub!Steady' : n \in GitHub!Open' /\ n \notin added' /\ n \notin shut'
      BY DEF GitHub!Steady
    <3> QED
      BY <2>1, <2>3, <3>1 DEF GitHub!Steady
  <2>5. \A n \in Nat : (Above(shut, n) => Above(shut', n)) /\ (Above(added, n) => Above(added', n))
    BY <2>1 DEF Above
  <2>6. GitHub!Listed' = GitHub!Listed /\ PageStart' = PageStart
        /\ \A n \in Nat : GitHub!Places(n)' = GitHub!Places(n)
    BY <1>1 DEF GitHub!Listed, PageStart, GitHub!Places
  <2>7. SoFarInv
    BY <1>5 DEF GitHubInv
  <2>8. page \in Nat /\ (page > 0 => PageStart \in Nat)
    BY <1>2, PageHolds DEF GitHubTyped
  <2>9. ASSUME NEW n \in GitHub!Steady' PROVE ListedOrToCome(n)' /\ ListedOnce(n)'
    <3>1. n \in Nat /\ n \in GitHub!Steady
      BY <1>2, <2>4, ListingPlaces
    <3>2. ListedOrToCome(n) /\ ListedOnce(n)
      BY <2>7, <3>1 DEF SoFarInv
    <3>3. Above(shut', n) \/ GitHub!Before(n) <= GitHub!Before(n)'
      BY <1>2, <2>3, <3>1, BeforeMoves DEF Above
    <3>4. Above(added', n) \/ GitHub!Before(n)' <= GitHub!Before(n)
      BY <1>2, <2>3, <3>1, BeforeMoves DEF Above
    <3>5. GitHub!Before(n) \in Nat /\ GitHub!Before(n)' \in Nat
      BY <1>2, <3>1, BeforeMoves
    <3>6. ListedOrToCome(n)'
      BY <1>1, <2>5, <2>6, <2>8, <3>1, <3>2, <3>3, <3>5 DEF ListedOrToCome
    <3>7. ListedOnce(n)'
      BY <1>1, <2>5, <2>6, <2>8, <3>1, <3>2, <3>4, <3>5 DEF ListedOnce
    <3> QED
      BY <3>6, <3>7
  <2>10. SoFarInv'
    <3>1. GitHub!Snapshot(issues)' \subseteq held'
      BY <1>1, <2>1
    <3>2. \A i \in DOMAIN all' : all'[i] \in held'
      BY <1>1, <2>1, <2>7 DEF SoFarInv
    <3> QED
      BY <2>9, <3>1, <3>2 DEF SoFarInv
  <2>11. ASSUME watching' = "told" PROVE ToldInv'
    <3>1. ToldInv
      BY <1>1, <2>11 DEF GitHubInv
    <3>2. \A type, n : GitHub!TellsOf(type, n)' = GitHub!TellsOf(type, n)
      BY <1>1 DEF GitHub!TellsOf
    <3>3. \A n \in GitHub!Steady' :
            /\ (n \in DOMAIN seen' /\ GitHub!TellsOf("closed", n)' = {}) \/ Above(shut', n)
            /\ (\A d, e \in GitHub!TellsOf("opened", n)' : d = e) \/ Above(added', n)
      <4> SUFFICES ASSUME NEW n \in GitHub!Steady'
                   PROVE  /\ (n \in DOMAIN seen' /\ GitHub!TellsOf("closed", n)' = {}) \/ Above(shut', n)
                          /\ (\A d, e \in GitHub!TellsOf("opened", n)' : d = e) \/ Above(added', n)
        OBVIOUS
      <4>1. n \in Nat /\ n \in GitHub!Steady
        BY <1>2, <2>4, ListingPlaces
      <4> QED
        BY <1>1, <2>5, <3>1, <3>2, <4>1 DEF ToldInv
    <3>4. page' = 0
          /\ \A e \in told' : e.type # "closed" => [number |-> e.number, issue |-> e.issue] \in held'
      BY <1>1, <2>1, <3>1 DEF ToldInv
    <3> QED
      BY <3>3, <3>4 DEF ToldInv
  <2> QED
    BY <1>2, <2>10, <2>11 DEF GitHubInv
<1> QED
  BY <1>4, <1>5

LEMMA CallKeeps == GitHubInv /\ GitHub!Call => GitHubInv'
<1> SUFFICES ASSUME GitHubInv, GitHub!Call
             PROVE  GitHubInv'
  OBVIOUS
<1> DEFINE Suitable(new) == new \in Seq(IssueRecords) /\ DOMAIN issues \subseteq DOMAIN new
<1>1. issues \in Seq(IssueRecords)
  BY DEF GitHubInv, GitHubTyped
<1>2. ASSUME NEW new \in IssueRecords PROVE Suitable(Append(issues, new))
  BY <1>1
<1>3. ASSUME NEW n \in DOMAIN issues, NEW new \in IssueRecords
      PROVE  Suitable([issues EXCEPT ![n] = new])
  BY <1>1
<1>4. \A n \in DOMAIN issues : issues[n] \in IssueRecords
  BY <1>1
<1> HIDE DEF Suitable
<1>5. ASSUME NEW ls \in SUBSET StatusLabels, NEW people \in SUBSET Assignees,
             GitHub!CreateIssue(ls, people)
      PROVE  GitHubInv'
  <2>1. GitHub!NewIssue(ls, people) \in IssueRecords
    BY DEF GitHub!NewIssue, IssueRecords
  <2> QED
    BY <1>2, <1>5, <2>1, IssueChangeKeeps DEF GitHub!CreateIssue, Suitable
<1>6. ASSUME NEW n \in DOMAIN issues, NEW on \in BOOLEAN, NEW text \in {"first", "second"},
             GitHub!UpdateIssue(n, on, text)
      PROVE  GitHubInv'
  <2>1. [issues[n] EXCEPT !.open = on, !.text = text] \in IssueRecords
    BY <1>4 DEF IssueRecords
  <2> QED
    BY <1>3, <1>6, <2>1, IssueChangeKeeps DEF GitHub!UpdateIssue, Suitable
<1>7. ASSUME NEW n \in DOMAIN issues, NEW ls \in SUBSET StatusLabels
      PROVE  Suitable([issues EXCEPT ![n].labels = ls])
  <2>1. [issues[n] EXCEPT !.labels = ls] \in IssueRecords
    BY <1>4 DEF IssueRecords
  <2> QED
    BY <1>3, <2>1
<1>8. ASSUME NEW n \in DOMAIN issues, NEW people \in SUBSET Assignees
      PROVE  Suitable([issues EXCEPT ![n].assignees = people])
  <2>1. [issues[n] EXCEPT !.assignees = people] \in IssueRecords
    BY <1>4 DEF IssueRecords
  <2> QED
    BY <1>3, <2>1
<1>9. \A n \in DOMAIN issues : issues[n].labels \subseteq StatusLabels /\ issues[n].assignees \subseteq Assignees
  BY <1>4 DEF IssueRecords
<1>10. ASSUME NEW n \in DOMAIN issues, NEW ls \in SUBSET StatusLabels, GitHub!SetLabels(n, ls)
       PROVE  GitHubInv'
  BY <1>7, <1>10, IssueChangeKeeps DEF GitHub!SetLabels, Suitable
<1>11. ASSUME NEW n \in DOMAIN issues, NEW l \in StatusLabels,
              GitHub!AddLabel(n, l) \/ GitHub!RemoveLabel(n, l)
       PROVE  GitHubInv'
  <2>1. Suitable([issues EXCEPT ![n].labels = @ \cup {l}]) /\ Suitable([issues EXCEPT ![n].labels = @ \ {l}])
    BY <1>7, <1>9
  <2> QED
    BY <1>11, <2>1, IssueChangeKeeps DEF GitHub!AddLabel, GitHub!RemoveLabel, Suitable
<1>12. ASSUME NEW n \in DOMAIN issues, NEW p \in Assignees,
              GitHub!Assign(n, p) \/ GitHub!Unassign(n, p)
       PROVE  GitHubInv'
  <2>1. Suitable([issues EXCEPT ![n].assignees = @ \cup {p}]) /\ Suitable([issues EXCEPT ![n].assignees = @ \ {p}])
    BY <1>8, <1>9
  <2> QED
    BY <1>12, <2>1, IssueChangeKeeps DEF GitHub!Assign, GitHub!Unassign, Suitable
<1> QED
  BY <1>5, <1>6, <1>10, <1>11, <1>12 DEF GitHub!Call

\* A page is read.
LEMMA FetchKeeps == GitHubInv /\ GitHub!Fetch => GitHubInv'
<1> SUFFICES ASSUME GitHubInv, GitHub!Fetch
             PROVE  GitHubInv'
  OBVIOUS
<1> DEFINE batch == GitHub!ListIssues(page)
<1>1. /\ GitHub!Listing /\ page > 0
      /\ all' = all \o batch
      /\ page' = IF Len(batch) < PageSize THEN 0 ELSE page + 1
      /\ UNCHANGED <<issues, watching, held, added, shut>>
  BY DEF GitHub!Fetch, GitHub!forge, GitHub!history
<1>2. GitHubTyped
  BY DEF GitHubInv
<1>3. /\ PageStart \in Nat
      /\ batch \in Seq(Entries)
      /\ \A i \in DOMAIN batch :
           /\ batch[i].number \in GitHub!Open
           /\ batch[i].issue = issues[batch[i].number]
           /\ GitHub!Before(batch[i].number) = PageStart + i - 1
           /\ i <= PageSize
      /\ \A n \in GitHub!Open :
           PageStart <= GitHub!Before(n) =>
             \/ \E i \in DOMAIN batch : batch[i].number = n
             \/ Len(batch) = PageSize /\ PageStart + PageSize <= GitHub!Before(n)
  BY <1>1, <1>2, PageHolds
<1> HIDE DEF batch
<1>4. GitHubTyped'
  BY <1>1, <1>2, <1>3, GitHubBounds DEF GitHubTyped
<1>5. SoFarInv
  BY <1>1 DEF GitHubInv, InRound
<1>6. /\ all \in Seq(Entries) /\ Len(all) \in Nat /\ Len(batch) \in Nat
      /\ DOMAIN all = 1..Len(all) /\ DOMAIN batch = 1..Len(batch)
      /\ DOMAIN all' = 1..(Len(all) + Len(batch))
      /\ \A i \in 1..Len(all) : all'[i] = all[i]
      /\ \A i \in 1..Len(batch) : all'[Len(all) + i] = batch[i]
  BY <1>1, <1>2, <1>3 DEF GitHubTyped
<1>7. \A i \in DOMAIN all' :
        i \in DOMAIN all \/ \E k \in DOMAIN batch : i = Len(all) + k
  <2> SUFFICES ASSUME NEW i \in DOMAIN all', i \notin DOMAIN all
               PROVE  i - Len(all) \in DOMAIN batch /\ i = Len(all) + (i - Len(all))
    OBVIOUS
  <2> QED
    BY <1>6
<1>8. GitHub!Listed' = GitHub!Listed \cup {batch[k].number : k \in DOMAIN batch}
  BY <1>6, <1>7 DEF GitHub!Listed
<1>9. \A n : GitHub!Places(n)' =
        GitHub!Places(n) \cup {Len(all) + k : k \in {j \in DOMAIN batch : batch[j].number = n}}
  <2> SUFFICES ASSUME NEW n, NEW i
               PROVE  i \in GitHub!Places(n)' <=>
                        \/ i \in GitHub!Places(n)
                        \/ \E k \in DOMAIN batch : batch[k].number = n /\ i = Len(all) + k
    OBVIOUS
  <2> QED
    BY <1>6, <1>7 DEF GitHub!Places
<1>10. page' > 0 => PageStart' = PageStart + PageSize /\ page' = page + 1 /\ Len(batch) >= PageSize
  <2> SUFFICES ASSUME page' > 0
               PROVE  PageStart' = PageStart + PageSize /\ page' = page + 1 /\ Len(batch) >= PageSize
    OBVIOUS
  <2>1. page' = page + 1 /\ Len(batch) >= PageSize
    BY <1>1, <1>6, GitHubBounds
  <2>2. page \in Nat
    BY <1>2 DEF GitHubTyped
  <2>3. \A a, b \in Nat : (a + 1 - 1) * b = (a - 1) * b + b
    OBVIOUS
  <2> QED
    BY <2>1, <2>2, <2>3, GitHubBounds DEF PageStart
<1>11. /\ GitHub!Steady' = GitHub!Steady /\ GitHub!Steady \subseteq GitHub!Open
       /\ \A n : GitHub!Before(n)' = GitHub!Before(n)
       /\ \A n : (Above(shut, n)' <=> Above(shut, n)) /\ (Above(added, n)' <=> Above(added, n))
  BY <1>1 DEF GitHub!Steady, GitHub!Before, GitHub!Open, Above
<1>12. page' \in Nat
  BY <1>4 DEF GitHubTyped
<1>13. ASSUME NEW n \in GitHub!Steady PROVE ListedOrToCome(n)'
  <2>1. ListedOrToCome(n)
    BY <1>5 DEF SoFarInv
  <2>2. CASE n \in GitHub!Listed \/ Above(shut, n)
    BY <1>8, <1>11, <2>2 DEF ListedOrToCome
  <2>3. CASE PageStart <= GitHub!Before(n)
    <3>1. CASE \E i \in DOMAIN batch : batch[i].number = n
      BY <1>8, <3>1 DEF ListedOrToCome
    <3>2. CASE Len(batch) = PageSize /\ PageStart + PageSize <= GitHub!Before(n)
      <4>1. page' > 0
        BY <1>1, <1>2, <3>2, GitHubBounds DEF GitHubTyped
      <4>2. PageStart' <= GitHub!Before(n)'
        BY <1>10, <1>11, <3>2, <4>1
      <4> QED
        BY <4>1, <4>2 DEF ListedOrToCome
    <3> QED
      BY <1>3, <1>11, <2>3, <3>1, <3>2
  <2> QED
    BY <2>1, <2>2, <2>3 DEF ListedOrToCome
<1>14. ASSUME NEW n \in GitHub!Steady PROVE ListedOnce(n)'
  <2>1. CASE Above(added, n)
    BY <1>11, <2>1 DEF ListedOnce
  <2>2. CASE ~Above(added, n)
    <3>1. /\ \A i, j \in GitHub!Places(n) : i = j
          /\ n \in GitHub!Listed => GitHub!Before(n) < PageStart
      BY <1>1, <1>5, <2>2 DEF SoFarInv, ListedOnce
    <3>2. GitHub!Before(n) \in Nat
      BY <1>2, <1>11, ListingPlaces
    <3>3. \A k \in DOMAIN batch : batch[k].number = n =>
            n \notin GitHub!Listed /\ k = GitHub!Before(n) - PageStart + 1
      BY <1>3, <1>6, <3>1, <3>2
    <3>4. n \notin GitHub!Listed => GitHub!Places(n) = {}
      BY DEF GitHub!Listed, GitHub!Places
    <3>5. \A i, j \in GitHub!Places(n)' : i = j
      <4>1. CASE n \in GitHub!Listed
        <5>1. GitHub!Places(n)' = GitHub!Places(n)
          BY <1>9, <3>3, <4>1
        <5> QED
          BY <3>1, <5>1
      <4>2. CASE n \notin GitHub!Listed
        <5>1. \A i \in GitHub!Places(n)' : \E k \in DOMAIN batch : batch[k].number = n /\ i = Len(all) + k
          BY <1>9, <3>4, <4>2
        <5>2. \A i \in GitHub!Places(n)' : i = Len(all) + (GitHub!Before(n) - PageStart + 1)
          BY <3>3, <5>1
        <5> QED
          BY <5>2
      <4> QED
        BY <4>1, <4>2
    <3>6. ASSUME n \in GitHub!Listed', page' > 0
          PROVE  GitHub!Before(n) < PageStart + PageSize
      <4>1. CASE n \in GitHub!Listed
        BY <1>3, <3>1, <3>2, <4>1, GitHubBounds
      <4>2. CASE n \notin GitHub!Listed
        <5>1. PICK k \in DOMAIN batch : batch[k].number = n
          BY <1>8, <3>6, <4>2
        <5>2. GitHub!Before(n) = PageStart + k - 1 /\ k <= PageSize /\ k \in Nat
          BY <1>3, <1>6, <5>1
        <5> QED
          BY <1>3, <3>2, <5>2, GitHubBounds
      <4> QED
        BY <4>1, <4>2
    <3> QED
      BY <1>10, <1>11, <3>5, <3>6 DEF ListedOnce
  <2> QED
    BY <2>1, <2>2
<1>15. \A i \in DOMAIN all' : all'[i] \in held'
  <2>1. ASSUME NEW k \in DOMAIN batch PROVE batch[k] \in held
    <3>1. batch[k] \in Entries
      BY <1>3
    <3>2. batch[k] = [number |-> batch[k].number, issue |-> issues[batch[k].number]]
      BY <1>3, <3>1, EntryRecord
    <3>3. batch[k].number \in DOMAIN issues /\ issues[batch[k].number].open
      BY <1>3 DEF GitHub!Open
    <3>4. batch[k] \in GitHub!Snapshot(issues)
      BY <3>2, <3>3 DEF GitHub!Snapshot
    <3> QED
      BY <1>5, <3>4 DEF SoFarInv
  <2> QED
    BY <1>1, <1>5, <1>6, <1>7, <2>1 DEF SoFarInv
<1>16. GitHub!Snapshot(issues)' \subseteq held'
  BY <1>1, <1>5 DEF SoFarInv, GitHub!Snapshot
<1>17. SoFarInv'
  BY <1>11, <1>13, <1>14, <1>15, <1>16 DEF SoFarInv
<1>18. watching' # "told"
  BY <1>1 DEF GitHub!Listing
<1> QED
  BY <1>4, <1>17, <1>18 DEF GitHubInv

\* The listing is complete, and is told.
LEMMA TellingRight ==
    ASSUME GitHubInv, GitHub!Listing, page = 0, watching' = "told", seen' = GitHub!Latest,
           UNCHANGED <<issues, page, all, held, added, shut>>,
           \A e \in told' : e.type # "closed" => \E i \in DOMAIN all : e = GitHub!Event(e.type, i),
           \A e \in told' : e.type = "closed" => e.number \notin GitHub!Listed,
           \A n \in GitHub!Steady : (\A i, j \in GitHub!Places(n) : i = j) =>
             \A d, e \in GitHub!TellsOf("opened", n)' : d = e
    PROVE  GitHubInv'
<1>1. GitHubTyped /\ SoFarInv
  BY DEF GitHubInv, InRound
<1>2. GitHubTyped'
  BY <1>1 DEF GitHubTyped
<1>3. /\ GitHub!Steady' = GitHub!Steady /\ GitHub!Listed' = GitHub!Listed
      /\ \A n : GitHub!Before(n)' = GitHub!Before(n) /\ GitHub!Places(n)' = GitHub!Places(n)
      /\ \A n : (Above(shut, n)' <=> Above(shut, n)) /\ (Above(added, n)' <=> Above(added, n))
  BY DEF GitHub!Steady, GitHub!Before, GitHub!Open, Above, GitHub!Listed, GitHub!Places
<1>4. \A n \in GitHub!Steady : ListedOrToCome(n)' /\ ListedOnce(n)'
  BY <1>1, <1>3 DEF SoFarInv, ListedOrToCome, ListedOnce
<1>5. SoFarInv'
  BY <1>1, <1>3, <1>4 DEF SoFarInv, GitHub!Snapshot
<1>6. DOMAIN seen' = GitHub!Listed
  BY DEF GitHub!Latest
<1>7. ASSUME NEW e \in told', e.type # "closed"
      PROVE  [number |-> e.number, issue |-> e.issue] \in held
  <2>1. PICK i \in DOMAIN all : e = GitHub!Event(e.type, i)
    BY <1>7
  <2>2. e.number = all[i].number /\ e.issue = all[i].issue
    BY <2>1, EventOf
  <2>3. all[i] \in Entries /\ all[i] \in held
    BY <1>1 DEF GitHubTyped, SoFarInv
  <2> QED
    BY <2>2, <2>3, EntryRecord
<1>8. ASSUME NEW n \in GitHub!Steady
      PROVE  /\ (n \in DOMAIN seen' /\ GitHub!TellsOf("closed", n)' = {}) \/ Above(shut, n)
             /\ (\A d, e \in GitHub!TellsOf("opened", n)' : d = e) \/ Above(added, n)
  <2>1. n \in GitHub!Listed \/ Above(shut, n)
    BY <1>1 DEF SoFarInv, ListedOrToCome
  <2>2. n \in GitHub!Listed => GitHub!TellsOf("closed", n)' = {}
    BY DEF GitHub!TellsOf
  <2>3. (\A i, j \in GitHub!Places(n) : i = j) \/ Above(added, n)
    BY <1>1 DEF SoFarInv, ListedOnce
  <2> QED
    BY <1>6, <2>1, <2>2, <2>3
<1>9. ToldInv'
  BY <1>3, <1>7, <1>8 DEF ToldInv
<1> QED
  BY <1>2, <1>5, <1>9 DEF GitHubInv

LEMMA LoadKeeps == GitHubInv /\ GitHub!Load => GitHubInv'
<1> SUFFICES ASSUME GitHubInv, GitHub!Load
             PROVE  GitHubInv'
  OBVIOUS
<1> DEFINE queued == {j \in DOMAIN all : "queued" \in all[j].issue.labels}
<1>1. /\ watching = "loading" /\ page = 0 /\ watching' = "told" /\ seen' = GitHub!Latest
      /\ told' = {GitHub!Event("opened", i) : i \in queued}
      /\ UNCHANGED <<issues, page, all, held, added, shut>>
  BY DEF GitHub!Load, GitHub!forge, GitHub!history
<1>2. \A e \in told' : \E i \in DOMAIN all : e = GitHub!Event("opened", i) /\ e.type = "opened"
                                             /\ e.number = all[i].number
  BY <1>1, EventOf
<1>3. ASSUME NEW n, \A i, j \in GitHub!Places(n) : i = j
      PROVE  \A d, e \in GitHub!TellsOf("opened", n)' : d = e
  <2>1. \A e \in GitHub!TellsOf("opened", n)' :
          \E i \in GitHub!Places(n) : e = GitHub!Event("opened", i)
    BY <1>2 DEF GitHub!TellsOf, GitHub!Places
  <2> QED
    BY <1>3, <2>1
<1>4. GitHub!Listing
  BY <1>1 DEF GitHub!Listing
<1>5. \A e \in told' : e.type # "closed" /\ \E i \in DOMAIN all : e = GitHub!Event(e.type, i)
  BY <1>2
<1> HIDE DEF queued
<1> QED
  BY <1>1, <1>3, <1>4, <1>5, TellingRight

LEMMA DiffAndEmitKeeps == GitHubInv /\ GitHub!DiffAndEmit => GitHubInv'
<1> SUFFICES ASSUME GitHubInv, GitHub!DiffAndEmit
             PROVE  GitHubInv'
  OBVIOUS
<1> DEFINE fresh == {GitHub!Event("opened", i) : i \in {j \in DOMAIN all : ~GitHub!IsKnown(j)}}
           gone  == {[type |-> "closed", place |-> Len(all) + 1, number |-> n, issue |-> seen[n]] :
                       n \in DOMAIN seen \ GitHub!Listed}
<1>1. /\ watching = "polling" /\ page = 0 /\ watching' = "told" /\ seen' = GitHub!Latest
      /\ told' = fresh \cup GitHub!Differs("labeled", "labels")
                   \cup GitHub!Differs("assigned", "assignees")
                   \cup GitHub!Differs("edited", "text") \cup gone
      /\ UNCHANGED <<issues, page, all, held, added, shut>>
  BY DEF GitHub!DiffAndEmit, GitHub!forge, GitHub!history
<1>2. \A e \in fresh : \E i \in DOMAIN all :
        e = GitHub!Event("opened", i) /\ e.type = "opened" /\ e.number = all[i].number
        /\ ~GitHub!IsKnown(i)
  BY EventOf
<1>3. \A type, field : \A e \in GitHub!Differs(type, field) :
        \E i \in DOMAIN all : e = GitHub!Event(type, i) /\ e.type = type
  BY EventOf DEF GitHub!Differs
<1>4. \A e \in gone : e.type = "closed" /\ e.number \notin GitHub!Listed
  OBVIOUS
<1> HIDE DEF fresh, gone
<1>5. ASSUME NEW e \in told'
      PROVE  /\ e.type # "closed" => \E i \in DOMAIN all : e = GitHub!Event(e.type, i)
             /\ e.type = "closed" => e.number \notin GitHub!Listed
             /\ e.type = "opened" => e \in fresh
  <2>1. CASE e \in fresh
    BY <1>2, <2>1
  <2>2. CASE e \in gone
    BY <1>4, <2>2
  <2>3. ASSUME NEW type \in {"labeled", "assigned", "edited"}, NEW field,
               e \in GitHub!Differs(type, field)
        PROVE  e.type = type /\ \E i \in DOMAIN all : e = GitHub!Event(e.type, i)
    BY <1>3, <2>3
  <2> QED
    BY <1>1, <2>1, <2>2, <2>3
<1>6. ASSUME NEW n
      PROVE  \A d, e \in GitHub!TellsOf("opened", n)' : d = e
  <2>1. ASSUME NEW e \in GitHub!TellsOf("opened", n)'
        PROVE  \E i \in GitHub!Places(n) :
                 e = GitHub!Event("opened", i) /\ \A j \in GitHub!Places(n) : ~(j < i)
    <3>1. e \in fresh /\ e.number = n
      BY <1>5 DEF GitHub!TellsOf
    <3>2. PICK i \in DOMAIN all : e = GitHub!Event("opened", i) /\ all[i].number = n
                                  /\ ~GitHub!IsKnown(i)
      BY <1>2, <3>1
    <3>3. i \in GitHub!Places(n) /\ \A j \in GitHub!Places(n) : ~(j < i)
      BY <3>2 DEF GitHub!IsKnown, GitHub!Earlier, GitHub!Places
    <3> QED
      BY <3>2, <3>3
  <2>2. \A i, j \in GitHub!Places(n) : ~(j < i) /\ ~(i < j) => i = j
    BY DEF GitHub!Places, GitHubInv, GitHubTyped
  <2> QED
    BY <2>1, <2>2
<1>7. GitHub!Listing
  BY <1>1 DEF GitHub!Listing
<1> QED
  BY <1>1, <1>5, <1>6, <1>7, TellingRight

\* Nothing is listed or told.
LEMMA RestingKeeps ==
    ASSUME GitHubTyped, UNCHANGED issues, watching' \in {"waiting", "ended"},
           all' = <<>> \/ all' = all, page' = 0 \/ page' = page
    PROVE  GitHubInv'
<1>1. GitHubTyped'
  <2>1. <<>> \in Seq(Entries)
    OBVIOUS
  <2>2. all' \in Seq(Entries)
    BY <2>1 DEF GitHubTyped
  <2>3. page' \in Nat
    BY DEF GitHubTyped
  <2>4. issues' \in Seq(IssueRecords)
    BY DEF GitHubTyped
  <2> QED
    BY <2>2, <2>3, <2>4 DEF GitHubTyped
<1>2. ~InRound' /\ watching' # "told"
  BY DEF InRound, GitHub!Listing
<1> QED
  BY <1>1, <1>2 DEF GitHubInv

LEMMA RestKeeps ==
    GitHubInv /\ (GitHub!FetchFails \/ GitHub!Told \/ GitHub!Cancel) => GitHubInv'
<1> SUFFICES ASSUME GitHubInv, GitHub!FetchFails \/ GitHub!Told \/ GitHub!Cancel
             PROVE  GitHubInv'
  OBVIOUS
<1>1. UNCHANGED issues /\ watching' \in {"waiting", "ended"}
  BY DEF GitHub!FetchFails, GitHub!Told, GitHub!Cancel, GitHub!NotListing, GitHub!forge
<1>2. (all' = <<>> \/ all' = all) /\ (page' = 0 \/ page' = page)
  BY DEF GitHub!FetchFails, GitHub!Told, GitHub!Cancel, GitHub!NotListing, GitHub!forge
<1> QED
  BY <1>1, <1>2, RestingKeeps DEF GitHubInv

LEMMA ListKeeps ==
    ASSUME GitHubInv, NEW as \in {"loading", "polling"}, NEW k, GitHub!List(as, k)
    PROVE  GitHubInv'
<1>1. /\ watching' = as /\ page' = 1 /\ all' = <<>> /\ UNCHANGED issues
      /\ held' = GitHub!Snapshot(issues) /\ added' = {} /\ shut' = {}
  BY DEF GitHub!List, GitHub!forge
<1>2. GitHub!Snapshot(issues)' = GitHub!Snapshot(issues)
  BY <1>1 DEF GitHub!Snapshot
<1>3. GitHubTyped' /\ GitHub!Listing'
  <2>1. <<>> \in Seq(Entries)
    OBVIOUS
  <2>2. all' \in Seq(Entries) /\ page' \in Nat /\ issues' \in Seq(IssueRecords)
    BY <1>1, <2>1 DEF GitHubInv, GitHubTyped
  <2>3. GitHub!Listing'
    BY <1>1 DEF GitHub!Listing
  <2> QED
    BY <2>2, <2>3 DEF GitHubTyped
<1>4. BeginsListing'
  BY <1>1, <1>2, <1>3 DEF BeginsListing
<1> QED
  BY <1>4, NewListing, PTL

LEMMA WatchTicks == GitHubInv /\ (GitHub!Tick \/ GitHub!Watch) => GitHubInv'
  BY ListKeeps DEF GitHub!Tick, GitHub!Watch

LEMMA GitHubStays == GitHubInv /\ UNCHANGED githubVars => GitHubInv'
<1> SUFFICES ASSUME GitHubInv, UNCHANGED githubVars
             PROVE  GitHubInv'
  OBVIOUS
<1>1. UNCHANGED <<issues, watching, seen, page, all, told, held, added, shut>>
  BY DEF githubVars
<1>2. GitHubTyped' /\ (InRound' <=> InRound)
  BY <1>1 DEF GitHubInv, GitHubTyped, InRound, GitHub!Listing
<1>3. /\ GitHub!Steady' = GitHub!Steady /\ GitHub!Listed' = GitHub!Listed /\ PageStart' = PageStart
      /\ \A n : GitHub!Before(n)' = GitHub!Before(n) /\ GitHub!Places(n)' = GitHub!Places(n)
      /\ \A n : (Above(shut, n)' <=> Above(shut, n)) /\ (Above(added, n)' <=> Above(added, n))
      /\ \A type, n : GitHub!TellsOf(type, n)' = GitHub!TellsOf(type, n)
  BY <1>1 DEF GitHub!Steady, GitHub!Before, GitHub!Open, Above, GitHub!Listed, GitHub!Places,
              PageStart, GitHub!TellsOf
<1>4. SoFarInv => SoFarInv'
  <2> SUFFICES ASSUME SoFarInv
               PROVE  SoFarInv'
    OBVIOUS
  <2>1. \A n \in GitHub!Steady : ListedOrToCome(n)' /\ ListedOnce(n)'
    BY <1>1, <1>3 DEF SoFarInv, ListedOrToCome, ListedOnce
  <2> QED
    BY <1>1, <1>3, <2>1 DEF SoFarInv, GitHub!Snapshot
<1>5. ToldInv => ToldInv'
  BY <1>1, <1>3 DEF ToldInv
<1> QED
  BY <1>1, <1>2, <1>4, <1>5 DEF GitHubInv

LEMMA GitHubKeeps == GitHubInv /\ [AnswersNext]_answersVars => GitHubInv'
<1>1. GitHubInv /\ GitHub!Next => GitHubInv'
  BY CallKeeps, FetchKeeps, LoadKeeps, DiffAndEmitKeeps, RestKeeps, WatchTicks DEF GitHub!Next
<1>2. [AnswersNext]_answersVars => GitHub!Next \/ UNCHANGED githubVars
  BY DEF AnswersNext, answersVars, Aside
<1> QED
  BY <1>1, <1>2, GitHubStays

LEMMA AtMostOne == ASSUME NEW S, \A d, e \in S : d = e PROVE Cardinality(S) <= 1
<1>1. CASE S = {}
  BY <1>1, FS_EmptySet
<1>2. CASE S # {}
  <2>1. \E e : S = {e}
    BY <1>2
  <2> QED
    BY <2>1, FS_Singleton
<1> QED
  BY <1>1, <1>2

\* What a round tells is true.
LEMMA RoundTrue == GitHubInv => GitHub!RoundIsTrue
<1> SUFFICES ASSUME GitHubInv, watching = "told"
             PROVE  GitHub!RoundIsTrue
  BY DEF GitHub!RoundIsTrue
<1>1. ToldInv
  BY DEF GitHubInv
<1>2. \A n : (\A d, e \in GitHub!TellsOf("opened", n) : d = e)
               => GitHub!Cardinality(GitHub!TellsOf("opened", n)) <= 1
  BY AtMostOne, GitHubCounts
<1> QED
  BY <1>1, <1>2 DEF GitHub!RoundIsTrue, ToldInv, Above

(***************************************************************************)
(* Sums.  A recursive function over the places of a sequence exists, and   *)
(* what holds at nought and from each place to the next holds at all.      *)
(***************************************************************************)
LEMMA Upward ==
    ASSUME NEW N \in Nat, NEW S, 0 \in S, \A i \in 0..(N - 1) : i \in S => i + 1 \in S
    PROVE  0..N \subseteq S
<1> SUFFICES ASSUME ~(0..N \subseteq S)
             PROVE  FALSE
  OBVIOUS
<1> DEFINE T == {i \in 0..N : i \notin S}
<1>1. T \in SUBSET Nat /\ T # {}
  OBVIOUS
<1>2. PICK n \in T : \A k \in T : n <= k
  BY <1>1, LeastMember
<1>3. n \in 0..N /\ n \notin S /\ n # 0
  BY <1>2
<1>4. n - 1 \in 0..(N - 1) /\ n - 1 + 1 = n
  BY <1>3
<1>5. n - 1 \in S
  BY <1>2, <1>4
<1> QED
  BY <1>3, <1>4, <1>5

\* f is the sums of the first terms of s, up to m.
SumsUpTo(f, s, m) == f = [i \in 0..m |-> IF i = 0 THEN 0 ELSE f[i - 1] + s[i]]

LEMMA SumsExist == ASSUME NEW s \in Seq(Int) PROVE \E f : SumsUpTo(f, s, Len(s))
<1> DEFINE S == {m \in 0..Len(s) : \E f : SumsUpTo(f, s, m)}
<1>1. Len(s) \in Nat
  OBVIOUS
<1>2. 0 \in S
  <2>1. SumsUpTo([i \in 0..0 |-> 0], s, 0)
    BY DEF SumsUpTo
  <2> QED
    BY <1>1, <2>1
<1>3. ASSUME NEW m \in 0..(Len(s) - 1), m \in S PROVE m + 1 \in S
  <2>1. PICK f : SumsUpTo(f, s, m)
    BY <1>3
  <2> DEFINE g == [i \in 0..(m + 1) |-> IF i <= m THEN f[i] ELSE f[m] + s[m + 1]]
  <2>2. \A i \in 0..m : f[i] = IF i = 0 THEN 0 ELSE f[i - 1] + s[i]
    BY <2>1 DEF SumsUpTo
  <2>3. ASSUME NEW i \in 0..(m + 1) PROVE g[i] = IF i = 0 THEN 0 ELSE g[i - 1] + s[i]
    <3>1. CASE i <= m
      BY <2>2, <3>1
    <3>2. CASE i = m + 1
      BY <3>2
    <3> QED
      BY <3>1, <3>2
  <2>4. g = [i \in 0..(m + 1) |-> g[i]]
    OBVIOUS
  <2> HIDE DEF g
  <2>5. SumsUpTo(g, s, m + 1)
    BY <2>3, <2>4 DEF SumsUpTo
  <2>6. m + 1 \in 0..Len(s)
    BY <1>1
  <2> QED
    BY <2>5, <2>6
<1> HIDE DEF S
<1>4. 0..Len(s) \subseteq S
  BY <1>1, <1>2, <1>3, Upward
<1> QED
  BY <1>1, <1>4 DEF S

LEMMA SumsAre ==
    ASSUME NEW s \in Seq(Int)
    PROVE  /\ \A i \in 0..Len(s) : Host!Sums(s)[i] \in Int
           /\ Host!Sums(s)[0] = 0
           /\ \A i \in 1..Len(s) : Host!Sums(s)[i] = Host!Sums(s)[i - 1] + s[i]
<1> DEFINE f == Host!Sums(s)
           S == {i \in 0..Len(s) : f[i] \in Int}
<1>1. Len(s) \in Nat /\ \A i \in 1..Len(s) : s[i] \in Int
  OBVIOUS
<1>2. f = CHOOSE g : SumsUpTo(g, s, Len(s))
  BY DEF Host!Sums, SumsUpTo
<1>3. SumsUpTo(f, s, Len(s))
  <2> HIDE DEF f
  <2> QED
    BY <1>2, SumsExist
<1> HIDE DEF f
<1>4. \A i \in 0..Len(s) : f[i] = IF i = 0 THEN 0 ELSE f[i - 1] + s[i]
  BY <1>3 DEF SumsUpTo
<1>5. f[0] = 0 /\ \A i \in 1..Len(s) : f[i] = f[i - 1] + s[i]
  BY <1>1, <1>4
<1>6. 0 \in S
  BY <1>1, <1>5
<1>7. ASSUME NEW i \in 0..(Len(s) - 1), i \in S PROVE i + 1 \in S
  <2>1. i + 1 \in 1..Len(s) /\ i + 1 - 1 = i
    BY <1>1
  <2>2. f[i + 1] = f[i] + s[i + 1]
    BY <1>5, <2>1
  <2>3. f[i] \in Int /\ s[i + 1] \in Int
    BY <1>1, <1>7, <2>1
  <2> QED
    BY <1>1, <2>1, <2>2, <2>3
<1>8. 0..Len(s) \subseteq S
  <2> HIDE DEF S
  <2> QED
    BY <1>1, <1>6, <1>7, Upward
<1> QED
  BY <1>5, <1>8 DEF f

\* How many of the first places belong to a set.
LEMMA CountsUp ==
    ASSUME NEW N \in Nat, NEW K \in SUBSET (1..N)
    PROVE  /\ \A i \in 0..N : Cardinality(K \cap (1..i)) \in Nat
           /\ Cardinality(K \cap (1..0)) = 0 /\ Cardinality(K \cap (1..N)) = Cardinality(K)
           /\ \A i \in 1..N : Cardinality(K \cap (1..i)) =
                IF i \in K THEN Cardinality(K \cap (1..(i - 1))) + 1
                           ELSE Cardinality(K \cap (1..(i - 1)))
<1>1. \A i \in Int : IsFiniteSet(K \cap (1..i))
  <2>1. \A i \in Int : IsFiniteSet(1..i)
    BY FS_Interval
  <2> QED
    BY <2>1, FS_Intersection
<1>2. \A i \in 0..N : Cardinality(K \cap (1..i)) \in Nat
  BY <1>1, FS_CardinalityType
<1>3. K \cap (1..0) = {} /\ K \cap (1..N) = K
  <2>1. 1..0 = {}
    OBVIOUS
  <2>2. K \subseteq 1..N
    OBVIOUS
  <2> QED
    BY <2>1, <2>2, Zenon
<1>4. ASSUME NEW i \in 1..N, i \in K
      PROVE  Cardinality(K \cap (1..i)) = Cardinality(K \cap (1..(i - 1))) + 1
  <2>1. K \cap (1..i) = (K \cap (1..(i - 1))) \cup {i} /\ i \notin K \cap (1..(i - 1))
    BY <1>4
  <2> QED
    BY <1>1, <2>1, FS_AddElement
<1>5. ASSUME NEW i \in 1..N, i \notin K
      PROVE  K \cap (1..i) = K \cap (1..(i - 1))
  BY <1>5
<1> QED
  BY <1>2, <1>3, <1>4, <1>5, FS_EmptySet

\* The algebra of one more point, in two steps.
LEMMA OppositeSigns == \A a, b \in Int : a <= 0 /\ b >= 0 => a * b <= 0
OBVIOUS

LEMMA PointAgainst ==
    ASSUME NEW c \in Int, NEW a \in Int, NEW b \in Int, NEW d \in Int,
           NEW u \in Int, NEW v \in Int, NEW x \in Int, NEW y \in Int
    PROVE  (d + u * v) + (c + 1) * (x * y) - x * (b + v) - y * (a + u)
             = (d + c * (x * y) - x * b - y * a) + (u - x) * (v - y)
<1> DEFINE p == x * y
<1>1. (u - x) * (v - y) = u * v - u * y - x * v + p
  OBVIOUS
<1>2. x * (b + v) = x * b + x * v /\ y * (a + u) = y * a + u * y
  OBVIOUS
<1>3. p \in Int /\ u * v \in Int /\ u * y \in Int /\ x * v \in Int /\ x * b \in Int /\ y * a \in Int
  OBVIOUS
<1> HIDE DEF p
<1>4. (c + 1) * p = c * p + p /\ c * p \in Int
  BY <1>3
<1>5. (d + u * v) + (c + 1) * p - x * (b + v) - y * (a + u)
        = (d + c * p - x * b - y * a) + (u - x) * (v - y)
  BY <1>1, <1>2, <1>3, <1>4
<1> QED
  BY <1>5 DEF p

LEMMA PointAdded ==
    ASSUME NEW c \in Int, NEW a \in Int, NEW b \in Int, NEW d \in Int, NEW x \in Int, NEW y \in Int
    PROVE  (c + 1) * (d + x * y) - (a + x) * (b + y)
             = (c * d - a * b) + (d + c * (x * y) - x * b - y * a)
OBVIOUS

\* One more point to the left of (x, y) and not below it, or none, in names of their own.
LEMMA PointBefore ==
    ASSUME NEW c \in Int, NEW a \in Int, NEW b \in Int, NEW d \in Int,
           NEW u \in Int, NEW v \in Int, NEW x \in Int, NEW y \in Int,
           u <= x, y <= v, d + c * (x * y) - x * b - y * a <= 0
    PROVE  (d + u * v) + (c + 1) * (x * y) - x * (b + v) - y * (a + u) <= 0
<1> DEFINE e == d + c * (x * y) - x * b - y * a
           f == (u - x) * (v - y)
<1>1. (d + u * v) + (c + 1) * (x * y) - x * (b + v) - y * (a + u) = e + f
  BY PointAgainst
<1>2. u - x \in Int /\ v - y \in Int /\ u - x <= 0 /\ v - y >= 0
  OBVIOUS
<1>3. f <= 0
  BY <1>2, OppositeSigns
<1>4. f \in Int
  <2> DEFINE p == u - x
             q == v - y
  <2>1. p \in Int /\ q \in Int
    OBVIOUS
  <2> HIDE DEF p, q
  <2>2. p * q \in Int
    BY <2>1
  <2> QED
    BY <2>2 DEF p, q
<1>5. e \in Int /\ e <= 0
  <2> DEFINE p == x * y
             r == x * b
             t == y * a
  <2>1. p \in Int /\ r \in Int /\ t \in Int
    OBVIOUS
  <2> HIDE DEF p, r, t
  <2>2. d + c * p - r - t \in Int
    BY <2>1
  <2> QED
    BY <2>2 DEF p, r, t
<1> HIDE DEF e, f
<1>6. e + f <= 0
  BY <1>3, <1>4, <1>5
<1> QED
  BY <1>1, <1>6

LEMMA LineFalls ==
    ASSUME NEW c \in Int, NEW a \in Int, NEW b \in Int, NEW d \in Int, NEW x \in Int, NEW y \in Int,
           c * d - a * b <= 0, d + c * (x * y) - x * b - y * a <= 0
    PROVE  (c + 1) * (d + x * y) - (a + x) * (b + y) <= 0
<1> DEFINE p == x * y
           cd == c * d
           ab == a * b
           xb == x * b
           ya == y * a
           cp == c * p
<1>1. p \in Int /\ cd \in Int /\ ab \in Int /\ xb \in Int /\ ya \in Int
  OBVIOUS
<1>2. cp \in Int
  <2> HIDE DEF p
  <2> QED
    BY <1>1
<1>3. (c + 1) * (d + x * y) - (a + x) * (b + y) = (cd - ab) + (d + cp - xb - ya)
  BY PointAdded
<1>4. cd - ab <= 0 /\ d + cp - xb - ya <= 0
  OBVIOUS
<1> HIDE DEF p, cd, ab, xb, ya, cp
<1> QED
  BY <1>1, <1>2, <1>3, <1>4

\* Values that fall as times rise are not on a rising line: C counts the points of K
\* up to a place, and A, B and D are the sums of their times, values and products.
PointsOf(N, K, x, y, A, B, C, D) ==
    /\ \A i \in 1..N : x[i] \in Int /\ y[i] \in Int
    /\ \A i, j \in K : i < j => x[i] <= x[j] /\ y[j] <= y[i]
    /\ \A i \in 0..N : C[i] \in Int /\ A[i] \in Int /\ B[i] \in Int /\ D[i] \in Int
    /\ C[0] = 0 /\ A[0] = 0 /\ B[0] = 0 /\ D[0] = 0
    /\ \A i \in 0..(N - 1) : i + 1 \in K =>
         /\ C[i + 1] = C[i] + 1 /\ A[i + 1] = A[i] + x[i + 1]
         /\ B[i + 1] = B[i] + y[i + 1] /\ D[i + 1] = D[i] + x[i + 1] * y[i + 1]
    /\ \A i \in 0..(N - 1) : i + 1 \notin K =>
         C[i + 1] = C[i] /\ A[i + 1] = A[i] /\ B[i + 1] = B[i] /\ D[i + 1] = D[i]

LEMMA PointsFall ==
    ASSUME NEW N \in Nat, NEW K \in SUBSET (1..N), NEW x, NEW y, NEW A, NEW B, NEW C, NEW D,
           PointsOf(N, K, x, y, A, B, C, D)
    PROVE  C[N] * D[N] - A[N] * B[N] <= 0
<1> USE DEF PointsOf
<1> DEFINE Q(k) == {i \in 0..N : i < k =>
                      D[i] + C[i] * (x[k] * y[k]) - x[k] * B[i] - y[k] * A[i] <= 0}
           P == {i \in 0..N : C[i] * D[i] - A[i] * B[i] <= 0}
<1>1. ASSUME NEW k \in K PROVE 0..N \subseteq Q(k)
  <2>1. k \in 1..N /\ x[k] \in Int /\ y[k] \in Int
    OBVIOUS
  <2>2. 0 \in Q(k)
    <3>1. 0 + 0 * (x[k] * y[k]) - x[k] * 0 - y[k] * 0 <= 0
      <4>1. x[k] * y[k] \in Int
        BY <2>1
      <4> QED
        BY <2>1, <4>1
    <3> QED
      BY <3>1
  <2>3. ASSUME NEW i \in 0..(N - 1), i \in Q(k) PROVE i + 1 \in Q(k)
    <3> SUFFICES ASSUME i + 1 < k
                 PROVE  D[i + 1] + C[i + 1] * (x[k] * y[k]) - x[k] * B[i + 1] - y[k] * A[i + 1] <= 0
      OBVIOUS
    <3> DEFINE c == C[i]
               a == A[i]
               b == B[i]
               d == D[i]
               u == x[i + 1]
               v == y[i + 1]
               xk == x[k]
               yk == y[k]
    <3>1. i \in 0..N /\ i + 1 \in 1..N /\ i < k
      BY <2>1
    <3>2. d + c * (xk * yk) - xk * b - yk * a <= 0
      BY <2>3, <3>1
    <3>3. c \in Int /\ a \in Int /\ b \in Int /\ d \in Int
      BY <3>1
    <3>4. u \in Int /\ v \in Int /\ xk \in Int /\ yk \in Int
      BY <2>1, <3>1
    <3>5. CASE i + 1 \in K
      <4>1. u <= xk /\ yk <= v
        BY <3>5
      <4>2. C[i + 1] = c + 1 /\ A[i + 1] = a + u /\ B[i + 1] = b + v /\ D[i + 1] = d + u * v
        BY <3>5
      <4> HIDE DEF c, a, b, d, u, v, xk, yk
      <4>3. (d + u * v) + (c + 1) * (xk * yk) - xk * (b + v) - yk * (a + u) <= 0
        BY <3>2, <3>3, <3>4, <4>1, PointBefore
      <4> QED
        BY <4>2, <4>3 DEF xk, yk
    <3>6. CASE i + 1 \notin K
      <4>1. C[i + 1] = c /\ A[i + 1] = a /\ B[i + 1] = b /\ D[i + 1] = d
        BY <3>6
      <4> HIDE DEF c, a, b, d
      <4> QED
        BY <3>2, <4>1 DEF xk, yk
    <3> QED
      BY <3>5, <3>6
  <2> HIDE DEF Q
  <2> QED
    BY <2>2, <2>3, Upward
<1>2. 0 \in P
  OBVIOUS
<1>3. ASSUME NEW i \in 0..(N - 1), i \in P PROVE i + 1 \in P
  <2> SUFFICES C[i + 1] * D[i + 1] - A[i + 1] * B[i + 1] <= 0
    OBVIOUS
  <2> DEFINE c == C[i]
             a == A[i]
             b == B[i]
             d == D[i]
             u == x[i + 1]
             v == y[i + 1]
  <2>1. i \in 0..N /\ i + 1 \in 1..N
    OBVIOUS
  <2>2. c \in Int /\ a \in Int /\ b \in Int /\ d \in Int
    BY <2>1
  <2>3. u \in Int /\ v \in Int
    BY <2>1
  <2>4. c * d - a * b <= 0
    BY <1>3
  <2>5. CASE i + 1 \in K
    <3>1. d + c * (u * v) - u * b - v * a <= 0
      <4>1. i \in Q(i + 1)
        BY <1>1, <2>1, <2>5
      <4> QED
        BY <2>1, <4>1
    <3>2. C[i + 1] = c + 1 /\ A[i + 1] = a + u /\ B[i + 1] = b + v /\ D[i + 1] = d + u * v
      BY <2>5
    <3> HIDE DEF c, a, b, d, u, v
    <3>3. (c + 1) * (d + u * v) - (a + u) * (b + v) <= 0
      BY <2>2, <2>3, <2>4, <3>1, LineFalls
    <3> QED
      BY <3>2, <3>3
  <2>6. CASE i + 1 \notin K
    <3>1. C[i + 1] = c /\ A[i + 1] = a /\ B[i + 1] = b /\ D[i + 1] = d
      BY <2>6
    <3> HIDE DEF c, a, b, d
    <3> QED
      BY <2>4, <3>1
  <2> QED
    BY <2>5, <2>6
<1>4. 0..N \subseteq P
  <2> HIDE DEF P
  <2> QED
    BY <1>2, <1>3, Upward
<1> QED
  BY <1>4

\* The same of the sums that the regression takes.
LineOf(N, K, x, y, sx, sy, sxy) ==
    /\ \A i \in 1..N : x[i] \in Int /\ y[i] \in Int
    /\ \A i, j \in K : i < j => x[i] <= x[j] /\ y[j] <= y[i]
    /\ Len(sx) = N /\ Len(sy) = N /\ Len(sxy) = N
    /\ \A i \in 1..N : /\ sx[i] = IF i \in K THEN x[i] ELSE 0
                       /\ sy[i] = IF i \in K THEN y[i] ELSE 0
                       /\ sxy[i] = IF i \in K THEN x[i] * y[i] ELSE 0

LEMMA FallingLine ==
    ASSUME NEW N \in Nat, NEW K \in SUBSET (1..N), NEW x, NEW y,
           NEW sx \in Seq(Int), NEW sy \in Seq(Int), NEW sxy \in Seq(Int),
           LineOf(N, K, x, y, sx, sy, sxy)
    PROVE  /\ Cardinality(K) * Host!Total(sxy) - Host!Total(sx) * Host!Total(sy) <= 0
           /\ Cardinality(K) \in Int
           /\ Host!Total(sxy) \in Int /\ Host!Total(sx) \in Int /\ Host!Total(sy) \in Int
<1>0. /\ \A i \in 1..N : x[i] \in Int /\ y[i] \in Int
      /\ \A i, j \in K : i < j => x[i] <= x[j] /\ y[j] <= y[i]
      /\ Len(sx) = N /\ Len(sy) = N /\ Len(sxy) = N
      /\ \A i \in 1..N : /\ sx[i] = IF i \in K THEN x[i] ELSE 0
                         /\ sy[i] = IF i \in K THEN y[i] ELSE 0
                         /\ sxy[i] = IF i \in K THEN x[i] * y[i] ELSE 0
  BY DEF LineOf
<1> DEFINE C == [i \in 0..N |-> Cardinality(K \cap (1..i))]
           A == Host!Sums(sx)
           B == Host!Sums(sy)
           D == Host!Sums(sxy)
<1>1. \A i \in 0..N : C[i] \in Int
  <2>1. \A i \in 0..N : Cardinality(K \cap (1..i)) \in Nat
    BY CountsUp
  <2> QED
    BY <2>1
<1>2. C[0] = 0 /\ C[N] = Cardinality(K)
  BY CountsUp
<1>3. \A i \in 0..(N - 1) : C[i + 1] = IF i + 1 \in K THEN C[i] + 1 ELSE C[i]
  <2> SUFFICES ASSUME NEW i \in 0..(N - 1)
               PROVE  C[i + 1] = IF i + 1 \in K THEN C[i] + 1 ELSE C[i]
    OBVIOUS
  <2>1. i \in 0..N /\ i + 1 \in 0..N /\ i + 1 \in 1..N /\ (i + 1) - 1 = i
    OBVIOUS
  <2> HIDE DEF C
  <2>2. /\ C[i + 1] = Cardinality(K \cap (1..(i + 1)))
        /\ C[i] = Cardinality(K \cap (1..((i + 1) - 1)))
    <3>1. \A k \in 0..N : C[k] = Cardinality(K \cap (1..k))
      BY DEF C
    <3>2. i \in 0..N /\ i + 1 \in 0..N /\ (i + 1) - 1 = i
      BY <2>1
    <3> QED
      BY <3>1, <3>2
  <2>3. Cardinality(K \cap (1..(i + 1))) =
          IF i + 1 \in K THEN Cardinality(K \cap (1..((i + 1) - 1))) + 1
                         ELSE Cardinality(K \cap (1..((i + 1) - 1)))
    <3>1. \A k \in 1..N : Cardinality(K \cap (1..k)) =
            IF k \in K THEN Cardinality(K \cap (1..(k - 1))) + 1
                      ELSE Cardinality(K \cap (1..(k - 1)))
      BY CountsUp
    <3> HIDE DEF A, B, D
    <3> QED
      BY <2>1, <3>1, Zenon
  <2> QED
    BY <2>1, <2>2, <2>3
<1>4. \A i \in 0..N : A[i] \in Int /\ B[i] \in Int /\ D[i] \in Int
  BY <1>0, SumsAre
<1>5. A[0] = 0 /\ B[0] = 0 /\ D[0] = 0
  BY SumsAre
<1>6. \A i \in 1..N : A[i] = A[i - 1] + sx[i] /\ B[i] = B[i - 1] + sy[i] /\ D[i] = D[i - 1] + sxy[i]
  BY <1>0, SumsAre
<1>7. Host!Total(sxy) = D[N] /\ Host!Total(sx) = A[N] /\ Host!Total(sy) = B[N]
  BY <1>0 DEF Host!Total
<1> HIDE DEF A, B, C, D
<1>8. \A i \in 0..(N - 1) :
        A[i + 1] = A[i] + sx[i + 1] /\ B[i + 1] = B[i] + sy[i + 1] /\ D[i + 1] = D[i] + sxy[i + 1]
  <2> SUFFICES ASSUME NEW i \in 0..(N - 1)
               PROVE  /\ A[i + 1] = A[i] + sx[i + 1] /\ B[i + 1] = B[i] + sy[i + 1]
                      /\ D[i + 1] = D[i] + sxy[i + 1]
    OBVIOUS
  <2>1. i + 1 \in 1..N /\ (i + 1) - 1 = i
    OBVIOUS
  <2> QED
    BY <1>6, <2>1
<1>81. \A i \in 0..(N - 1) : i + 1 \in 1..N
  OBVIOUS
<1>9. \A i \in 0..(N - 1) : i + 1 \in K =>
        /\ C[i + 1] = C[i] + 1 /\ A[i + 1] = A[i] + x[i + 1]
        /\ B[i + 1] = B[i] + y[i + 1] /\ D[i + 1] = D[i] + x[i + 1] * y[i + 1]
  BY <1>0, <1>3, <1>8, <1>81
<1>10. \A i \in 0..(N - 1) : i + 1 \notin K =>
         C[i + 1] = C[i] /\ A[i + 1] = A[i] /\ B[i + 1] = B[i] /\ D[i + 1] = D[i]
  <2> SUFFICES ASSUME NEW i \in 0..(N - 1), i + 1 \notin K
               PROVE  C[i + 1] = C[i] /\ A[i + 1] = A[i] /\ B[i + 1] = B[i] /\ D[i + 1] = D[i]
    OBVIOUS
  <2>1. i \in 0..N /\ i + 1 \in 1..N
    OBVIOUS
  <2>2. sx[i + 1] = 0 /\ sy[i + 1] = 0 /\ sxy[i + 1] = 0
    BY <1>0, <2>1
  <2>3. A[i] + 0 = A[i] /\ B[i] + 0 = B[i] /\ D[i] + 0 = D[i]
    BY <1>4, <2>1
  <2> QED
    BY <1>3, <1>8, <2>2, <2>3
<1>11. \A i \in 0..N : C[i] \in Int /\ A[i] \in Int /\ B[i] \in Int /\ D[i] \in Int
  BY <1>1, <1>4
<1>12. C[N] * D[N] - A[N] * B[N] <= 0
  <2>1. PointsOf(N, K, x, y, A, B, C, D)
    BY <1>0, <1>2, <1>5, <1>9, <1>10, <1>11 DEF PointsOf
  <2> QED
    BY <2>1, PointsFall
<1>13. N \in 0..N
  OBVIOUS
<1> QED
  BY <1>2, <1>7, <1>11, <1>12, <1>13

(***************************************************************************)
(* The host metrics: the ring buffer holds the end of the log, the oldest  *)
(* snapshot where the walk begins.                                         *)
(***************************************************************************)
Snap == [at : Nat, value : Nat \cup {-1}]

\* The slot k steps from the first one, less than twice around.
Slot(k) == IF k < Capacity THEN k ELSE k - Capacity

HostTyped ==
    /\ resource \in Host!Resources
    /\ hIdx \in 0..(Capacity - 1) /\ hFull \in BOOLEAN
    /\ history \in [0..(Capacity - 1) -> Snap]
    /\ log \in Seq(Snap)

RingHolds ==
    /\ hFull => /\ Len(log) >= Capacity
                /\ \A i \in 1..Capacity : history[Slot(hIdx + i - 1)] = log[Len(log) - Capacity + i]
    /\ ~hFull => /\ Len(log) = hIdx
                 /\ \A i \in 1..hIdx : history[i - 1] = log[i]

HostInv ==
    /\ HostTyped
    /\ \A i \in 1..Len(log) : log[i].at = i
    /\ RingHolds

LEMMA HostConstants == Capacity \in Nat /\ Capacity >= 1 /\ IdleSamples \in Nat /\ Readings \subseteq Nat
BY AnswersAssumption DEF AnswersAssumption, Host!HostAssumption

LEMMA Wraps == \A k \in 0..(2 * Capacity - 1) : k % Capacity = Slot(k) /\ Slot(k) \in 0..(Capacity - 1)
<1>1. Capacity \in Nat /\ Capacity >= 1
  BY HostConstants
<1>2. ASSUME NEW k \in 0..(2 * Capacity - 1), k < Capacity PROVE k % Capacity = k
  BY <1>1, <1>2
<1>3. ASSUME NEW k \in 0..(2 * Capacity - 1), ~(k < Capacity) PROVE k % Capacity = k - Capacity
  BY <1>1, <1>3
<1> QED
  BY <1>1, <1>2, <1>3 DEF Slot

LEMMA HostStart == Host!Init => HostInv
<1> SUFFICES ASSUME Host!Init
             PROVE  HostInv
  OBVIOUS
<1>1. Capacity \in Nat /\ Capacity >= 1
  BY HostConstants
<1>2. [at |-> 0, value |-> -1] \in Snap
  BY DEF Snap
<1>3. history \in [0..(Capacity - 1) -> Snap]
  BY <1>2 DEF Host!Init, Host!Unknown
<1>4. log = <<>> /\ hIdx = 0 /\ hFull = FALSE /\ resource \in Host!Resources
  BY DEF Host!Init
<1>5. log \in Seq(Snap) /\ Len(log) = 0
  BY <1>4
<1>6. HostTyped
  BY <1>1, <1>3, <1>4, <1>5 DEF HostTyped
<1>7. RingHolds
  BY <1>4, <1>5 DEF RingHolds
<1> QED
  BY <1>5, <1>6, <1>7 DEF HostInv

\* A collection takes the place of the oldest snapshot.
LEMMA FiguresKeep == HostInv /\ Host!Next => HostInv'
<1> SUFFICES ASSUME HostInv, Host!Collect
             PROVE  HostInv'
  BY DEF Host!Next
<1> DEFINE n == Len(log)
<1>1. Capacity \in Nat /\ Capacity >= 1 /\ Readings \subseteq Nat
  BY HostConstants
<1>2. /\ resource \in Host!Resources /\ hIdx \in 0..(Capacity - 1) /\ hFull \in BOOLEAN
      /\ history \in [0..(Capacity - 1) -> Snap] /\ log \in Seq(Snap) /\ n \in Nat
      /\ \A i \in 1..n : log[i].at = i
  BY DEF HostInv, HostTyped
<1>3. PICK v \in Readings \cup {Host!Unread(resource)} :
        /\ log' = Append(log, [at |-> n + 1, value |-> v])
        /\ history' = [history EXCEPT ![hIdx] = [at |-> n + 1, value |-> v]]
  BY DEF Host!Collect
<1> DEFINE snap == [at |-> n + 1, value |-> v]
<1>4. snap \in Snap /\ snap.at = n + 1
  <2>1. v \in Nat \cup {-1}
    BY <1>1 DEF Host!Unread, Host!Unknown
  <2> QED
    BY <1>2, <2>1 DEF Snap
<1>5. log' = Append(log, snap) /\ history' = [history EXCEPT ![hIdx] = snap]
  BY <1>3
<1> HIDE DEF snap
<1>6. /\ log' \in Seq(Snap) /\ Len(log') = n + 1 /\ log'[n + 1] = snap
      /\ \A i \in 1..n : log'[i] = log[i]
  BY <1>2, <1>4, <1>5
<1>7. /\ history' \in [0..(Capacity - 1) -> Snap] /\ history'[hIdx] = snap
      /\ \A k \in 0..(Capacity - 1) : k # hIdx => history'[k] = history[k]
  BY <1>2, <1>4, <1>5
<1>8. /\ hIdx' = (hIdx + 1) % Capacity /\ resource' = resource
      /\ hFull' = (hFull \/ hIdx + 1 >= Capacity)
  BY DEF Host!Collect
<1>9. hIdx' = IF hIdx + 1 < Capacity THEN hIdx + 1 ELSE 0
  <2>1. hIdx + 1 \in 0..(2 * Capacity - 1)
    BY <1>1, <1>2
  <2>2. (hIdx + 1) % Capacity = Slot(hIdx + 1)
    BY <2>1, Wraps
  <2> QED
    BY <1>1, <1>2, <1>8, <2>2 DEF Slot
<1>10. HostTyped'
  BY <1>1, <1>2, <1>6, <1>7, <1>8, <1>9 DEF HostTyped
<1>11. \A i \in 1..Len(log') : log'[i].at = i
  <2> SUFFICES ASSUME NEW i \in 1..Len(log')
               PROVE  log'[i].at = i
    OBVIOUS
  <2>1. CASE i = n + 1
    BY <1>4, <1>6, <2>1
  <2>2. CASE i # n + 1
    <3>1. i \in 1..n
      BY <1>2, <1>6, <2>2
    <3> QED
      BY <1>2, <1>6, <3>1
  <2> QED
    BY <2>1, <2>2
<1>12. CASE hFull
  <2>1. n >= Capacity /\ \A i \in 1..Capacity : history[Slot(hIdx + i - 1)] = log[n - Capacity + i]
    BY <1>12 DEF HostInv, RingHolds
  <2>2. ASSUME NEW i \in 1..Capacity
        PROVE  history'[Slot(hIdx' + i - 1)] = log'[n + 1 - Capacity + i]
    <3>1. CASE i = Capacity
      <4>1. Slot(hIdx' + i - 1) = hIdx
        BY <1>1, <1>2, <1>9, <3>1 DEF Slot
      <4>2. n + 1 - Capacity + i = n + 1
        BY <1>1, <1>2, <3>1
      <4> QED
        BY <1>6, <1>7, <4>1, <4>2
    <3>2. CASE i # Capacity
      <4>1. i + 1 \in 1..Capacity
        BY <1>1, <3>2
      <4>2. Slot(hIdx' + i - 1) = Slot(hIdx + (i + 1) - 1)
        BY <1>1, <1>2, <1>9, <4>1 DEF Slot
      <4>3. Slot(hIdx + (i + 1) - 1) \in 0..(Capacity - 1) /\ Slot(hIdx + (i + 1) - 1) # hIdx
        BY <1>1, <1>2, <4>1, <3>2 DEF Slot
      <4>4. n - Capacity + (i + 1) = n + 1 - Capacity + i /\ n + 1 - Capacity + i \in 1..n
        BY <1>1, <1>2, <2>1, <3>2
      <4>5. history[Slot(hIdx + (i + 1) - 1)] = log[n - Capacity + (i + 1)]
        BY <2>1, <4>1
      <4>6. history'[Slot(hIdx + (i + 1) - 1)] = history[Slot(hIdx + (i + 1) - 1)]
        BY <1>7, <4>3
      <4>7. log'[n + 1 - Capacity + i] = log[n + 1 - Capacity + i]
        BY <1>6, <4>4
      <4> QED
        BY <4>2, <4>4, <4>5, <4>6, <4>7
    <3> QED
      BY <3>1, <3>2
  <2>3. hFull' /\ Len(log') >= Capacity
    BY <1>1, <1>2, <1>6, <1>8, <1>12, <2>1
  <2>4. (\A i \in 1..Capacity : history[Slot(hIdx + i - 1)] = log[Len(log) - Capacity + i])'
    <3>1. \A i \in 1..Capacity : history'[Slot(hIdx' + i - 1)] = log'[Len(log') - Capacity + i]
      <4> SUFFICES ASSUME NEW i \in 1..Capacity
                   PROVE  history'[Slot(hIdx' + i - 1)] = log'[Len(log') - Capacity + i]
        OBVIOUS
      <4>1. Len(log') = n + 1
        BY <1>6
      <4>2. Len(log') - Capacity + i = n + 1 - Capacity + i
        BY <1>1, <1>2, <4>1
      <4>3. history'[Slot(hIdx' + i - 1)] = log'[n + 1 - Capacity + i]
        BY <2>2
      <4> QED
        BY <4>2, <4>3
    <3> QED
      BY <3>1 DEF Slot
  <2>5. RingHolds'
    BY <2>3, <2>4 DEF RingHolds
  <2> QED
    BY <1>10, <1>11, <2>5 DEF HostInv
<1>13. CASE ~hFull
  <2>1. n = hIdx /\ \A i \in 1..hIdx : history[i - 1] = log[i]
    BY <1>13 DEF HostInv, RingHolds
  <2>2. ASSUME NEW i \in 1..(hIdx + 1)
        PROVE  history'[i - 1] = log'[i]
    <3>1. CASE i = hIdx + 1
      <4>1. i - 1 = hIdx
        BY <1>2, <3>1
      <4> QED
        BY <1>6, <1>7, <2>1, <3>1, <4>1
    <3>2. CASE i # hIdx + 1
      <4>1. i \in 1..hIdx /\ i - 1 \in 0..(Capacity - 1) /\ i - 1 # hIdx
        BY <1>1, <1>2, <3>2
      <4> QED
        BY <1>6, <1>7, <2>1, <4>1
    <3> QED
      BY <3>1, <3>2
  <2>3. CASE hIdx + 1 < Capacity
    <3>1. ~hFull' /\ hIdx' = hIdx + 1 /\ Len(log') = hIdx'
      BY <1>1, <1>2, <1>6, <1>8, <1>9, <1>13, <2>1, <2>3
    <3>2. (\A i \in 1..hIdx : history[i - 1] = log[i])'
      BY <2>2, <3>1
    <3>3. RingHolds'
      BY <3>1, <3>2 DEF RingHolds
    <3> QED
      BY <1>10, <1>11, <3>3 DEF HostInv
  <2>4. CASE ~(hIdx + 1 < Capacity)
    <3>1. hFull' /\ hIdx' = 0 /\ hIdx + 1 = Capacity /\ Len(log') = Capacity
      <4>1. hIdx + 1 = Capacity
        BY <1>1, <1>2, <2>4
      <4>2. hIdx + 1 >= Capacity
        BY <1>1, <4>1
      <4>3. hFull'
        BY <1>8, <4>2
      <4>4. hIdx' = 0
        BY <1>9, <2>4
      <4>5. Len(log') = Capacity
        BY <1>6, <2>1, <4>1
      <4> QED
        BY <4>1, <4>3, <4>4, <4>5
    <3>2. ASSUME NEW i \in 1..Capacity
          PROVE  Slot(hIdx' + i - 1) = i - 1 /\ Len(log') - Capacity + i = i
      BY <1>1, <3>1, <3>2 DEF Slot
    <3>3. \A i \in 1..Capacity : history'[Slot(hIdx' + i - 1)] = log'[Len(log') - Capacity + i]
      BY <2>2, <3>1, <3>2
    <3>4. (\A i \in 1..Capacity : history[Slot(hIdx + i - 1)] = log[Len(log) - Capacity + i])'
      BY <3>3 DEF Slot
    <3>5. RingHolds'
      BY <1>1, <3>1, <3>4 DEF RingHolds
    <3> QED
      BY <1>10, <1>11, <3>5 DEF HostInv
  <2> QED
    BY <2>3, <2>4
<1> QED
  BY <1>2, <1>12, <1>13

\* The walk is the end of the log.
WalkEnds(N) ==
    /\ N \in Nat /\ N <= Len(log)
    /\ Host!Walk \in Seq(Snap) /\ Len(Host!Walk) = N
    /\ \A i \in 1..N : Host!Walk[i] \in Snap /\ Host!Walk[i].at = Len(log) - N + i

LEMMA WalkIsRecent ==
    ASSUME HostInv
    PROVE  /\ Host!Walk = Host!Recent
           /\ \E N : WalkEnds(N) /\ Host!History(Len(log) - Capacity) = 1..N
<1> DEFINE n == Len(log)
           N == IF hFull THEN Capacity ELSE hIdx
           W == Host!Walk
<1>1. Capacity \in Nat /\ Capacity >= 1
  BY HostConstants
<1>2. /\ hIdx \in 0..(Capacity - 1) /\ hFull \in BOOLEAN
      /\ history \in [0..(Capacity - 1) -> Snap] /\ log \in Seq(Snap) /\ n \in Nat
      /\ \A i \in 1..n : log[i].at = i /\ log[i] \in Snap
  BY DEF HostInv, HostTyped
<1>3. N \in Nat /\ N <= n /\ N <= Capacity /\ (n > Capacity => N = Capacity) /\ (n <= Capacity => N = n)
  <2>1. CASE hFull
    BY <1>1, <1>2, <2>1 DEF HostInv, RingHolds
  <2>2. CASE ~hFull
    BY <1>1, <1>2, <2>2 DEF HostInv, RingHolds
  <2> QED
    BY <2>1, <2>2
<1>4. W = [i \in 1..N |-> history[(Host!Start + i - 1) % Capacity]]
  BY DEF Host!Walk
<1>5. ASSUME NEW i \in 1..N PROVE history[(Host!Start + i - 1) % Capacity] = log[n - N + i]
  <2>1. CASE hFull
    <3>1. Host!Start = hIdx /\ N = Capacity
      BY <2>1 DEF Host!Start
    <3>2. i \in 1..Capacity /\ hIdx + i - 1 \in 0..(2 * Capacity - 1)
      BY <1>1, <1>2, <3>1
    <3>3. (hIdx + i - 1) % Capacity = Slot(hIdx + i - 1)
      BY <3>2, Wraps
    <3>4. history[Slot(hIdx + i - 1)] = log[n - Capacity + i]
      BY <2>1, <3>2 DEF HostInv, RingHolds
    <3> QED
      BY <3>1, <3>3, <3>4
  <2>2. CASE ~hFull
    <3>1. Host!Start = 0 /\ N = hIdx
      BY <2>2 DEF Host!Start
    <3>2. i \in 1..hIdx /\ 0 + i - 1 = i - 1 /\ i - 1 \in 0..(2 * Capacity - 1) /\ i - 1 < Capacity
      BY <1>1, <1>2, <3>1
    <3>3. (i - 1) % Capacity = i - 1
      <4>1. (i - 1) % Capacity = Slot(i - 1)
        BY <3>2, Wraps
      <4> QED
        BY <3>2, <4>1 DEF Slot
    <3>4. history[i - 1] = log[i] /\ n = hIdx
      BY <2>2, <3>2 DEF HostInv, RingHolds
    <3>5. n - N + i = i
      BY <1>2, <3>1, <3>2, <3>4
    <3> QED
      BY <3>1, <3>2, <3>3, <3>4, <3>5
  <2> QED
    BY <2>1, <2>2
<1>6. W = [i \in 1..N |-> log[n - N + i]]
  BY <1>4, <1>5
<1> HIDE DEF N, W
<1>7. \A i \in 1..N : n - N + i \in 1..n
  BY <1>2, <1>3
<1>8. \A i \in 1..N : W[i] = log[n - N + i] /\ W[i] \in Snap /\ W[i].at = n - N + i
  BY <1>2, <1>6, <1>7
<1>9. W \in Seq(Snap) /\ Len(W) = N
  <2>1. \A i \in 1..N : log[n - N + i] \in Snap
    BY <1>2, <1>7
  <2> QED
    BY <1>3, <1>6, <2>1
<1>10. W = Host!Recent
  <2>1. CASE n <= Capacity
    <3>1. N = n /\ Host!Recent = log
      BY <1>3, <2>1 DEF Host!Recent
    <3>2. \A i \in 1..n : W[i] = log[i]
      <4> SUFFICES ASSUME NEW i \in 1..n
                   PROVE  W[i] = log[i]
        OBVIOUS
      <4>1. n - N + i = i
        BY <1>2, <3>1
      <4> QED
        BY <1>8, <3>1, <4>1
    <3> QED
      BY <1>2, <1>9, <3>1, <3>2
  <2>2. CASE ~(n <= Capacity)
    <3> DEFINE R == SubSeq(log, n - Capacity + 1, n)
    <3>1. N = Capacity /\ Host!Recent = R
      BY <1>1, <1>2, <1>3, <2>2 DEF Host!Recent, Host!LastDay
    <3>2. n - Capacity + 1 \in 1..n
      BY <1>1, <1>2, <2>2
    <3>3. R \in Seq(Snap) /\ Len(R) = Capacity
      BY <1>1, <1>2, <2>2, <3>2
    <3>4. \A i \in 1..Capacity : R[i] = log[n - Capacity + i]
      BY <1>1, <1>2, <2>2, <3>2
    <3>5. \A i \in 1..Capacity : W[i] = R[i]
      BY <1>8, <3>1, <3>4
    <3> HIDE DEF R
    <3> QED
      BY <1>9, <3>1, <3>3, <3>5
  <2> QED
    BY <2>1, <2>2
<1>11. Host!History(n - Capacity) = 1..N
  <2>1. DOMAIN W = 1..N
    BY <1>9
  <2>2. \A i \in 1..N : W[i].at >= n - Capacity
    <3> SUFFICES ASSUME NEW i \in 1..N
                 PROVE  W[i].at >= n - Capacity
      OBVIOUS
    <3>1. n - N + i >= n - Capacity
      BY <1>1, <1>2, <1>3
    <3> QED
      BY <1>8, <3>1
  <2>3. Host!History(n - Capacity) = {i \in DOMAIN W : W[i].at >= n - Capacity}
    BY DEF Host!History, W
  <2> QED
    BY <2>1, <2>2, <2>3
<1>12. WalkEnds(N)
  BY <1>3, <1>8, <1>9 DEF WalkEnds, W
<1> QED
  BY <1>10, <1>11, <1>12 DEF W

\* How many of a set pass the bar: all of them or none.
LEMMA Shares ==
    ASSUME NEW N \in Nat, NEW K \in SUBSET (1..N), K # {}, NEW bar
    PROVE  /\ Cardinality(K) \in Nat /\ Cardinality(K) >= 1
           /\ Host!Share(K, bar) \in Nat
           /\ (\A i \in K : Host!Y[i] >= bar) => Host!Share(K, bar) = Cardinality(K)
           /\ (\A i \in K : ~(Host!Y[i] >= bar)) => Host!Share(K, bar) = 0
<1> DEFINE some == {i \in K : Host!Y[i] >= bar}
<1>1. IsFiniteSet(1..N)
  BY FS_Interval
<1>2. IsFiniteSet(K)
  BY <1>1, FS_Subset
<1>3. IsFiniteSet(some)
  BY <1>2, FS_Subset
<1>4. Cardinality(K) \in Nat /\ Cardinality(some) \in Nat
  BY <1>2, <1>3, FS_CardinalityType
<1>5. Cardinality(K) # 0
  BY <1>2, FS_EmptySet
<1>6. Host!Share(K, bar) = Cardinality(some)
  BY DEF Host!Share, Host!Cardinality, Cardinality
<1>7. (\A i \in K : Host!Y[i] >= bar) => some = K
  OBVIOUS
<1>8. (\A i \in K : ~(Host!Y[i] >= bar)) => some = {}
  OBVIOUS
<1>9. Cardinality({}) = 0
  BY FS_EmptySet
<1> HIDE DEF some
<1> QED
  BY <1>4, <1>5, <1>6, <1>7, <1>8, <1>9

\* The value that no other exceeds.
Peak(K) == CHOOSE v \in {Host!Y[i] : i \in K} : \A i \in K : Host!Y[i] <= v

LEMMA PeakIsMost ==
    ASSUME NEW N \in Nat, NEW K \in SUBSET (1..N), K # {}, \A i \in K : Host!Y[i] \in Nat
    PROVE  (\E i \in K : Peak(K) = Host!Y[i]) /\ \A i \in K : Host!Y[i] <= Peak(K)
<1> DEFINE Y == Host!Y
           S == {m \in 0..N : (\E i \in K : i <= m) =>
                   \E j \in K : j <= m /\ \A i \in K : i <= m => Y[i] <= Y[j]}
<1> HIDE DEF Y
<1>1. \A i \in K : Y[i] \in Nat /\ i \in 1..N
  BY DEF Y
<1>2. 0 \in S
  OBVIOUS
<1>3. ASSUME NEW m \in 0..(N - 1), m \in S PROVE m + 1 \in S
  <2> SUFFICES ASSUME \E i \in K : i <= m + 1
               PROVE  \E j \in K : j <= m + 1 /\ \A i \in K : i <= m + 1 => Y[i] <= Y[j]
    OBVIOUS
  <2>0. /\ \A i \in K : (i <= m + 1) <=> (i <= m \/ i = m + 1)
        /\ \A i \in K : i = m + 1 => i <= m + 1
    BY <1>1
  <2>1. CASE \E i \in K : i <= m
    <3>1. PICK j \in K : j <= m /\ \A i \in K : i <= m => Y[i] <= Y[j]
      BY <1>3, <2>1
    <3>2. CASE m + 1 \in K /\ Y[j] <= Y[m + 1]
      <4>1. ASSUME NEW i \in K, i <= m + 1 PROVE Y[i] <= Y[m + 1]
        <5>1. Y[i] \in Nat /\ Y[j] \in Nat /\ Y[m + 1] \in Nat
          BY <1>1, <3>2
        <5>2. CASE i = m + 1
          BY <5>1, <5>2
        <5>3. CASE i <= m
          <6>1. Y[i] <= Y[j]
            BY <3>1, <5>3
          <6> QED
            BY <3>2, <5>1, <6>1
        <5> QED
          BY <2>0, <4>1, <5>2, <5>3
      <4> QED
        BY <2>0, <3>2, <4>1
    <3>3. CASE m + 1 \in K /\ ~(Y[j] <= Y[m + 1])
      <4>1. ASSUME NEW i \in K, i <= m + 1 PROVE Y[i] <= Y[j]
        <5>1. Y[j] \in Nat /\ Y[m + 1] \in Nat
          BY <1>1, <3>3
        <5>2. CASE i = m + 1
          BY <3>3, <5>1, <5>2
        <5>3. CASE i <= m
          BY <3>1, <5>3
        <5> QED
          BY <2>0, <4>1, <5>2, <5>3
      <4>2. j <= m + 1
        BY <2>0, <3>1
      <4> QED
        BY <4>1, <4>2
    <3>4. CASE m + 1 \notin K
      <4>1. \A i \in K : i <= m + 1 => i <= m
        BY <2>0, <3>4
      <4>2. j <= m + 1
        BY <2>0, <3>1
      <4> QED
        BY <3>1, <4>1, <4>2
    <3> QED
      BY <3>2, <3>3, <3>4
  <2>2. CASE ~\E i \in K : i <= m
    <3>1. PICK j \in K : j <= m + 1
      OBVIOUS
    <3>2. \A i \in K : i <= m + 1 => i = m + 1
      BY <2>0, <2>2
    <3>3. \A i \in K : i <= m + 1 => i = j
      BY <3>1, <3>2
    <3>4. Y[j] <= Y[j]
      BY <1>1
    <3> QED
      BY <3>1, <3>3, <3>4
  <2> QED
    BY <2>1, <2>2
<1>4. N \in S
  <2> HIDE DEF S
  <2>1. 0..N \subseteq S
    BY <1>2, <1>3, Upward
  <2> QED
    BY <2>1
<1>5. PICK j \in K : \A i \in K : Y[i] <= Y[j]
  <2>1. \A i \in K : i <= N
    BY <1>1
  <2> QED
    BY <1>4, <2>1
<1>6. \E v \in {Y[i] : i \in K} : \A i \in K : Y[i] <= v
  BY <1>5
<1>7. Peak(K) = CHOOSE v \in {Y[i] : i \in K} : \A i \in K : Y[i] <= v
  BY DEF Peak, Y
<1>8. Peak(K) \in {Y[i] : i \in K} /\ \A i \in K : Y[i] <= Peak(K)
  BY <1>6, <1>7
<1> QED
  BY <1>8 DEF Y

\* A line that rises has values that do.
LEMMA RisingLine ==
    ASSUME NEW N, WalkEnds(N), NEW K \in SUBSET (1..N),
           \A i \in K : Host!Walk[i].value \in Nat,
           Host!LinearRegression(K).rise > 0
    PROVE  \E i, j \in K : i < j /\ Host!Walk[i].value < Host!Walk[j].value
<1> DEFINE W == Host!Walk
           x == Host!X
           y == Host!Y
           xy == Host!Times(x, y)
           sx == Host!Terms(x, K)
           sy == Host!Terms(y, K)
           sxy == Host!Terms(xy, K)
<1> SUFFICES ASSUME ~\E i, j \in K : i < j /\ W[i].value < W[j].value
             PROVE  FALSE
  OBVIOUS
<1>1. N \in Nat /\ DOMAIN W = 1..N
  <2>1. N \in Nat /\ W \in Seq(Snap) /\ Len(W) = N
    BY DEF WalkEnds
  <2> QED
    BY <2>1
<1>2. \A i \in 1..N : W[i].at = Len(log) - N + i /\ W[i].at \in Int /\ W[i].value \in Int
  <2> SUFFICES ASSUME NEW i \in 1..N
               PROVE  W[i].at = Len(log) - N + i /\ W[i].at \in Int /\ W[i].value \in Int
    OBVIOUS
  <2>1. W[i] \in Snap /\ W[i].at = Len(log) - N + i
    BY DEF WalkEnds
  <2>2. W[i].at \in Nat /\ W[i].value \in Nat \cup {-1}
    BY <2>1 DEF Snap
  <2> QED
    BY <2>1, <2>2
<1>3. \A i, j \in 1..N : i < j => W[i].at <= W[j].at
  <2> SUFFICES ASSUME NEW i \in 1..N, NEW j \in 1..N, i < j
               PROVE  W[i].at <= W[j].at
    OBVIOUS
  <2>1. Len(log) \in Nat
    OBVIOUS
  <2>2. Len(log) - N + i <= Len(log) - N + j
    BY <1>1, <2>1
  <2> QED
    BY <1>2, <2>2
<1>4. \A i \in 1..N : x[i] = W[i].at /\ y[i] = W[i].value
  BY <1>1 DEF Host!X, Host!Y
<1>5. \A i \in 1..N : xy[i] = x[i] * y[i]
  BY <1>1 DEF Host!Times
<1>6. /\ sx = [i \in 1..N |-> IF i \in K THEN x[i] ELSE 0]
      /\ sy = [i \in 1..N |-> IF i \in K THEN y[i] ELSE 0]
      /\ sxy = [i \in 1..N |-> IF i \in K THEN xy[i] ELSE 0]
  BY <1>1 DEF Host!Terms
<1>7. Host!LinearRegression(K).rise = Cardinality(K) * Host!Total(sxy) - Host!Total(sx) * Host!Total(sy)
  BY DEF Host!LinearRegression, Host!Cardinality, Cardinality
<1> HIDE DEF W, x, y, xy, sx, sy, sxy
<1>8. \A i \in 1..N : x[i] \in Int /\ y[i] \in Int /\ xy[i] \in Int
  <2> SUFFICES ASSUME NEW i \in 1..N
               PROVE  x[i] \in Int /\ y[i] \in Int /\ xy[i] \in Int
    OBVIOUS
  <2>1. x[i] \in Int /\ y[i] \in Int
    BY <1>2, <1>4
  <2> DEFINE u == x[i]
             v == y[i]
  <2>2. u \in Int /\ v \in Int
    BY <2>1
  <2> HIDE DEF u, v
  <2>3. u * v \in Int
    BY <2>2
  <2> QED
    BY <1>5, <2>1, <2>3 DEF u, v
<1>9. /\ sx \in Seq(Int) /\ Len(sx) = N
      /\ sy \in Seq(Int) /\ Len(sy) = N
      /\ sxy \in Seq(Int) /\ Len(sxy) = N
  <2>1. /\ \A i \in 1..N : (IF i \in K THEN x[i] ELSE 0) \in Int
        /\ \A i \in 1..N : (IF i \in K THEN y[i] ELSE 0) \in Int
        /\ \A i \in 1..N : (IF i \in K THEN xy[i] ELSE 0) \in Int
    BY <1>8
  <2>2. sx \in Seq(Int) /\ Len(sx) = N
    BY <1>1, <1>6, <2>1
  <2>3. sy \in Seq(Int) /\ Len(sy) = N
    BY <1>1, <1>6, <2>1
  <2>4. sxy \in Seq(Int) /\ Len(sxy) = N
    BY <1>1, <1>6, <2>1
  <2> QED
    BY <2>2, <2>3, <2>4
<1>10. \A i \in 1..N : /\ sx[i] = IF i \in K THEN x[i] ELSE 0
                       /\ sy[i] = IF i \in K THEN y[i] ELSE 0
                       /\ sxy[i] = IF i \in K THEN x[i] * y[i] ELSE 0
  BY <1>5, <1>6
<1>11. \A i, j \in K : i < j => x[i] <= x[j] /\ y[j] <= y[i]
  <2> SUFFICES ASSUME NEW i \in K, NEW j \in K, i < j
               PROVE  x[i] <= x[j] /\ y[j] <= y[i]
    OBVIOUS
  <2>1. i \in 1..N /\ j \in 1..N
    OBVIOUS
  <2>2. ~(W[i].value < W[j].value)
    BY DEF W
  <2>3. W[j].value <= W[i].value
    BY <1>2, <2>1, <2>2
  <2> QED
    BY <1>3, <1>4, <2>1, <2>3
<1>12. \A i \in 1..N : x[i] \in Int /\ y[i] \in Int
  BY <1>8
<1>13. /\ Cardinality(K) * Host!Total(sxy) - Host!Total(sx) * Host!Total(sy) <= 0
       /\ Cardinality(K) \in Int
       /\ Host!Total(sxy) \in Int /\ Host!Total(sx) \in Int /\ Host!Total(sy) \in Int
  <2>1. LineOf(N, K, x, y, sx, sy, sxy)
    BY <1>9, <1>10, <1>11, <1>12 DEF LineOf
  <2>2. sx \in Seq(Int) /\ sy \in Seq(Int) /\ sxy \in Seq(Int)
    BY <1>9
  <2> QED
    BY <1>1, <2>1, <2>2, FallingLine
<1>14. Cardinality(K) * Host!Total(sxy) - Host!Total(sx) * Host!Total(sy) \in Int
  <2> DEFINE a == Cardinality(K)
             b == Host!Total(sxy)
             c == Host!Total(sx)
             d == Host!Total(sy)
  <2>1. a \in Int /\ b \in Int /\ c \in Int /\ d \in Int
    BY <1>13
  <2> HIDE DEF a, b, c, d
  <2>2. a * b - c * d \in Int
    BY <2>1
  <2> QED
    BY <2>2 DEF a, b, c, d
<1>15. Host!LinearRegression(K).rise \in Int /\ Host!LinearRegression(K).rise <= 0
  BY <1>7, <1>13, <1>14
<1>16. Host!LinearRegression(K).rise > 0
  OBVIOUS
<1> QED
  BY <1>15, <1>16

LEMMA Bars ==
    ASSUME NEW r \in Host!Resources
    PROVE  /\ Host!Warn[r] \in Nat /\ Host!Crit[r] \in Nat /\ Host!Warn[r] < Host!Crit[r]
           /\ \A v \in Nat : /\ Host!AlertLevel(r, v) = "critical" <=> v >= Host!Crit[r]
                             /\ Host!AlertLevel(r, v) = "none" <=> ~(v >= Host!Warn[r])
<1>1. /\ Host!Warn[r] \in Nat /\ Host!Crit[r] \in Nat /\ Host!Warn[r] < Host!Crit[r]
  BY DEF Host!Resources, Host!Warn, Host!Crit
<1> DEFINE w == Host!Warn[r]
           c == Host!Crit[r]
<1>2. \A v : Host!AlertLevel(r, v) = CASE v >= c -> "critical"
                                      [] v >= w /\ v < c -> "warn"
                                      [] OTHER -> "none"
  BY DEF Host!AlertLevel
<1> HIDE DEF w, c
<1>3. w \in Nat /\ c \in Nat /\ w < c
  BY <1>1 DEF w, c
<1>4. \A v \in Nat : /\ Host!AlertLevel(r, v) = "critical" <=> v >= c
                     /\ Host!AlertLevel(r, v) = "none" <=> ~(v >= w)
  BY <1>2, <1>3
<1> QED
  BY <1>1, <1>4 DEF w, c

\* What is advised, of the samples of K, for a resource without a trend.
\* s holds the counts: n samples, a above the lower bar, b above the upper.
Counts(s, n, a, b) ==
    /\ s.n = n /\ s.aboveWarn = a /\ s.aboveCrit = b
    /\ n \in Nat /\ n >= 1 /\ a \in Nat /\ b \in Nat

LEMMA CpuAdvice ==
    ASSUME NEW s, NEW n, NEW a, NEW b, Counts(s, n, a, b)
    PROVE  LET advice == Host!CpuRecommendations(s) IN
           /\ b = n => advice.level = "critical"
           /\ a = n => advice.level \in {"warn", "critical"}
           /\ b = 0 => advice.level # "critical"
           /\ a = 0 /\ b = 0 => ~advice.acts
<1> DEFINE resting == Host!Calm(s, 20, 40)
           advice == Host!CpuRecommendations(s)
<1>1. n \in Nat /\ n >= 1 /\ a \in Nat /\ b \in Nat
  BY DEF Counts
<1>2. resting.level # "critical" /\ resting.acts = FALSE
  BY DEF Host!Calm, Host!Rec
<1>3. advice = CASE 100 * b >= 25 * n -> Host!Rec("critical", TRUE)
                 [] 100 * b < 25 * n /\ 100 * a >= 30 * n -> Host!Rec("warn", TRUE)
                 [] OTHER -> resting
  BY DEF Host!CpuRecommendations, Counts
<1> HIDE DEF resting, advice
<1>4. b = n => advice.level = "critical"
  BY <1>1, <1>3 DEF Host!Rec
<1>5. a = n => advice.level \in {"warn", "critical"}
  <2>1. CASE 100 * b >= 25 * n
    BY <1>1, <1>3, <2>1 DEF Host!Rec
  <2>2. CASE ~(100 * b >= 25 * n)
    <3>1. 100 * b < 25 * n /\ 100 * n >= 30 * n
      BY <1>1, <2>2
    <3>2. a = n => advice = Host!Rec("warn", TRUE)
      BY <1>3, <2>2, <3>1
    <3> QED
      BY <3>2 DEF Host!Rec
  <2> QED
    BY <2>1, <2>2
<1>6. b = 0 => advice.level # "critical"
  BY <1>1, <1>2, <1>3 DEF Host!Rec
<1>7. a = 0 /\ b = 0 => ~advice.acts
  <2>1. ~(100 * 0 >= 25 * n) /\ ~(100 * 0 >= 30 * n)
    BY <1>1
  <2>2. a = 0 /\ b = 0 => advice = resting
    BY <1>3, <2>1
  <2> QED
    BY <1>2, <2>2, Zenon
<1> QED
  BY <1>4, <1>5, <1>6, <1>7 DEF advice

LEMMA RamAdvice ==
    ASSUME NEW s, NEW n, NEW a, NEW b, Counts(s, n, a, b)
    PROVE  LET advice == Host!RamRecommendations(s) IN
           /\ b = n => advice.level = "critical"
           /\ a = n => advice.level \in {"warn", "critical"}
           /\ b = 0 => advice.level # "critical"
           /\ a = 0 /\ b = 0 => ~advice.acts
<1> DEFINE resting == Host!Calm(s, 30, 50)
           advice == Host!RamRecommendations(s)
<1>1. n \in Nat /\ n >= 1 /\ a \in Nat /\ b \in Nat
  BY DEF Counts
<1>2. resting.level # "critical" /\ resting.acts = FALSE
  BY DEF Host!Calm, Host!Rec
<1>3. advice = CASE 100 * b >= 20 * n -> Host!Rec("critical", TRUE)
                 [] 100 * b < 20 * n /\ 100 * a >= 25 * n -> Host!Rec("warn", TRUE)
                 [] OTHER -> resting
  BY DEF Host!RamRecommendations, Counts
<1> HIDE DEF resting, advice
<1>4. b = n => advice.level = "critical"
  BY <1>1, <1>3 DEF Host!Rec
<1>5. a = n => advice.level \in {"warn", "critical"}
  <2>1. CASE 100 * b >= 20 * n
    BY <1>1, <1>3, <2>1 DEF Host!Rec
  <2>2. CASE ~(100 * b >= 20 * n)
    <3>1. 100 * b < 20 * n /\ 100 * n >= 25 * n
      BY <1>1, <2>2
    <3>2. a = n => advice = Host!Rec("warn", TRUE)
      BY <1>3, <2>2, <3>1
    <3> QED
      BY <3>2 DEF Host!Rec
  <2> QED
    BY <2>1, <2>2
<1>6. b = 0 => advice.level # "critical"
  BY <1>1, <1>2, <1>3 DEF Host!Rec
<1>7. a = 0 /\ b = 0 => ~advice.acts
  <2>1. ~(100 * 0 >= 20 * n) /\ ~(100 * 0 >= 25 * n)
    BY <1>1
  <2>2. a = 0 /\ b = 0 => advice = resting
    BY <1>3, <2>1
  <2> QED
    BY <1>2, <2>2, Zenon
<1> QED
  BY <1>4, <1>5, <1>6, <1>7 DEF advice

\* For swap the peak has its say too.
LEMMA SwapAdvice ==
    ASSUME NEW s, NEW n, NEW a, NEW b, Counts(s, n, a, b)
    PROVE  LET advice == Host!SwapRecommendations(s) IN
           /\ b = n /\ s.peak >= 25 => advice.level = "critical"
           /\ a = n /\ s.peak >= 25 => advice.level \in {"warn", "critical"}
           /\ b = 0 => advice.level # "critical"
           /\ a = 0 /\ b = 0 => ~advice.acts
<1> DEFINE high == s.peak >= 25
           advice == Host!SwapRecommendations(s)
<1>1. n \in Nat /\ n >= 1 /\ a \in Nat /\ b \in Nat
  BY DEF Counts
<1>2. advice = CASE high /\ 100 * b >= 10 * n -> Host!Rec("critical", TRUE)
                 [] 100 * b < 10 * n /\ 100 * a >= 15 * n -> Host!Rec("warn", TRUE)
                 [] OTHER -> Host!Rec("none", FALSE)
  BY DEF Host!SwapRecommendations, Counts, Host!Warn
<1> HIDE DEF high, advice
<1>4. b = n /\ high => advice.level = "critical"
  BY <1>1, <1>2 DEF Host!Rec
<1>5. a = n /\ high => advice.level \in {"warn", "critical"}
  BY <1>1, <1>2 DEF Host!Rec
<1>6. b = 0 => advice.level # "critical"
  BY <1>1, <1>2 DEF Host!Rec
<1>7. a = 0 /\ b = 0 => ~advice.acts
  BY <1>1, <1>2 DEF Host!Rec
<1> QED
  BY <1>4, <1>5, <1>6, <1>7 DEF advice, high

\* For the disk the peak and the trend, where rounding leaves one to see.
LEMMA DiskAdvice ==
    ASSUME NEW s, NEW K, s.peak \in Nat
    PROVE  LET advice == Host!DiskRecommendations(s, K) IN
           /\ s.peak >= 85 => advice.level = "critical"
           /\ ~(s.peak >= 85) /\ (advice.level = "critical" \/ advice.acts) =>
                Host!LinearRegression(K).rise > 0 \/ Host!Cancels(K)
<1> DEFINE advice == Host!DiskRecommendations(s, K)
           rises == Host!LinearRegression(K).rise > 0
           blind == Host!Cancels(K)
           soon == Host!MeetsWithin(K, 85, 14)
           warns == Host!MeetsWithin(K, 70, 30)
           later == Host!MeetsWithin(K, 85, 90)
<1>1. (soon => rises) /\ (warns => rises) /\ (later => rises)
  <2>1. \A bar, days : Host!MeetsWithin(K, bar, days) => rises
    BY DEF Host!MeetsWithin
  <2> QED
    BY <2>1
<1>2. advice = IF s.peak >= 85 THEN Host!Rec("critical", TRUE)
               ELSE IF blind THEN rounding
               ELSE IF soon THEN Host!Rec("critical", TRUE)
               ELSE IF warns THEN Host!Rec("warn", TRUE) ELSE Host!Rec("info", later)
  BY DEF Host!DiskRecommendations, Host!Crit, Host!Warn
<1> HIDE DEF advice, rises, blind, soon, warns, later
<1>3. s.peak >= 85 => advice.level = "critical"
  BY <1>2 DEF Host!Rec
<1>4. ~(s.peak >= 85) /\ ~blind /\ ~soon /\ ~warns => advice.level = "info" /\ advice.acts = later
  BY <1>2 DEF Host!Rec
<1> QED
  BY <1>1, <1>3, <1>4 DEF advice, rises, blind

\* The advice agrees with the alerts, on all that was collected.
LEMMA AdviceRight == HostInv => Host!AdviceFollowsAlerts
<1> SUFFICES ASSUME HostInv
             PROVE  Host!AdviceFollowsAlerts
  OBVIOUS
<1> DEFINE W == Host!Walk
           R == Host!Recent
           values == {R[i].value : i \in DOMAIN R} \ {Host!Unknown}
           read == {Host!AlertLevel(resource, v) : v \in values}
           advice == Host!HandleHostMetrics
           rising == \E i, j \in DOMAIN R :
                       i < j /\ Host!Unknown # R[i].value /\ R[i].value < R[j].value
           close == Host!Cancels(Host!Known(DOMAIN W))
           Agrees == /\ read = {"critical"} => advice.level = "critical"
                     /\ read \subseteq {"warn", "critical"} /\ resource # "disk"
                          => advice.level \in {"warn", "critical"}
                     /\ "critical" \notin read /\ advice.level = "critical"
                          => resource = "disk" /\ (rising \/ close)
                     /\ read = {"none"} /\ advice.acts => resource = "disk" /\ (rising \/ close)
<1>1. W = R
  BY WalkIsRecent
<1>2. PICK N : WalkEnds(N) /\ Host!History(Len(log) - Capacity) = 1..N
  BY WalkIsRecent
<1>3. N \in Nat /\ DOMAIN W = 1..N /\ Len(W) = N
  <2>1. N \in Nat /\ W \in Seq(Snap) /\ Len(W) = N
    BY <1>2 DEF WalkEnds
  <2> QED
    BY <2>1
<1>4. \A i \in 1..N : W[i].value \in Nat \cup {-1}
  <2> SUFFICES ASSUME NEW i \in 1..N
               PROVE  W[i].value \in Nat \cup {-1}
    OBVIOUS
  <2>1. W[i] \in Snap
    BY <1>2 DEF WalkEnds
  <2> QED
    BY <2>1 DEF Snap
<1> DEFINE K == Host!Known(1..N)
<1>5. K = {i \in 1..N : W[i].value # -1}
  BY DEF Host!Known, Host!Unknown
<1>6. \A i \in 1..N : Host!Y[i] = W[i].value
  BY <1>3 DEF Host!Y
<1>7. \A i \in K : Host!Y[i] \in Nat /\ W[i].value \in Nat
  BY <1>4, <1>5, <1>6
<1>8. values = {Host!Y[i] : i \in K}
  <2>1. values = {W[i].value : i \in 1..N} \ {-1}
    BY <1>1, <1>3 DEF Host!Unknown
  <2> QED
    BY <1>5, <1>6, <2>1
<1>9. read = {Host!AlertLevel(resource, Host!Y[i]) : i \in K}
  BY <1>8
<1>10. resource \in Host!Resources
  BY DEF HostInv, HostTyped
<1>11. (\E i, j \in K : i < j /\ W[i].value < W[j].value) => rising
  BY <1>1, <1>3, <1>5 DEF Host!Unknown
<1>12. K \in SUBSET (1..N)
  BY <1>5
<1>13. ASSUME Len(R) >= 2, read # {} PROVE Agrees
  <2> DEFINE r == resource
             s == Host!ComputeStats(r, K)
             n == Cardinality(K)
             a == Host!Share(K, Host!Warn[r])
             b == Host!Share(K, Host!Crit[r])
  <2>1. K # {}
    BY <1>9, <1>13
  <2>2. Cardinality(1..N) >= 2
    <3>1. N >= 2
      BY <1>1, <1>3, <1>13
    <3>2. Cardinality(1..N) = N
      BY <1>3, FS_Interval
    <3> QED
      BY <3>1, <3>2
  <2>3. advice = CASE r = "cpu"  -> Host!CpuRecommendations(s)
                   [] r = "ram"  -> Host!RamRecommendations(s)
                   [] r = "disk" -> Host!DiskRecommendations(s, K)
                   [] r = "swap" -> Host!SwapRecommendations(s)
    <3>1. advice = Host!AnalyzeHistory(r, 1..N)
      BY <1>2 DEF Host!HandleHostMetrics
    <3>2. ~(Host!Cardinality(1..N) < 2)
      <4>1. Host!Cardinality(1..N) = Cardinality(1..N)
        BY DEF Host!Cardinality, Cardinality
      <4>2. Cardinality(1..N) \in Nat
        BY <1>3, FS_Interval, FS_CardinalityType
      <4> QED
        BY <2>2, <4>1, <4>2
    <3> QED
      BY <2>1, <3>1, <3>2 DEF Host!AnalyzeHistory
  <2>4. Counts(s, n, a, b) /\ s.peak = Peak(K)
    <3>1. n \in Nat /\ n >= 1 /\ a \in Nat /\ b \in Nat
      BY <1>3, <1>12, <2>1, Shares
    <3>2. s.n = n /\ s.aboveWarn = a /\ s.aboveCrit = b /\ s.peak = Peak(K)
      BY DEF Host!ComputeStats, Host!Cardinality, Cardinality, Peak
    <3> QED
      BY <3>1, <3>2 DEF Counts
  <2>5. /\ (\A i \in K : Host!Y[i] >= Host!Warn[r]) => a = n
        /\ (\A i \in K : ~(Host!Y[i] >= Host!Warn[r])) => a = 0
        /\ (\A i \in K : Host!Y[i] >= Host!Crit[r]) => b = n
        /\ (\A i \in K : ~(Host!Y[i] >= Host!Crit[r])) => b = 0
    BY <1>3, <1>12, <2>1, Shares
  <2>6. \A i \in K : /\ Host!AlertLevel(r, Host!Y[i]) = "critical" <=> Host!Y[i] >= Host!Crit[r]
                     /\ Host!AlertLevel(r, Host!Y[i]) = "none" <=> ~(Host!Y[i] >= Host!Warn[r])
                     /\ Host!AlertLevel(r, Host!Y[i]) \in read
    BY <1>7, <1>9, <1>10, Bars
  <2>7. Host!Warn[r] \in Nat /\ Host!Crit[r] \in Nat /\ Host!Warn[r] < Host!Crit[r]
    BY <1>10, Bars
  <2>8. read = {"critical"} => \A i \in K : Host!Y[i] >= Host!Crit[r]
    BY <2>6
  <2>9. read \subseteq {"warn", "critical"} => \A i \in K : Host!Y[i] >= Host!Warn[r]
    BY <2>6
  <2>10. "critical" \notin read => \A i \in K : ~(Host!Y[i] >= Host!Crit[r])
    BY <2>6
  <2>11. read = {"none"} => /\ \A i \in K : ~(Host!Y[i] >= Host!Warn[r])
                            /\ \A i \in K : ~(Host!Y[i] >= Host!Crit[r])
    <3>1. read = {"none"} => \A i \in K : ~(Host!Y[i] >= Host!Warn[r])
      BY <2>6
    <3>2. read = {"none"} => "critical" \notin read
      OBVIOUS
    <3> QED
      BY <2>10, <3>1, <3>2
  <2>12. /\ read = {"critical"} => b = n
         /\ read \subseteq {"warn", "critical"} => a = n
         /\ "critical" \notin read => b = 0
         /\ read = {"none"} => a = 0 /\ b = 0
    BY <2>5, <2>8, <2>9, <2>10, <2>11, Zenon
  <2>13. (\E i \in K : Peak(K) = Host!Y[i]) /\ \A i \in K : Host!Y[i] <= Peak(K)
    BY <1>3, <1>7, <1>12, <2>1, PeakIsMost
  <2>14. /\ Peak(K) \in Nat
         /\ (\A i \in K : Host!Y[i] >= Host!Crit[r]) => Peak(K) >= Host!Crit[r]
         /\ (\A i \in K : Host!Y[i] >= Host!Warn[r]) => Peak(K) >= Host!Warn[r]
         /\ (\A i \in K : ~(Host!Y[i] >= Host!Crit[r])) => ~(Peak(K) >= Host!Crit[r])
    <3>1. PICK i \in K : Peak(K) = Host!Y[i]
      BY <2>13
    <3> QED
      BY <1>7, <3>1
  <2>15. r = "cpu" \/ r = "ram" \/ r = "disk" \/ r = "swap"
    BY <1>10 DEF Host!Resources
  <2>16. Host!LinearRegression(K).rise > 0 => rising
    BY <1>2, <1>7, <1>11, <1>12, RisingLine
  <2>22. Host!Cancels(K) => close
    BY <1>3
  <2>17. Host!Warn["swap"] = 25 /\ Host!Crit["disk"] = 85
    BY DEF Host!Warn, Host!Crit
  <2> HIDE DEF s, n, a, b, advice, read, rising, close, K
  <2>18. CASE r = "cpu"
    <3>1. advice = Host!CpuRecommendations(s)
      BY <2>3, <2>18
    <3>2. /\ b = n => advice.level = "critical"
          /\ a = n => advice.level \in {"warn", "critical"}
          /\ b = 0 => advice.level # "critical"
          /\ a = 0 /\ b = 0 => ~advice.acts
      BY <2>4, <3>1, CpuAdvice
    <3> QED
      BY <2>12, <3>2, Zenon
  <2>19. CASE r = "ram"
    <3>1. advice = Host!RamRecommendations(s)
      BY <2>3, <2>19
    <3>2. /\ b = n => advice.level = "critical"
          /\ a = n => advice.level \in {"warn", "critical"}
          /\ b = 0 => advice.level # "critical"
          /\ a = 0 /\ b = 0 => ~advice.acts
      BY <2>4, <3>1, RamAdvice
    <3> QED
      BY <2>12, <3>2, Zenon
  <2>20. CASE r = "swap"
    <3>1. advice = Host!SwapRecommendations(s)
      BY <2>3, <2>20
    <3>2. /\ b = n /\ s.peak >= 25 => advice.level = "critical"
          /\ a = n /\ s.peak >= 25 => advice.level \in {"warn", "critical"}
          /\ b = 0 => advice.level # "critical"
          /\ a = 0 /\ b = 0 => ~advice.acts
      BY <2>4, <3>1, SwapAdvice
    <3>3. read \subseteq {"warn", "critical"} => s.peak >= 25
      BY <2>4, <2>9, <2>14, <2>17, <2>20
    <3>4. read = {"critical"} => s.peak >= 25
      BY <3>3
    <3> QED
      BY <2>12, <3>2, <3>3, <3>4, Zenon
  <2>21. CASE r = "disk"
    <3>1. advice = Host!DiskRecommendations(s, K)
      BY <2>3, <2>21
    <3>2. /\ s.peak >= 85 => advice.level = "critical"
          /\ ~(s.peak >= 85) /\ (advice.level = "critical" \/ advice.acts) =>
               Host!LinearRegression(K).rise > 0 \/ Host!Cancels(K)
      BY <2>4, <2>14, <3>1, DiskAdvice
    <3>3. read = {"critical"} => s.peak >= 85
      BY <2>4, <2>8, <2>14, <2>17, <2>21
    <3>4. "critical" \notin read => ~(s.peak >= 85)
      BY <2>4, <2>10, <2>14, <2>17, <2>21
    <3>5. read = {"none"} => "critical" \notin read
      OBVIOUS
    <3> QED
      BY <2>16, <2>21, <2>22, <3>2, <3>3, <3>4, <3>5, Zenon
  <2> QED
    BY <2>15, <2>18, <2>19, <2>20, <2>21
<1>14. Host!AdviceFollowsAlerts <=>
         W = R /\ (Len(R) >= 2 /\ read # {} => Agrees)
  <2> HIDE DEF W, R, advice
  <2> QED
    BY DEF Host!AdviceFollowsAlerts, W, R, advice
<1> HIDE DEF W, R, read, Agrees
<1> QED
  BY <1>1, <1>13, <1>14

\* The other parts leave the host's figures alone.
LEMMA HostStarts == AnswersInit => HostInv
BY HostStart DEF AnswersInit

LEMMA HostStays == HostInv /\ [AnswersNext]_answersVars => HostInv'
<1> SUFFICES ASSUME HostInv, [AnswersNext]_answersVars
             PROVE  HostInv'
  OBVIOUS
<1>1. CASE UNCHANGED hostVars
  BY <1>1 DEF hostVars, HostInv, HostTyped, RingHolds
<1>2. Host!Next \/ UNCHANGED hostVars
  BY DEF AnswersNext, Aside, answersVars
<1> QED
  BY <1>1, <1>2, FiguresKeep

(***************************************************************************)
(* The excerpts.                                                           *)
(***************************************************************************)
LEMMA ExcerptConstants ==
    /\ MaxLength \in Nat /\ MaxBody \in Nat
    /\ ForgeLimit \in Nat /\ ForgeLimit >= 1 /\ MaxLimit \in Nat /\ MaxLimit >= 1
    /\ DefaultLimit \in Nat /\ DefaultLimit >= 1
BY AnswersAssumption DEF AnswersAssumption, Excerpt!ExcerptAssumption

LEMMA LinesExact ==
    ASSUME question \in Excerpt!LineQuestions, answer = Excerpt!HandleReadFile
    PROVE  Excerpt!LinesRight
<1> DEFINE n == question.length
           a == question.start
           b == question.end
           end == IF b <= 0 THEN n ELSE Excerpt!Smaller(b, n)
           first == IF a <= 0 THEN 1 ELSE Excerpt!Smaller(a, n)
           start == Excerpt!Smaller(first, end)
           wanted == {l \in 1..n : (a > 0 => l >= a) /\ (b > 0 => l <= b)}
<1>1. n \in Nat /\ n >= 1 /\ a \in Int /\ b \in Int
  BY ExcerptConstants DEF Excerpt!LineQuestions, Excerpt!Numbers, Excerpt!Absent
<1>2. answer = IF a > 0 \/ b > 0 THEN [i \in 1..(end - start + 1) |-> start + i - 1]
               ELSE [i \in 1..n |-> i]
  BY DEF Excerpt!HandleReadFile
<1>3. /\ end = IF b <= 0 THEN n ELSE IF b < n THEN b ELSE n
      /\ first = IF a <= 0 THEN 1 ELSE IF a < n THEN a ELSE n
      /\ start = IF first < end THEN first ELSE end
  BY DEF Excerpt!Smaller
<1> HIDE DEF n, a, b, end, first, start
<1>4. end \in 1..n /\ first \in 1..n /\ start \in 1..n /\ start <= end
  BY <1>1, <1>3
<1>5. /\ \A i \in 2..Len(answer) : answer[i - 1] < answer[i]
      /\ IF wanted = {} THEN Len(answer) = 1 ELSE {answer[i] : i \in DOMAIN answer} = wanted
  <2>1. CASE a > 0 \/ b > 0
    <3>1. answer = [i \in 1..(end - start + 1) |-> start + i - 1]
      BY <1>2, <2>1
    <3>2. Len(answer) = end - start + 1 /\ DOMAIN answer = 1..(end - start + 1)
      BY <1>1, <1>4, <3>1
    <3>3. \A i \in 1..(end - start + 1) : answer[i] = start + i - 1
      BY <3>1
    <3>4. \A i \in 2..Len(answer) : answer[i - 1] < answer[i]
      <4> SUFFICES ASSUME NEW i \in 2..(end - start + 1)
                   PROVE  answer[i - 1] < answer[i]
        BY <3>2
      <4>1. i \in 1..(end - start + 1) /\ i - 1 \in 1..(end - start + 1)
        BY <1>1, <1>4
      <4>2. answer[i] = start + i - 1 /\ answer[i - 1] = start + (i - 1) - 1
        BY <3>3, <4>1
      <4> QED
        BY <1>4, <4>2
    <3>5. CASE wanted = {}
      <4>1. start = end
        <5> SUFFICES ASSUME start # end
                     PROVE  FALSE
          OBVIOUS
        <5>1. start = first /\ first < end
          BY <1>3, <1>4
        <5>2. start \in 1..n /\ (a > 0 => start >= a) /\ (b > 0 => start <= b)
          BY <1>1, <1>3, <1>4, <5>1
        <5> QED
          BY <3>5, <5>2
      <4>2. end - start + 1 = 1
        BY <1>4, <4>1
      <4> QED
        BY <3>2, <3>4, <3>5, <4>2
    <3>6. CASE wanted # {}
      <4>1. start = first
        <5>1. PICK l \in 1..n : (a > 0 => l >= a) /\ (b > 0 => l <= b)
          BY <3>6
        <5>2. first <= l /\ l <= end
          BY <1>1, <1>3, <5>1
        <5> QED
          BY <1>1, <1>3, <1>4, <5>1, <5>2
      <4>2. \A l \in 1..n : l \in wanted <=> start <= l /\ l <= end
        <5>1. a > 0 => a <= n
          BY <1>1, <3>6
        <5>2. first = IF a <= 0 THEN 1 ELSE a
          BY <1>1, <1>3, <5>1
        <5>3. \A l \in 1..n : (b > 0 => l <= b) <=> l <= end
          BY <1>1, <1>3
        <5> QED
          BY <1>1, <4>1, <5>2, <5>3
      <4>3. {answer[i] : i \in DOMAIN answer} \subseteq wanted
        <5> SUFFICES ASSUME NEW i \in 1..(end - start + 1)
                     PROVE  answer[i] \in wanted
          BY <3>2
        <5>1. answer[i] = start + i - 1
          BY <3>3
        <5>2. start + i - 1 \in 1..n /\ start <= start + i - 1 /\ start + i - 1 <= end
          BY <1>1, <1>4
        <5> QED
          BY <4>2, <5>1, <5>2
      <4>4. wanted \subseteq {answer[i] : i \in DOMAIN answer}
        <5> SUFFICES ASSUME NEW l \in wanted
                     PROVE  \E i \in 1..(end - start + 1) : answer[i] = l
          BY <3>2
        <5>1. l \in 1..n /\ start <= l /\ l <= end
          BY <4>2
        <5>2. l - start + 1 \in 1..(end - start + 1) /\ start + (l - start + 1) - 1 = l
          BY <1>1, <1>4, <5>1
        <5> QED
          BY <3>3, <5>2
      <4> QED
        BY <3>4, <3>6, <4>3, <4>4
    <3> QED
      BY <3>5, <3>6
  <2>2. CASE ~(a > 0 \/ b > 0)
    <3>1. answer = [i \in 1..n |-> i]
      BY <1>2, <2>2
    <3>2. wanted = 1..n /\ 1 \in wanted
      BY <1>1, <2>2
    <3>3. Len(answer) = n /\ DOMAIN answer = 1..n /\ \A i \in 1..n : answer[i] = i
      BY <1>1, <3>1
    <3>4. \A i \in 2..Len(answer) : answer[i - 1] < answer[i]
      <4> SUFFICES ASSUME NEW i \in 2..n
                   PROVE  answer[i - 1] < answer[i]
        BY <3>3
      <4>1. i \in 1..n /\ i - 1 \in 1..n
        BY <1>1
      <4> QED
        BY <3>3, <4>1
    <3>5. {answer[i] : i \in DOMAIN answer} = wanted
      BY <3>2, <3>3
    <3> QED
      BY <3>2, <3>4, <3>5
  <2> QED
    BY <2>1, <2>2
<1>6. Excerpt!Range(answer) = {answer[i] : i \in DOMAIN answer}
  BY DEF Excerpt!Range
<1> QED
  BY <1>5, <1>6 DEF Excerpt!LinesRight, n, a, b

\* A sequence of sequences, written out one after the other.
FlatUpTo(f, s, m) == f = [i \in 1..m |-> IF i = 1 THEN s[i] ELSE f[i - 1] \o s[i]]

LEMMA FlatExist ==
    ASSUME NEW S, NEW s \in Seq(Seq(S)), Len(s) >= 1
    PROVE  \E f : FlatUpTo(f, s, Len(s)) /\ \A i \in 1..Len(s) : f[i] \in Seq(S)
<1> DEFINE n == Len(s)
           Holds(f, m) == FlatUpTo(f, s, m) /\ \A i \in 1..m : f[i] \in Seq(S)
           T == {k \in 0..(n - 1) : \E f : Holds(f, k + 1)}
<1>1. n \in Nat /\ n >= 1 /\ \A i \in 1..n : s[i] \in Seq(S)
  OBVIOUS
<1>2. 0 \in T
  <2> DEFINE g == [i \in 1..1 |-> s[1]]
  <2>1. \A i \in 1..1 : g[i] = (IF i = 1 THEN s[i] ELSE g[i - 1] \o s[i])
    OBVIOUS
  <2>2. g = [i \in 1..1 |-> IF i = 1 THEN s[i] ELSE g[i - 1] \o s[i]]
    BY <2>1
  <2>3. \A i \in 1..1 : g[i] \in Seq(S)
    BY <1>1
  <2> HIDE DEF g
  <2>4. Holds(g, 0 + 1)
    BY <2>2, <2>3 DEF FlatUpTo
  <2> QED
    BY <1>1, <2>4
<1>3. ASSUME NEW k \in 0..(n - 2), k \in T PROVE k + 1 \in T
  <2> DEFINE m == k + 1
  <2>1. PICK f : Holds(f, m)
    BY <1>3
  <2>2. m \in Nat /\ m >= 1 /\ m + 1 \in 1..n /\ m \in 0..(n - 1)
    BY <1>1
  <2> HIDE DEF m
  <2> DEFINE g == [i \in 1..(m + 1) |-> IF i <= m THEN f[i] ELSE f[m] \o s[m + 1]]
  <2>3. \A i \in 1..m : f[i] \in Seq(S)
    BY <2>1
  <2>4. \A i \in 1..m : f[i] = IF i = 1 THEN s[i] ELSE f[i - 1] \o s[i]
    <3>1. f = [i \in 1..m |-> IF i = 1 THEN s[i] ELSE f[i - 1] \o s[i]]
      BY <2>1 DEF FlatUpTo
    <3> QED
      BY <3>1
  <2>5. \A i \in 1..(m + 1) : g[i] = IF i = 1 THEN s[i] ELSE g[i - 1] \o s[i]
    <3> SUFFICES ASSUME NEW i \in 1..(m + 1)
                 PROVE  g[i] = IF i = 1 THEN s[i] ELSE g[i - 1] \o s[i]
      OBVIOUS
    <3>1. CASE i <= m
      <4>1. i \in 1..m /\ g[i] = f[i]
        BY <2>2, <3>1
      <4>2. i # 1 => i - 1 \in 1..(m + 1) /\ i - 1 <= m
        BY <2>2, <3>1
      <4>3. i # 1 => g[i - 1] = f[i - 1]
        BY <4>2
      <4> QED
        BY <2>4, <4>1, <4>3
    <3>2. CASE ~(i <= m)
      <4>1. i = m + 1 /\ i # 1 /\ i - 1 = m /\ m \in 1..(m + 1)
        BY <2>2, <3>2
      <4>2. g[i] = f[m] \o s[m + 1]
        BY <3>2, <4>1
      <4>3. g[m] = f[m]
        BY <2>2, <4>1
      <4> QED
        BY <4>1, <4>2, <4>3
    <3> QED
      BY <3>1, <3>2
  <2>6. \A i \in 1..(m + 1) : g[i] \in Seq(S)
    <3>1. f[m] \in Seq(S) /\ s[m + 1] \in Seq(S)
      BY <1>1, <2>2, <2>3
    <3>2. f[m] \o s[m + 1] \in Seq(S)
      BY <3>1
    <3> QED
      BY <2>2, <2>3, <3>2
  <2>7. g = [i \in 1..(m + 1) |-> g[i]]
    OBVIOUS
  <2> HIDE DEF g
  <2>8. Holds(g, m + 1)
    BY <2>5, <2>6, <2>7 DEF FlatUpTo
  <2> QED
    BY <2>2, <2>8 DEF m
<1>4. 0..(n - 1) \subseteq T
  <2> HIDE DEF T
  <2>1. n - 1 \in Nat /\ n - 1 - 1 = n - 2
    BY <1>1
  <2> QED
    BY <1>2, <1>3, <2>1, Upward
<1>5. n - 1 \in T /\ n - 1 + 1 = n
  <2>1. n - 1 \in 0..(n - 1) /\ n - 1 + 1 = n
    BY <1>1
  <2> HIDE DEF T
  <2> QED
    BY <1>4, <2>1
<1>6. \E f : Holds(f, n)
  BY <1>5
<1> QED
  BY <1>6

LEMMA Flattened ==
    ASSUME NEW S, NEW s \in Seq(Seq(S)), Len(s) >= 1
    PROVE  Excerpt!FlattenSeq(s) \in Seq(S)
<1> DEFINE f == CHOOSE g : FlatUpTo(g, s, Len(s))
<1>1. FlatUpTo(f, s, Len(s))
  BY FlatExist
<1>2. PICK g : FlatUpTo(g, s, Len(s)) /\ \A i \in 1..Len(s) : g[i] \in Seq(S)
  BY FlatExist
<1>3. Excerpt!FlattenSeq(s) = f[Len(s)]
  BY DEF Excerpt!FlattenSeq, FlatUpTo
<1> HIDE DEF f
<1> DEFINE T == {i \in 0..(Len(s) - 1) : f[i + 1] = g[i + 1]}
<1>4. \A i \in 1..Len(s) : /\ f[i] = IF i = 1 THEN s[i] ELSE f[i - 1] \o s[i]
                           /\ g[i] = IF i = 1 THEN s[i] ELSE g[i - 1] \o s[i]
  <2>1. /\ f = [i \in 1..Len(s) |-> IF i = 1 THEN s[i] ELSE f[i - 1] \o s[i]]
        /\ g = [i \in 1..Len(s) |-> IF i = 1 THEN s[i] ELSE g[i - 1] \o s[i]]
    BY <1>1, <1>2 DEF FlatUpTo
  <2> QED
    BY <2>1
<1>5. Len(s) \in Nat /\ Len(s) >= 1
  OBVIOUS
<1>6. 0 \in T
  <2>1. 0 + 1 = 1 /\ 1 \in 1..Len(s) /\ 0 \in 0..(Len(s) - 1)
    BY <1>5
  <2>2. f[1] = s[1] /\ g[1] = s[1]
    BY <1>4, <2>1
  <2> QED
    BY <2>1, <2>2
<1>7. ASSUME NEW i \in 0..(Len(s) - 1 - 1), i \in T PROVE i + 1 \in T
  <2>1. f[i + 1] = g[i + 1]
    BY <1>7
  <2>2. i + 1 + 1 \in 1..Len(s) /\ i + 1 + 1 # 1 /\ i + 1 + 1 - 1 = i + 1 /\ i + 1 \in 0..(Len(s) - 1)
    BY <1>5
  <2> DEFINE j == i + 1 + 1
  <2>3. j \in 1..Len(s) /\ j # 1 /\ j - 1 = i + 1
    BY <2>2
  <2> HIDE DEF j
  <2>4. f[j] = f[j - 1] \o s[j] /\ g[j] = g[j - 1] \o s[j]
    BY <1>4, <2>3
  <2>5. f[j] = g[j]
    BY <2>1, <2>3, <2>4
  <2> QED
    BY <2>2, <2>5 DEF j
<1>8. 0..(Len(s) - 1) \subseteq T
  <2> HIDE DEF T
  <2>1. Len(s) - 1 \in Nat
    BY <1>5
  <2> QED
    BY <1>6, <1>7, <2>1, Upward
<1>9. f[Len(s)] = g[Len(s)] /\ Len(s) \in 1..Len(s)
  <2>1. Len(s) - 1 \in 0..(Len(s) - 1) /\ Len(s) - 1 + 1 = Len(s) /\ Len(s) \in 1..Len(s)
    BY <1>5
  <2>2. Len(s) - 1 \in T
    <3> HIDE DEF T
    <3> QED
      BY <1>8, <2>1
  <2> QED
    BY <2>1, <2>2
<1> QED
  BY <1>2, <1>3, <1>9

\* The pages.  All is what a client that walks through them should see, Size how
\* much of it one page shows.
Positions == Nat \X Nat
All == IF question.registry THEN Excerpt!ListIssuesFromAllProjects
       ELSE [i \in 1..question.projects[1] |-> <<1, i>>]
Size == IF question.registry THEN Excerpt!Limit ELSE Excerpt!Smaller(Excerpt!Limit, ForgeLimit)

PagesAsked ==
    /\ question \in Excerpt!PageQuestions
    /\ question.registry \/ Len(question.projects) = 1

LEMMA LeastOf == \A a, b \in Nat : /\ Excerpt!Smaller(a, b) \in Nat
                                   /\ Excerpt!Smaller(a, b) <= a /\ Excerpt!Smaller(a, b) <= b
                                   /\ Excerpt!Smaller(a, b) = a \/ Excerpt!Smaller(a, b) = b
BY DEF Excerpt!Smaller

LEMMA LimitIs ==
    ASSUME PagesAsked
    PROVE  /\ Excerpt!Limit \in Nat /\ Excerpt!Limit >= 1
           /\ Size \in Nat /\ Size >= 1
           /\ question.registry \in BOOLEAN
           /\ DOMAIN question.projects = 1..Len(question.projects)
           /\ Len(question.projects) \in Nat /\ Len(question.projects) >= 1
           /\ \A p \in DOMAIN question.projects : question.projects[p] \in Nat
<1>1. question \in Excerpt!PageQuestions
  BY DEF PagesAsked
<1>2. question.registry \in BOOLEAN /\ question.limit \in Int
  BY <1>1, ExcerptConstants DEF Excerpt!PageQuestions, Excerpt!Numbers, Excerpt!Absent
<1>3. Excerpt!Limit \in Nat /\ Excerpt!Limit >= 1
  BY <1>2, ExcerptConstants DEF Excerpt!Limit, Excerpt!Smaller
<1>4. Size \in Nat /\ Size >= 1
  BY <1>3, ExcerptConstants DEF Size, Excerpt!Smaller
<1>5. question.projects \in {<<n>> : n \in 0..MaxLength} \cup ((0..MaxLength) \X (0..MaxLength))
  BY <1>1 DEF Excerpt!PageQuestions
<1>6. /\ DOMAIN question.projects = 1..Len(question.projects)
      /\ Len(question.projects) \in Nat /\ Len(question.projects) >= 1
      /\ \A p \in DOMAIN question.projects : question.projects[p] \in Nat
  <2>1. CASE \E n \in 0..MaxLength : question.projects = <<n>>
    BY <2>1, ExcerptConstants
  <2>2. CASE \E n, m \in 0..MaxLength : question.projects = <<n, m>>
    BY <2>2, ExcerptConstants
  <2> QED
    BY <1>5, <2>1, <2>2
<1> QED
  BY <1>2, <1>3, <1>4, <1>6

\* A page of the forge.
LEMMA ForgePage ==
    ASSUME NEW p \in Nat, question.projects[p] \in Nat, NEW k \in Nat, NEW per \in Nat
    PROVE  LET size == Excerpt!Smaller(per, ForgeLimit)
               n == question.projects[p]
               from == k * size
               to == Excerpt!Smaller(from + size, n) IN
           /\ from \in Nat /\ size \in Nat /\ to \in Nat
           /\ Excerpt!ListIssues(p, k + 1, per) =
                [i \in 1..(IF from < to THEN to - from ELSE 0) |-> <<p, from + i>>]
           /\ Excerpt!ListIssues(p, k + 1, per) \in Seq(Positions)
<1> DEFINE size == Excerpt!Smaller(per, ForgeLimit)
           n == question.projects[p]
           from == k * size
           to == Excerpt!Smaller(from + size, n)
           page1 == Excerpt!ListIssues(p, k + 1, per)
<1>1. size \in Nat
  BY ExcerptConstants DEF Excerpt!Smaller
<1>2. from \in Nat
  <2> HIDE DEF size
  <2> QED
    BY <1>1
<1>3. k + 1 - 1 = k
  OBVIOUS
<1>4. page1 = [i \in 1..(IF from < to THEN to - from ELSE 0) |-> <<p, from + i>>]
  BY <1>3 DEF Excerpt!ListIssues
<1> HIDE DEF from, size, page1
<1>5. to \in Nat
  BY <1>1, <1>2 DEF Excerpt!Smaller
<1> HIDE DEF to
<1>6. page1 \in Seq(Positions)
  <2> DEFINE m == IF from < to THEN to - from ELSE 0
  <2>1. m \in Nat
    BY <1>2, <1>5
  <2> HIDE DEF m
  <2>2. \A i \in 1..m : <<p, from + i>> \in Positions
    BY <1>2, <2>1 DEF Positions
  <2>3. page1 = [i \in 1..m |-> <<p, from + i>>]
    BY <1>4 DEF m
  <2> QED
    BY <2>1, <2>2, <2>3
<1> QED
  BY <1>1, <1>2, <1>4, <1>5, <1>6 DEF from, size, to, page1

LEMMA AllInSequence ==
    ASSUME PagesAsked
    PROVE  All \in Seq(Positions)
<1> DEFINE q == question.projects
<1>1. /\ question.registry \in BOOLEAN /\ DOMAIN q = 1..Len(q) /\ Len(q) \in Nat /\ Len(q) >= 1
      /\ \A p \in DOMAIN q : q[p] \in Nat
  BY LimitIs
<1>2. CASE question.registry
  <2> DEFINE s == [p \in DOMAIN q |-> Excerpt!ListIssues(p, 1, MaxLimit)]
  <2>1. \A p \in 1..Len(q) : Excerpt!ListIssues(p, 1, MaxLimit) \in Seq(Positions)
    <3> SUFFICES ASSUME NEW p \in 1..Len(q)
                 PROVE  Excerpt!ListIssues(p, 1, MaxLimit) \in Seq(Positions)
      OBVIOUS
    <3>1. p \in Nat /\ q[p] \in Nat /\ 0 \in Nat /\ 0 + 1 = 1
      BY <1>1
    <3>2. Excerpt!ListIssues(p, 0 + 1, MaxLimit) \in Seq(Positions)
      BY <3>1, ForgePage, ExcerptConstants
    <3> QED
      BY <3>1, <3>2
  <2>2. s = [p \in 1..Len(q) |-> Excerpt!ListIssues(p, 1, MaxLimit)]
    BY <1>1
  <2>3. s \in Seq(Seq(Positions)) /\ Len(s) = Len(q)
    <3> HIDE DEF s
    <3> QED
      BY <1>1, <2>1, <2>2
  <2>4. All = Excerpt!FlattenSeq(s)
    BY <1>2 DEF All, Excerpt!ListIssuesFromAllProjects
  <2> HIDE DEF s
  <2> QED
    BY <1>1, <2>3, <2>4, Flattened
<1>3. CASE ~question.registry
  <2>1. All = [i \in 1..q[1] |-> <<1, i>>] /\ q[1] \in Nat
    BY <1>1, <1>3 DEF All
  <2>2. \A i \in 1..q[1] : <<1, i>> \in Positions
    BY <2>1 DEF Positions
  <2> QED
    BY <2>1, <2>2
<1> QED
  BY <1>1, <1>2, <1>3

\* What the client is shown the next time.
LEMMA PageIs ==
    ASSUME PagesAsked, NEW k \in Nat
    PROVE  /\ k * Size \in Nat /\ (k + 1) * Size = k * Size + Size
           /\ Excerpt!HandleListIssues(Excerpt!Offset(k + 1)) =
                SubSeq(All, Excerpt!Smaller(k * Size, Len(All)) + 1,
                            Excerpt!Smaller(k * Size + Size, Len(All)))
<1> DEFINE L == Excerpt!Limit
           offset == Excerpt!Offset(k + 1)
           n == question.projects[1]
<1>1. /\ L \in Nat /\ L >= 1 /\ Size \in Nat /\ Size >= 1
      /\ question.registry \in BOOLEAN /\ n \in Nat
  BY LimitIs
<1>2. k * Size \in Nat /\ (k + 1) * Size = k * Size + Size
  BY <1>1
<1>3. offset = k * L
  BY DEF Excerpt!Offset
<1>4. CASE question.registry
  <2>1. Size = L /\ All = Excerpt!ListIssuesFromAllProjects
    BY <1>4 DEF Size, All
  <2>2. Excerpt!HandleListIssues(offset) =
          SubSeq(All, Excerpt!Smaller(offset, Len(All)) + 1, Excerpt!Smaller(offset + L, Len(All)))
    BY <1>4, <2>1 DEF Excerpt!HandleListIssues
  <2> QED
    BY <1>2, <1>3, <2>1, <2>2
<1>5. CASE ~question.registry
  <2>1. Size = Excerpt!Smaller(L, ForgeLimit) /\ All = [i \in 1..n |-> <<1, i>>]
    BY <1>5 DEF Size, All
  <2>2. Excerpt!Page(offset) = k + 1
    <3>1. Excerpt!Page(offset) = (k * L) \div L + 1
      BY <1>3 DEF Excerpt!Page
    <3> HIDE DEF L
    <3>2. (k * L) \div L = k
      BY <1>1
    <3> QED
      BY <3>1, <3>2
  <2>3. Excerpt!HandleListIssues(offset) = Excerpt!ListIssues(1, k + 1, L)
    BY <1>5, <2>2 DEF Excerpt!HandleListIssues
  <2> DEFINE from == k * Size
             to == Excerpt!Smaller(from + Size, n)
             shown == Excerpt!ListIssues(1, k + 1, L)
  <2>4. /\ from \in Nat /\ to \in Nat
        /\ shown = [i \in 1..(IF from < to THEN to - from ELSE 0) |-> <<1, from + i>>]
    <3> DEFINE size == Excerpt!Smaller(L, ForgeLimit)
               f == k * size
               t == Excerpt!Smaller(f + size, n)
    <3>1. 1 \in Nat /\ L \in Nat /\ n \in Nat
      BY <1>1
    <3>2. /\ f \in Nat /\ t \in Nat
          /\ shown = [i \in 1..(IF f < t THEN t - f ELSE 0) |-> <<1, f + i>>]
      <4> HIDE DEF L
      <4> QED
        BY <3>1, ForgePage
    <3>3. f = from /\ t = to
      BY <2>1
    <3> HIDE DEF f, t, from, to, shown
    <3> QED
      BY <3>2, <3>3
  <2> HIDE DEF L, n, from, shown
  <2>5. to = IF from + Size < n THEN from + Size ELSE n
    BY DEF Excerpt!Smaller
  <2>6. Len(All) = n
    BY <1>1, <2>1
  <2> DEFINE m == Excerpt!Smaller(from, n)
             cut == SubSeq(All, m + 1, to)
  <2>7. m = IF from < n THEN from ELSE n
    BY DEF Excerpt!Smaller
  <2> HIDE DEF m, to
  <2>8. cut = [i \in 1..(1 + to - (m + 1)) |-> All[i + (m + 1) - 1]]
    BY <1>1, <2>4, <2>7
  <2>9. CASE from < n
    <3>1. m = from /\ from < to /\ 1 + to - (m + 1) = to - from /\ to <= n
      BY <1>1, <2>4, <2>5, <2>7, <2>9
    <3>2. ASSUME NEW i \in 1..(to - from) PROVE All[i + (m + 1) - 1] = <<1, from + i>>
      <4>1. i + (m + 1) - 1 = from + i /\ from + i \in 1..n
        BY <1>1, <2>4, <3>1
      <4> QED
        BY <2>1, <4>1
    <3>3. cut = [i \in 1..(to - from) |-> <<1, from + i>>]
      BY <2>8, <3>1, <3>2
    <3> QED
      BY <1>2, <2>3, <2>4, <2>6, <3>1, <3>3 DEF from, to, m, shown, L
  <2>10. CASE ~(from < n)
    <3>1. m = n /\ ~(from < to) /\ to = n /\ 1 + to - (m + 1) = 0
      BY <1>1, <2>4, <2>5, <2>7, <2>10
    <3>2. 1..0 = {}
      OBVIOUS
    <3>3. cut = [i \in 1..0 |-> <<1, from + i>>]
      BY <2>8, <3>1, <3>2
    <3> QED
      BY <1>2, <2>3, <2>4, <2>6, <3>1, <3>3 DEF from, to, m, shown, L
  <2> QED
    BY <2>9, <2>10
<1> QED
  BY <1>1, <1>4, <1>5

PagesShown == answer = SubSeq(All, 1, Excerpt!Smaller(asked * Size, Len(All)))

\* The ends of a page are in the sequence, in order.
LEMMA PageEnds ==
    ASSUME NEW n \in Nat, NEW c \in Nat, NEW z \in Nat, z >= 1
    PROVE  LET a == Excerpt!Smaller(c, n)
               b == Excerpt!Smaller(c + z, n) IN
           /\ a \in 0..n /\ b \in a..n
           /\ b <= a => a = n /\ b = n
BY DEF Excerpt!Smaller

LEMMA PagesGoOn ==
    ASSUME PagesAsked, asked \in Nat, PagesShown
    PROVE  answer \o Excerpt!HandleListIssues(Excerpt!Offset(asked + 1))
             = SubSeq(All, 1, Excerpt!Smaller((asked + 1) * Size, Len(All)))
<1> DEFINE n == Len(All)
           c == asked * Size
           a == Excerpt!Smaller(c, n)
           b == Excerpt!Smaller(c + Size, n)
<1>1. All \in Seq(Positions) /\ n \in Nat
  <2>1. All \in Seq(Positions)
    BY AllInSequence
  <2> QED
    BY <2>1
<1>2. c \in Nat /\ (asked + 1) * Size = c + Size
  BY PageIs
<1>3. Excerpt!HandleListIssues(Excerpt!Offset(asked + 1)) = SubSeq(All, a + 1, b)
  BY PageIs
<1>4. Size \in Nat /\ Size >= 1
  BY LimitIs
<1> HIDE DEF c
<1>5. a \in 0..n /\ b \in a..n
  BY <1>1, <1>2, <1>4, PageEnds
<1>6. answer = SubSeq(All, 1, a)
  BY DEF PagesShown, c
<1> HIDE DEF a, b
<1>7. SubSeq(All, 1, a) \o SubSeq(All, a + 1, b) = SubSeq(All, 1, b)
  <2>1. 1 \in 1..(n + 1) /\ a \in (1 - 1)..n /\ b \in a..n
    BY <1>1, <1>5
  <2> QED
    BY <1>1, <2>1, ConcatAdjacentSubSeq
<1> QED
  BY <1>2, <1>3, <1>6, <1>7 DEF b

LEMMA FlattenOne ==
    ASSUME NEW S, NEW s \in Seq(Seq(S)), Len(s) = 1
    PROVE  Excerpt!FlattenSeq(s) = s[1]
<1> DEFINE f == CHOOSE g : FlatUpTo(g, s, Len(s))
<1>1. FlatUpTo(f, s, Len(s))
  <2>1. Len(s) >= 1
    OBVIOUS
  <2>2. \E g : FlatUpTo(g, s, Len(s))
    BY <2>1, FlatExist
  <2> QED
    BY <2>2
<1>2. Excerpt!FlattenSeq(s) = f[Len(s)]
  BY DEF Excerpt!FlattenSeq, FlatUpTo
<1> HIDE DEF f
<1>3. f = [i \in 1..1 |-> IF i = 1 THEN s[i] ELSE f[i - 1] \o s[i]]
  BY <1>1 DEF FlatUpTo
<1>4. f[1] = s[1]
  BY <1>3
<1> QED
  BY <1>2, <1>4

\* What the client should see is what the property says.
Shown(p) == IF question.registry
              THEN Excerpt!Smaller(question.projects[p], Excerpt!Smaller(MaxLimit, ForgeLimit))
              ELSE question.projects[p]

LEMMA AllShown ==
    ASSUME PagesAsked
    PROVE  Excerpt!FlattenSeq([p \in DOMAIN question.projects |->
                                 [i \in 1..Shown(p) |-> <<p, i>>]]) = All
<1> DEFINE q == question.projects
           s == [p \in DOMAIN q |-> [i \in 1..Shown(p) |-> <<p, i>>]]
<1>1. /\ question.registry \in BOOLEAN /\ DOMAIN q = 1..Len(q) /\ Len(q) \in Nat /\ Len(q) >= 1
      /\ \A p \in DOMAIN q : q[p] \in Nat
  BY LimitIs
<1>2. CASE question.registry
  <2>1. ASSUME NEW p \in DOMAIN q
        PROVE  [i \in 1..Shown(p) |-> <<p, i>>] = Excerpt!ListIssues(p, 1, MaxLimit)
    <3> DEFINE size == Excerpt!Smaller(MaxLimit, ForgeLimit)
               to == Excerpt!Smaller(0 + size, q[p])
               first == Excerpt!ListIssues(p, 1, MaxLimit)
    <3>1. size \in Nat /\ size >= 1 /\ q[p] \in Nat
      BY <1>1, ExcerptConstants DEF Excerpt!Smaller
    <3>2. (1 - 1) * size = 0
      <4> HIDE DEF size
      <4> QED
        BY <3>1
    <3>3. first = [i \in 1..(IF 0 < to THEN to - 0 ELSE 0) |-> <<p, 0 + i>>]
      BY <3>2 DEF Excerpt!ListIssues
    <3>4. Shown(p) = Excerpt!Smaller(q[p], size)
      BY <1>2 DEF Shown
    <3> HIDE DEF size, first
    <3>5. to = Shown(p) /\ to \in Nat
      BY <3>1, <3>4 DEF Excerpt!Smaller
    <3> HIDE DEF to
    <3>6. (IF 0 < to THEN to - 0 ELSE 0) = to
      BY <3>5
    <3>7. \A i \in 1..to : 0 + i = i
      BY <3>5
    <3>8. first = [i \in 1..to |-> <<p, i>>]
      BY <3>3, <3>6, <3>7
    <3> QED
      BY <3>5, <3>8 DEF first
  <2>2. s = [p \in DOMAIN q |-> Excerpt!ListIssues(p, 1, MaxLimit)]
    BY <2>1
  <2>3. All = Excerpt!FlattenSeq([p \in DOMAIN q |-> Excerpt!ListIssues(p, 1, MaxLimit)])
    BY <1>2 DEF All, Excerpt!ListIssuesFromAllProjects
  <2> HIDE DEF s
  <2>4. Excerpt!FlattenSeq(s) = All
    BY <2>2, <2>3
  <2> QED
    BY <2>4 DEF s
<1>3. CASE ~question.registry
  <2>1. All = [i \in 1..q[1] |-> <<1, i>>] /\ Len(q) = 1 /\ DOMAIN q = 1..1
    BY <1>1, <1>3 DEF All, PagesAsked
  <2>2. s = [p \in 1..1 |-> [i \in 1..q[p] |-> <<p, i>>]]
    BY <1>3, <2>1 DEF Shown
  <2>3. All \in Seq(Positions)
    BY AllInSequence
  <2>4. s[1] = All
    BY <2>1, <2>2
  <2>5. s = [p \in 1..1 |-> s[p]] /\ \A p \in 1..1 : s[p] \in Seq(Positions)
    <3>1. s = [p \in 1..1 |-> s[p]]
      BY <2>2
    <3>2. \A p \in 1..1 : p = 1
      OBVIOUS
    <3> HIDE DEF s
    <3>3. \A p \in 1..1 : s[p] \in Seq(Positions)
      BY <2>3, <2>4, <3>2
    <3> QED
      BY <3>1, <3>3
  <2> HIDE DEF s
  <2>6. s \in Seq(Seq(Positions)) /\ Len(s) = 1
    <3>1. 1 \in Nat
      OBVIOUS
    <3> QED
      BY <2>5, <3>1
  <2>7. Excerpt!FlattenSeq(s) = s[1]
    BY <2>6, FlattenOne
  <2> QED
    BY <2>4, <2>7 DEF s
<1> QED
  BY <1>1, <1>2, <1>3

LEMMA PagesExact ==
    ASSUME PagesAsked, asked \in Nat, PagesShown
    PROVE  Excerpt!PagesRight
<1> DEFINE n == Len(All)
           a == Excerpt!Smaller(asked * Size, n)
<1>1. All \in Seq(Positions) /\ n \in Nat
  <2>1. All \in Seq(Positions)
    BY AllInSequence
  <2> QED
    BY <2>1
<1>2. asked * Size \in Nat /\ Size \in Nat /\ Size >= 1
  BY LimitIs, PageIs
<1>3. a \in 0..n
  BY <1>1, <1>2, PageEnds
<1>4. answer = SubSeq(All, 1, a)
  BY DEF PagesShown
<1> HIDE DEF a
<1>5. answer \in Seq(Positions) /\ Len(answer) = a
  BY <1>1, <1>3, <1>4
<1>6. Excerpt!IsPrefix(answer, All)
  <2>1. SubSeq(answer, 1, Len(answer)) = answer
    BY <1>5, SubSeqFull
  <2>2. Len(answer) <= Len(All)
    BY <1>1, <1>3, <1>5
  <2> QED
    BY <1>4, <1>5, <2>1, <2>2 DEF Excerpt!IsPrefix
<1>7. ASSUME Excerpt!WalkedThrough PROVE answer = All
  <2> DEFINE k == asked - 1
             c == k * Size
             b == Excerpt!Smaller(c, n)
             d == Excerpt!Smaller(c + Size, n)
  <2>1. k \in Nat /\ k + 1 = asked
    BY <1>7 DEF Excerpt!WalkedThrough
  <2>2. Excerpt!HandleListIssues(Excerpt!Offset(k + 1)) = <<>>
    BY <1>7, <2>1 DEF Excerpt!WalkedThrough
  <2> HIDE DEF k
  <2>3. /\ c \in Nat /\ (k + 1) * Size = c + Size
        /\ Excerpt!HandleListIssues(Excerpt!Offset(k + 1)) = SubSeq(All, b + 1, d)
    BY <2>1, PageIs
  <2>4. SubSeq(All, b + 1, d) = <<>>
    BY <2>2, <2>3
  <2> HIDE DEF c
  <2>5. b \in 0..n /\ d \in b..n /\ (d <= b => d = n)
    BY <1>1, <1>2, <2>3, PageEnds
  <2>6. a = d
    BY <2>1, <2>3 DEF a
  <2> HIDE DEF b, d
  <2>7. d <= b
    <3> SUFFICES ASSUME b < d
                 PROVE  FALSE
      BY <1>1, <2>5
    <3>1. Len(SubSeq(All, b + 1, d)) = d - b
      BY <1>1, <2>5
    <3>2. Len(SubSeq(All, b + 1, d)) = 0
      <4>1. Len(<<>>) = 0
        OBVIOUS
      <4> QED
        BY <2>4, <4>1, Zenon
    <3> QED
      BY <1>1, <2>5, <3>1, <3>2
  <2>8. answer = SubSeq(All, 1, n)
    BY <1>4, <2>5, <2>6, <2>7
  <2> QED
    BY <1>1, <2>8, SubSeqFull
<1>8. Excerpt!FlattenSeq([p \in DOMAIN question.projects |-> [i \in 1..Shown(p) |-> <<p, i>>]]) = All
  BY AllShown
<1>9. Excerpt!PagesRight <=> Excerpt!IsPrefix(answer, All) /\ (Excerpt!WalkedThrough => answer = All)
  BY <1>8 DEF Excerpt!PagesRight, Shown
<1> QED
  BY <1>6, <1>7, <1>9

\* The diff: two patches, the second from line Second on.
DiffAsked == question \in Excerpt!DiffQuestions
FirstLen == Len(question.first.body)
Second == FirstLen + 4
Last == FirstLen + Len(question.second.body) + 6
Head1 == 1..(FirstLen + 3)
Head2 == Second..Last

LEMMA BodyIs ==
    ASSUME NEW p \in Excerpt!Patches
    PROVE  /\ p.file \in Files /\ Len(p.body) \in Nat /\ DOMAIN p.body = 1..Len(p.body)
           /\ \A i \in 1..Len(p.body) : p.body[i] \in {"+", "-", "---", "+++"}
<1>1. p.file \in Files /\ p.body \in Excerpt!Bodies
  BY DEF Excerpt!Patches
<1>2. PICK n \in 0..MaxBody : p.body \in [1..n -> {"+", "-", "---", "+++"}]
  BY <1>1 DEF Excerpt!Bodies
<1>3. n \in Nat
  BY <1>2, ExcerptConstants
<1>4. p.body \in Seq({"+", "-", "---", "+++"}) /\ Len(p.body) = n /\ DOMAIN p.body = 1..n
  BY <1>2, <1>3
<1> QED
  BY <1>1, <1>2, <1>3, <1>4

Marks == {"diff --git", "---", "+++", "+", "-"}

\* A mark and a file at every line of a patch.
LEMMA PatchIs ==
    ASSUME NEW p \in Excerpt!Patches
    PROVE  LET n == Len(p.body)
               P == Excerpt!Patch(p) IN
           /\ n \in Nat /\ P \in Seq([file : Files, mark : Marks]) /\ Len(P) = n + 3
           /\ \A i \in 1..(n + 3) : P[i].file = p.file
           /\ P[1].mark = "diff --git" /\ P[2].mark = "---" /\ P[3].mark = "+++"
           /\ \A i \in 1..n : P[i + 3].mark = p.body[i]
<1> DEFINE n == Len(p.body)
           P == Excerpt!Patch(p)
           line(i) == [file |-> p.file, mark |-> CASE i = 1 -> "diff --git"
                                                   [] i = 2 -> "---"
                                                   [] i = 3 -> "+++"
                                                   [] OTHER -> p.body[i - 3]]
<1>1. p.file \in Files /\ n \in Nat /\ \A i \in 1..n : p.body[i] \in {"+", "-", "---", "+++"}
  BY BodyIs
<1>2. P = [i \in 1..(n + 3) |-> line(i)]
  BY DEF Excerpt!Patch
<1>3. /\ line(1) = [file |-> p.file, mark |-> "diff --git"]
      /\ line(2) = [file |-> p.file, mark |-> "---"]
      /\ line(3) = [file |-> p.file, mark |-> "+++"]
  OBVIOUS
<1>4. \A i \in 1..n : line(i + 3) = [file |-> p.file, mark |-> p.body[i]]
  <2> SUFFICES ASSUME NEW i \in 1..n
               PROVE  line(i + 3) = [file |-> p.file, mark |-> p.body[i]]
    OBVIOUS
  <2>1. i + 3 # 1 /\ i + 3 # 2 /\ i + 3 # 3 /\ i + 3 - 3 = i
    BY <1>1
  <2> QED
    BY <2>1
<1>5. \A i \in 1..(n + 3) : P[i] = line(i)
  BY <1>2
<1> DEFINE txt == p.body
           name == p.file
<1>6. /\ P[1] = [file |-> name, mark |-> "diff --git"]
      /\ P[2] = [file |-> name, mark |-> "---"]
      /\ P[3] = [file |-> name, mark |-> "+++"]
  <2>1. 1 \in 1..(n + 3) /\ 2 \in 1..(n + 3) /\ 3 \in 1..(n + 3)
    BY <1>1
  <2>2. P[1] = line(1) /\ P[2] = line(2) /\ P[3] = line(3)
    BY <1>5, <2>1
  <2> QED
    BY <1>3, <2>2, Zenon
<1>7. \A i \in 1..n : P[i + 3] = [file |-> name, mark |-> txt[i]]
  <2> SUFFICES ASSUME NEW i \in 1..n
               PROVE  P[i + 3] = [file |-> name, mark |-> txt[i]]
    OBVIOUS
  <2>1. i + 3 \in 1..(n + 3)
    BY <1>1
  <2>2. P[i + 3] = line(i + 3)
    BY <1>5, <2>1
  <2> QED
    BY <1>4, <2>2, Zenon
<1>8. P = [i \in 1..(n + 3) |-> P[i]]
  BY <1>2
<1>9. name \in Files /\ \A i \in 1..n : txt[i] \in Marks
  BY <1>1 DEF Marks
<1>10. n \in Nat
  BY <1>1
<1> HIDE DEF n, P, txt, name
<1>11. ASSUME NEW i \in 1..(n + 3) PROVE P[i] \in [file : Files, mark : Marks] /\ P[i].file = name
  <2>1. CASE i = 1 \/ i = 2 \/ i = 3
    <3>1. "diff --git" \in Marks /\ "---" \in Marks /\ "+++" \in Marks
      BY DEF Marks
    <3>2. \A t \in Marks : LET r == [file |-> name, mark |-> t] IN
            r \in [file : Files, mark : Marks] /\ r.file = name
      BY <1>9
    <3>3. PICK t \in Marks : P[i] = [file |-> name, mark |-> t]
      BY <1>6, <2>1, <3>1, Zenon
    <3> QED
      BY <3>2, <3>3, Zenon
  <2>2. CASE ~(i = 1 \/ i = 2 \/ i = 3)
    <3>1. i - 3 \in 1..n /\ i - 3 + 3 = i
      BY <1>10, <2>2
    <3>2. P[i] = [file |-> name, mark |-> txt[i - 3]]
      BY <1>7, <3>1
    <3> QED
      BY <1>9, <3>1, <3>2
  <2> QED
    BY <2>1, <2>2
<1>12. P \in Seq([file : Files, mark : Marks]) /\ Len(P) = n + 3
  <2>1. n + 3 \in Nat
    BY <1>10
  <2> QED
    <3> DEFINE Line == [file : Files, mark : Marks]
               k == n + 3
    <3>1. k \in Nat /\ P = [i \in 1..k |-> P[i]] /\ \A i \in 1..k : P[i] \in Line
      BY <1>8, <1>11, <2>1
    <3> HIDE DEF Line, k
    <3>2. P \in Seq(Line) /\ Len(P) = k
      BY <3>1
    <3> QED
      BY <3>2 DEF Line, k
<1>15. \A r, f, t : r = [file |-> f, mark |-> t] => r.mark = t
  OBVIOUS
<1>13. P[1].mark = "diff --git" /\ P[2].mark = "---" /\ P[3].mark = "+++"
  <2> DEFINE r1 == P[1]
             r2 == P[2]
             r3 == P[3]
  <2>1. /\ r1 = [file |-> name, mark |-> "diff --git"]
        /\ r2 = [file |-> name, mark |-> "---"]
        /\ r3 = [file |-> name, mark |-> "+++"]
    BY <1>6
  <2> HIDE DEF r1, r2, r3
  <2>2. r1.mark = "diff --git" /\ r2.mark = "---" /\ r3.mark = "+++"
    BY <2>1
  <2> QED
    BY <2>2 DEF r1, r2, r3
<1>14. ASSUME NEW i \in 1..n PROVE P[i + 3].mark = txt[i]
  <2>1. P[i + 3] = [file |-> name, mark |-> txt[i]]
    BY <1>7, Zenon
  <2> QED
    BY <1>15, <2>1, Zenon
<1> QED
  BY <1>10, <1>11, <1>12, <1>13, <1>14 DEF n, P, name, txt

LEMMA DiffIs ==
    ASSUME DiffAsked
    PROVE  /\ FirstLen \in Nat /\ Len(question.second.body) \in Nat
           /\ DOMAIN Excerpt!Diff = 1..Last /\ Len(Excerpt!Diff) = Last
           /\ \A i \in Head1 : Excerpt!Diff[i].file = question.first.file
           /\ \A i \in Head2 : Excerpt!Diff[i].file = question.second.file
           /\ \A s \in {1, Second} : /\ Excerpt!Diff[s].mark = "diff --git"
                                     /\ Excerpt!Diff[s + 1].mark = "---"
                                     /\ Excerpt!Diff[s + 2].mark = "+++"
           /\ \A i \in 1..FirstLen : Excerpt!Diff[i + 3].mark = question.first.body[i]
           /\ \A i \in 1..Len(question.second.body) :
                Excerpt!Diff[i + (Second + 2)].mark = question.second.body[i]
<1> DEFINE u == question.first
           v == question.second
           n == Len(u.body)
           m == Len(v.body)
           P == Excerpt!Patch(u)
           Q == Excerpt!Patch(v)
           D == Excerpt!Diff
           Line == [file : Files, mark : Marks]
<1>1. u \in Excerpt!Patches /\ v \in Excerpt!Patches
  BY DEF DiffAsked, Excerpt!DiffQuestions
<1>18. n \in Nat /\ P \in Seq(Line) /\ Len(P) = n + 3
  BY <1>1, PatchIs
<1>19. m \in Nat /\ Q \in Seq(Line) /\ Len(Q) = m + 3
  BY <1>1, PatchIs
<1>2. /\ \A i \in 1..(n + 3) : P[i].file = u.file
      /\ P[1].mark = "diff --git" /\ P[2].mark = "---" /\ P[3].mark = "+++"
      /\ \A i \in 1..n : P[i + 3].mark = u.body[i]
  BY <1>1, PatchIs
<1>3. /\ \A i \in 1..(m + 3) : Q[i].file = v.file
      /\ Q[1].mark = "diff --git" /\ Q[2].mark = "---" /\ Q[3].mark = "+++"
      /\ \A i \in 1..m : Q[i + 3].mark = v.body[i]
  BY <1>1, PatchIs
<1>4. D = P \o Q
  BY DEF Excerpt!Diff
<1>5. FirstLen = n /\ Second = n + 4 /\ Last = n + m + 6 /\ Head1 = 1..(n + 3) /\ Head2 = (n + 4)..(n + m + 6)
  BY DEF FirstLen, Second, Last, Head1, Head2
<1> HIDE DEF n, m, P, Q, D, u, v, Line
<1>6. D \in Seq(Line) /\ Len(D) = n + m + 6
  <2>1. D \in Seq(Line) /\ Len(D) = Len(P) + Len(Q)
    BY <1>18, <1>19, <1>4, ConcatProperties
  <2> QED
    BY <1>18, <1>19, <2>1
<1>7. \A i \in 1..(n + 3) : D[i] = P[i]
  BY <1>18, <1>19, <1>4
<1>8. \A i \in 1..(m + 3) : D[i + (n + 3)] = Q[i]
  <2> SUFFICES ASSUME NEW i \in 1..(m + 3)
               PROVE  D[i + (n + 3)] = Q[i]
    OBVIOUS
  <2>1. i + (n + 3) \in 1..(Len(P) + Len(Q)) /\ ~(i + (n + 3) <= Len(P)) /\ i + (n + 3) - Len(P) = i
    BY <1>18, <1>19
  <2> QED
    BY <1>18, <1>19, <1>4, <2>1
<1>9. DOMAIN D = 1..(n + m + 6)
  BY <1>6
<1>10. \A i \in 1..(n + 3) : D[i].file = u.file
  BY <1>2, <1>7
<1>11. \A i \in (n + 4)..(n + m + 6) : D[i].file = v.file
  <2> SUFFICES ASSUME NEW i \in (n + 4)..(n + m + 6)
               PROVE  D[i].file = v.file
    OBVIOUS
  <2>1. i - (n + 3) \in 1..(m + 3) /\ i - (n + 3) + (n + 3) = i
    BY <1>18, <1>19
  <2>2. D[i] = Q[i - (n + 3)]
    BY <1>8, <2>1
  <2> QED
    BY <1>3, <2>1, <2>2
<1>12. D[1].mark = "diff --git" /\ D[1 + 1].mark = "---" /\ D[1 + 2].mark = "+++"
  <2>1. 1 \in 1..(n + 3) /\ 2 \in 1..(n + 3) /\ 3 \in 1..(n + 3) /\ 1 + 1 = 2 /\ 1 + 2 = 3
    BY <1>18
  <2> QED
    BY <1>2, <1>7, <2>1
<1>13. /\ D[n + 4].mark = "diff --git" /\ D[n + 4 + 1].mark = "---" /\ D[n + 4 + 2].mark = "+++"
  <2>1. /\ 1 \in 1..(m + 3) /\ 2 \in 1..(m + 3) /\ 3 \in 1..(m + 3)
        /\ n + 4 = 1 + (n + 3) /\ n + 4 + 1 = 2 + (n + 3) /\ n + 4 + 2 = 3 + (n + 3)
    BY <1>18, <1>19
  <2> QED
    BY <1>3, <1>8, <2>1
<1>14. \A i \in 1..n : D[i + 3].mark = u.body[i]
  <2>1. \A i \in 1..n : i + 3 \in 1..(n + 3)
    BY <1>18
  <2> QED
    BY <1>2, <1>7, <2>1
<1>15. \A i \in 1..m : D[i + (n + 4 + 2)].mark = v.body[i]
  <2> SUFFICES ASSUME NEW i \in 1..m
               PROVE  D[i + (n + 4 + 2)].mark = v.body[i]
    OBVIOUS
  <2>1. i + 3 \in 1..(m + 3) /\ i + (n + 4 + 2) = (i + 3) + (n + 3)
    BY <1>18, <1>19
  <2>2. D[i + (n + 4 + 2)] = Q[i + 3]
    BY <1>8, <2>1
  <2> QED
    BY <1>3, <2>2
<1>16. \A s \in {1, n + 4} : D[s].mark = "diff --git" /\ D[s + 1].mark = "---" /\ D[s + 2].mark = "+++"
  BY <1>12, <1>13
<1>17. Second + 2 = n + 4 + 2
  BY <1>5
<1> QED
  <2>1. /\ FirstLen \in Nat /\ Len(question.second.body) \in Nat
        /\ DOMAIN Excerpt!Diff = 1..Last /\ Len(Excerpt!Diff) = Last
    BY <1>18, <1>19, <1>5, <1>6, <1>9 DEF D, m, v
  <2>2. (\A i \in Head1 : Excerpt!Diff[i].file = question.first.file) /\ \A i \in Head2 : Excerpt!Diff[i].file = question.second.file
    BY <1>5, <1>10, <1>11 DEF D, u, v
  <2>3. \A s \in {1, Second} : /\ Excerpt!Diff[s].mark = "diff --git"
                               /\ Excerpt!Diff[s + 1].mark = "---"
                               /\ Excerpt!Diff[s + 2].mark = "+++"
    BY <1>5, <1>16 DEF D
  <2>4. \A i \in 1..FirstLen : Excerpt!Diff[i + 3].mark = question.first.body[i]
    BY <1>5, <1>14 DEF D, u
  <2>5. \A i \in 1..Len(question.second.body) :
          Excerpt!Diff[i + (Second + 2)].mark = question.second.body[i]
    BY <1>5, <1>15, <1>17 DEF D, m, v
  <2> QED
    BY <2>1, <2>2, <2>3, <2>4, <2>5

\* Only the heads of the two patches have the mark of one.
LEMMA HeadsAre ==
    ASSUME DiffAsked
    PROVE  /\ FirstLen \in Nat /\ Second \in Nat /\ Last \in Nat
           /\ Second = FirstLen + 4 /\ Last >= Second + 2
           /\ 1..Last = Head1 \cup Head2 /\ Head1 \cap Head2 = {}
           /\ 1 \in Head1 /\ Second \in Head2
           /\ \A i \in 1..Last : Excerpt!Diff[i].mark = "diff --git" <=> i \in {1, Second}
<1> DEFINE n == FirstLen
           m == Len(question.second.body)
           M == [i \in 1..Last |-> Excerpt!Diff[i].mark]
<1>1. n \in Nat /\ m \in Nat
  BY DiffIs
<1>2. Second = n + 4 /\ Last = n + m + 6 /\ Head1 = 1..(n + 3) /\ Head2 = Second..Last
  BY DEF Second, Last, Head1, Head2
<1>3. \A i \in 1..n : question.first.body[i] \in {"+", "-", "---", "+++"}
  <2>1. question.first \in Excerpt!Patches
    BY DEF DiffAsked, Excerpt!DiffQuestions
  <2> QED
    BY <2>1, BodyIs DEF FirstLen
<1>4. \A i \in 1..m : question.second.body[i] \in {"+", "-", "---", "+++"}
  <2>1. question.second \in Excerpt!Patches
    BY DEF DiffAsked, Excerpt!DiffQuestions
  <2> QED
    BY <2>1, BodyIs
<1>5. \A i \in 1..n : Excerpt!Diff[i + 3].mark \in {"+", "-", "---", "+++"}
  <2>1. \A i \in 1..n : Excerpt!Diff[i + 3].mark = question.first.body[i]
    BY DiffIs
  <2> QED
    BY <1>3, <2>1, Zenon
<1>6. \A i \in 1..m : Excerpt!Diff[i + (Second + 2)].mark \in {"+", "-", "---", "+++"}
  <2>1. \A i \in 1..m : Excerpt!Diff[i + (Second + 2)].mark = question.second.body[i]
    BY DiffIs
  <2> QED
    BY <1>4, <2>1, Zenon
<1>7. \A s \in {1, Second} : /\ Excerpt!Diff[s].mark = "diff --git"
                             /\ Excerpt!Diff[s + 1].mark = "---"
                             /\ Excerpt!Diff[s + 2].mark = "+++"
  BY DiffIs
<1>8. \A i \in 1..Last : M[i] = Excerpt!Diff[i].mark
  OBVIOUS
<1> HIDE DEF n, m, M
<1>9. \A i \in 1..n : M[i + 3] \in {"+", "-", "---", "+++"}
  <2>1. \A i \in 1..n : i + 3 \in 1..Last
    BY <1>1, <1>2
  <2> QED
    BY <1>5, <1>8, <2>1, Zenon
<1>10. \A i \in 1..m : M[i + (Second + 2)] \in {"+", "-", "---", "+++"}
  <2>1. \A i \in 1..m : i + (Second + 2) \in 1..Last
    BY <1>1, <1>2
  <2> QED
    BY <1>6, <1>8, <2>1, Zenon
<1>11. \A s \in {1, Second} : M[s] = "diff --git" /\ M[s + 1] = "---" /\ M[s + 2] = "+++"
  <2>1. \A s \in {1, Second} : s \in 1..Last /\ s + 1 \in 1..Last /\ s + 2 \in 1..Last
    BY <1>1, <1>2
  <2> QED
    BY <1>7, <1>8, <2>1, Zenon
<1>12. ASSUME NEW i \in 1..Last, i \notin {1, Second} PROVE M[i] # "diff --git"
  <2>1. \/ i = 1 + 1 \/ i = 1 + 2 \/ i = Second + 1 \/ i = Second + 2
        \/ i - 3 \in 1..n /\ i - 3 + 3 = i
        \/ i - (Second + 2) \in 1..m /\ i - (Second + 2) + (Second + 2) = i
    BY <1>1, <1>2, <1>12
  <2>2. CASE i = 1 + 1 \/ i = 1 + 2 \/ i = Second + 1 \/ i = Second + 2
    BY <1>11, <2>2
  <2>3. CASE i - 3 \in 1..n /\ i - 3 + 3 = i
    <3>1. M[i] \in {"+", "-", "---", "+++"}
      BY <1>9, <2>3
    <3> QED
      BY <3>1
  <2>4. CASE i - (Second + 2) \in 1..m /\ i - (Second + 2) + (Second + 2) = i
    <3>1. M[i] \in {"+", "-", "---", "+++"}
      BY <1>10, <2>4
    <3> QED
      BY <3>1
  <2> QED
    BY <2>1, <2>2, <2>3, <2>4
<1>13. \A i \in 1..Last : M[i] = "diff --git" <=> i \in {1, Second}
  BY <1>11, <1>12
<1>14. \A i \in 1..Last : Excerpt!Diff[i].mark = "diff --git" <=> i \in {1, Second}
  BY <1>8, <1>13
<1>15. 1..Last = Head1 \cup Head2 /\ Head1 \cap Head2 = {} /\ 1 \in Head1 /\ Second \in Head2
  BY <1>1, <1>2
<1> QED
  <2>1. Second \in Nat /\ Last \in Nat /\ Second = n + 4 /\ Last >= Second + 2
    BY <1>1, <1>2
  <2>2. FirstLen = n
    BY DEF n
  <2> QED
    BY <1>1, <1>14, <1>15, <2>1, <2>2

\* Lines that are whole patches are split into these.
Whole(lines) == /\ lines \subseteq Head1 \cup Head2
                /\ (Head1 \cap lines # {} => Head1 \subseteq lines)
                /\ (Head2 \cap lines # {} => Head2 \subseteq lines)

LEMMA SplitIs ==
    ASSUME DiffAsked, NEW lines, Whole(lines)
    PROVE  /\ Excerpt!Starts(lines) = lines \cap {1, Second}
           /\ 1 \in lines => Excerpt!Section(lines, 1) = Head1
           /\ Second \in lines => Excerpt!Section(lines, Second) = Head2
<1> DEFINE D == Excerpt!Diff
           git(i) == D[i].mark = "diff --git"
           first(i) == D[i].mark = "---" /\ \A j \in lines : j < i => D[j].mark \notin {"diff --git", "---"}
           S == Excerpt!Starts(lines)
<1>1. /\ FirstLen \in Nat /\ Second \in Nat /\ Last \in Nat /\ Second = FirstLen + 4 /\ Last >= Second + 2
      /\ 1..Last = Head1 \cup Head2 /\ Head1 \cap Head2 = {} /\ 1 \in Head1 /\ Second \in Head2
  BY HeadsAre
<1>2. \A i \in 1..Last : D[i].mark = "diff --git" <=> i \in {1, Second}
  BY HeadsAre
<1>3. Head1 = 1..(FirstLen + 3) /\ Head2 = Second..Last
  BY DEF Head1, Head2
<1>4. lines \subseteq 1..Last
  BY <1>1 DEF Whole
<1>5. S = {i \in lines : \/ D[i].mark = "diff --git"
                         \/ /\ D[i].mark = "---"
                            /\ \A j \in lines : j < i => D[j].mark \notin {"diff --git", "---"}}
  BY DEF Excerpt!Starts
<1> HIDE DEF S, D
<1>6. S = lines \cap {1, Second}
  <2>1. lines \cap {1, Second} \subseteq S
    BY <1>2, <1>4, <1>5
  <2>2. ASSUME NEW i \in S PROVE i \in {1, Second}
    <3> SUFFICES ASSUME i \notin {1, Second}
                 PROVE  FALSE
      OBVIOUS
    <3>1. i \in lines /\ i \in 1..Last
      BY <1>4, <1>5
    <3>2. \A j \in lines : j < i => D[j].mark \notin {"diff --git", "---"}
      BY <1>2, <1>5, <3>1
    <3>3. \E j \in {1, Second} : j \in lines /\ j < i
      <4>1. CASE i \in Head1
        <5>1. 1 \in lines
          BY <1>1, <3>1, <4>1 DEF Whole
        <5>2. 1 < i
          BY <3>1
        <5> QED
          BY <5>1, <5>2
      <4>2. CASE i \in Head2
        <5>1. Second \in lines
          BY <1>1, <3>1, <4>2 DEF Whole
        <5>2. Second < i
          BY <1>1, <1>3, <4>2
        <5> QED
          BY <5>1, <5>2
      <4> QED
        BY <1>1, <3>1, <4>1, <4>2
    <3>4. PICK j \in {1, Second} : j \in lines /\ j < i
      BY <3>3
    <3>5. D[j].mark = "diff --git"
      BY <1>2, <1>4, <3>4
    <3> QED
      BY <3>2, <3>4, <3>5
  <2>3. S \subseteq lines
    BY <1>5
  <2> QED
    BY <2>1, <2>2, <2>3
<1>7. \A s : Excerpt!Section(lines, s) = {i \in lines : s <= i /\ \A t \in S : t <= i => t <= s}
  BY DEF Excerpt!Section, S
<1>8. ASSUME 1 \in lines PROVE Excerpt!Section(lines, 1) = Head1
  <2>1. Head1 \subseteq lines
    BY <1>1, <1>8 DEF Whole
  <2>2. \A i \in Head1 : i \in lines /\ 1 <= i /\ \A t \in S : t <= i => t <= 1
    BY <1>1, <1>3, <1>6, <2>1
  <2>3. ASSUME NEW i \in lines, \A t \in S : t <= i => t <= 1 PROVE i \in Head1
    <3>1. CASE i \in Head2
      <4>1. Second \in S
        BY <1>1, <1>6, <3>1 DEF Whole
      <4>2. Second <= i /\ ~(Second <= 1)
        BY <1>1, <1>3, <3>1
      <4> QED
        BY <2>3, <4>1, <4>2
    <3> QED
      BY <3>1 DEF Whole
  <2> QED
    BY <1>7, <2>2, <2>3
<1>9. ASSUME Second \in lines PROVE Excerpt!Section(lines, Second) = Head2
  <2>1. Head2 \subseteq lines
    BY <1>1, <1>9 DEF Whole
  <2>2. \A i \in Head2 : i \in lines /\ Second <= i /\ \A t \in S : t <= i => t <= Second
    BY <1>1, <1>3, <1>6, <2>1
  <2>3. ASSUME NEW i \in lines, Second <= i PROVE i \in Head2
    BY <1>1, <1>3, <1>4, <2>3
  <2> QED
    BY <1>7, <2>2, <2>3
<1> QED
  BY <1>6, <1>8, <1>9 DEF S

\* What the filter keeps.
Kept == {i \in DOMAIN Excerpt!Diff : Excerpt!Diff[i].file \in question.paths}

LEMMA FilterIs ==
    ASSUME DiffAsked
    PROVE  /\ Excerpt!FilterDiffByPaths(DOMAIN Excerpt!Diff, question.paths) = Kept
           /\ Whole(Kept)
           /\ 1 \in Kept <=> question.first.file \in question.paths
           /\ Second \in Kept <=> question.second.file \in question.paths
<1> DEFINE D == Excerpt!Diff
           paths == question.paths
           f == question.first.file
           g == question.second.file
           lines == DOMAIN D
<1>1. /\ 1..Last = Head1 \cup Head2 /\ Head1 \cap Head2 = {} /\ 1 \in Head1 /\ Second \in Head2
  BY HeadsAre
<1>2. lines = 1..Last
  BY DiffIs
<1>3. (\A i \in Head1 : D[i].file = f) /\ (\A i \in Head2 : D[i].file = g)
  BY DiffIs
<1>4. Whole(lines)
  BY <1>1, <1>2 DEF Whole
<1>5. /\ Excerpt!Starts(lines) = {1, Second}
      /\ Excerpt!Section(lines, 1) = Head1 /\ Excerpt!Section(lines, Second) = Head2
  <2>1. 1 \in lines /\ Second \in lines
    BY <1>1, <1>2
  <2> HIDE DEF lines
  <2> QED
    BY <1>4, <2>1, SplitIs
<1>6. Excerpt!FilterDiffByPaths(lines, paths) =
        UNION {Excerpt!Section(lines, s) : s \in {i \in Excerpt!Starts(lines) : D[i].file \in paths}}
  BY DEF Excerpt!FilterDiffByPaths
<1>7. Kept = {i \in lines : D[i].file \in paths}
  BY DEF Kept
<1> HIDE DEF D, f, g, lines, paths
<1>8. Kept = (IF f \in paths THEN Head1 ELSE {}) \cup (IF g \in paths THEN Head2 ELSE {})
  BY <1>1, <1>2, <1>3, <1>7
<1>9. Excerpt!FilterDiffByPaths(lines, paths) =
        (IF f \in paths THEN Head1 ELSE {}) \cup (IF g \in paths THEN Head2 ELSE {})
  <2>1. D[1].file = f /\ D[Second].file = g
    BY <1>1, <1>3
  <2> DEFINE X == {i \in Excerpt!Starts(lines) : D[i].file \in paths}
  <2>2. \A i : i \in X <=> (i = 1 /\ f \in paths) \/ (i = Second /\ g \in paths)
    BY <1>5, <2>1
  <2> HIDE DEF X
  <2>3. \A i : i \in UNION {Excerpt!Section(lines, s) : s \in X} <=>
               (f \in paths /\ i \in Head1) \/ (g \in paths /\ i \in Head2)
    BY <1>5, <2>2
  <2> QED
    BY <1>6, <2>3 DEF X
<1>10. Whole(Kept)
  BY <1>1, <1>8 DEF Whole
<1>11. (1 \in Kept <=> f \in paths) /\ (Second \in Kept <=> g \in paths)
  BY <1>1, <1>8
<1> QED
  BY <1>8, <1>9, <1>10, <1>11 DEF D, f, g, lines, paths

\* As many on one side as on the other, a stretch further on.
LEMMA Shifted ==
    ASSUME NEW k \in Nat, NEW d \in Int, NEW T, T \subseteq 1..k
    PROVE  Cardinality({i + d : i \in T}) = Cardinality(T)
<1> DEFINE U == {i + d : i \in T}
           f == [i \in T |-> i + d]
<1>1. IsFiniteSet(T)
  <2>1. IsFiniteSet(1..k)
    BY FS_Interval
  <2> QED
    BY <2>1, FS_Subset
<1>2. f \in Bijection(T, U)
  <2>1. f \in [T -> U]
    OBVIOUS
  <2>2. \A a, b \in T : f[a] = f[b] => a = b
    OBVIOUS
  <2>3. \A u \in U : \E a \in T : f[a] = u
    OBVIOUS
  <2> QED
    BY <2>1, <2>2, <2>3 DEF Bijection, Injection, Surjection, IsInjective
<1>3. ExistsBijection(T, U)
  BY <1>2 DEF ExistsBijection
<1> QED
  BY <1>1, <1>3, FS_Bijection

\* What is counted of a patch is in its body.
LEMMA CountsAre ==
    ASSUME DiffAsked, NEW c \in {"+", "-"}
    PROVE  /\ Cardinality({i \in Head1 : Excerpt!Diff[i].mark = c}) =
                Cardinality({i \in DOMAIN question.first.body : question.first.body[i] = c})
           /\ Cardinality({i \in Head2 : Excerpt!Diff[i].mark = c}) =
                Cardinality({i \in DOMAIN question.second.body : question.second.body[i] = c})
<1> DEFINE n == FirstLen
           m == Len(question.second.body)
           u == question.first.body
           v == question.second.body
           M == [i \in 1..Last |-> Excerpt!Diff[i].mark]
           S == {i \in DOMAIN u : u[i] = c}
           T == {i \in DOMAIN v : v[i] = c}
           S1 == {i \in Head1 : Excerpt!Diff[i].mark = c}
           T1 == {i \in Head2 : Excerpt!Diff[i].mark = c}
<1>1. n \in Nat /\ m \in Nat /\ DOMAIN u = 1..n /\ DOMAIN v = 1..m
  <2>1. question.first \in Excerpt!Patches /\ question.second \in Excerpt!Patches
    BY DEF DiffAsked, Excerpt!DiffQuestions
  <2> QED
    BY <2>1, BodyIs DEF FirstLen
<1>2. Second = n + 4 /\ Last = n + m + 6 /\ Head1 = 1..(n + 3) /\ Head2 = Second..Last
  BY DEF Second, Last, Head1, Head2
<1>3. \A s \in {1, Second} : /\ Excerpt!Diff[s].mark = "diff --git"
                             /\ Excerpt!Diff[s + 1].mark = "---"
                             /\ Excerpt!Diff[s + 2].mark = "+++"
  BY DiffIs
<1>4. \A i \in 1..n : Excerpt!Diff[i + 3].mark = u[i]
  BY DiffIs
<1>5. \A i \in 1..m : Excerpt!Diff[i + (Second + 2)].mark = v[i]
  BY DiffIs
<1>6. \A i \in 1..Last : M[i] = Excerpt!Diff[i].mark
  OBVIOUS
<1>7. /\ S1 = {i \in Head1 : M[i] = c} /\ T1 = {i \in Head2 : M[i] = c}
  <2>1. Head1 \subseteq 1..Last /\ Head2 \subseteq 1..Last
    BY <1>1, <1>2
  <2> HIDE DEF M
  <2> QED
    BY <1>6, <2>1
<1>8. S = {i \in 1..n : u[i] = c} /\ T = {i \in 1..m : v[i] = c}
  BY <1>1
<1> HIDE DEF n, m, u, v, M, S, T, S1, T1
<1>9. \A i \in 1..n : M[i + 3] = u[i]
  <2>1. \A i \in 1..n : i + 3 \in 1..Last
    BY <1>1, <1>2
  <2> QED
    BY <1>4, <1>6, <2>1, Zenon
<1>10. \A i \in 1..m : M[i + (Second + 2)] = v[i]
  <2>1. \A i \in 1..m : i + (Second + 2) \in 1..Last
    BY <1>1, <1>2
  <2> QED
    BY <1>5, <1>6, <2>1, Zenon
<1>11. \A s \in {1, Second} : M[s] # c /\ M[s + 1] # c /\ M[s + 2] # c
  <2>1. \A s \in {1, Second} : s \in 1..Last /\ s + 1 \in 1..Last /\ s + 2 \in 1..Last
    BY <1>1, <1>2
  <2>2. \A s \in {1, Second} : M[s] = "diff --git" /\ M[s + 1] = "---" /\ M[s + 2] = "+++"
    BY <1>3, <1>6, <2>1, Zenon
  <2> QED
    BY <2>2
<1>12. S1 = {i + 3 : i \in S}
  <2>1. ASSUME NEW i \in S PROVE i + 3 \in S1
    BY <1>1, <1>2, <1>7, <1>8, <1>9
  <2>2. ASSUME NEW i \in S1 PROVE \E j \in S : i = j + 3
    <3>1. i \in 1..(n + 3) /\ M[i] = c
      BY <1>2, <1>7
    <3>2. i # 1 /\ i # 1 + 1 /\ i # 1 + 2
      BY <1>11, <3>1
    <3>3. i - 3 \in 1..n /\ i = i - 3 + 3
      BY <1>1, <3>1, <3>2
    <3> QED
      BY <1>8, <1>9, <3>1, <3>3
  <2> QED
    BY <2>1, <2>2
<1>13. T1 = {i + (Second + 2) : i \in T}
  <2>1. ASSUME NEW i \in T PROVE i + (Second + 2) \in T1
    BY <1>1, <1>2, <1>7, <1>8, <1>10
  <2>2. ASSUME NEW i \in T1 PROVE \E j \in T : i = j + (Second + 2)
    <3>1. i \in Second..Last /\ M[i] = c
      BY <1>2, <1>7
    <3>2. i # Second /\ i # Second + 1 /\ i # Second + 2
      BY <1>11, <3>1
    <3>3. i - (Second + 2) \in 1..m /\ i = i - (Second + 2) + (Second + 2)
      BY <1>1, <1>2, <3>1, <3>2
    <3> QED
      BY <1>8, <1>10, <3>1, <3>3
  <2> QED
    BY <2>1, <2>2
<1>14. Cardinality(S1) = Cardinality(S)
  <2>1. S \subseteq 1..n /\ 3 \in Int
    BY <1>8
  <2> QED
    BY <1>1, <1>12, <2>1, Shifted
<1>15. Cardinality(T1) = Cardinality(T)
  <2>1. T \subseteq 1..m /\ Second + 2 \in Int
    BY <1>1, <1>2, <1>8
  <2> DEFINE d == Second + 2
  <2>2. d \in Int /\ T1 = {i + d : i \in T}
    BY <1>13, <2>1
  <2> HIDE DEF d
  <2> QED
    BY <1>1, <2>1, <2>2, Shifted
<1> QED
  BY <1>14, <1>15 DEF S, S1, T, T1, u, v

\* The first members of a set of places, as many as there is room for.
Fitting(W, room) == {i \in W : Cardinality({j \in W : j <= i}) <= room}

LEMMA CutIs ==
    ASSUME NEW N \in Nat, NEW W, W \subseteq 1..N, NEW room \in Nat
    PROVE  /\ \A i \in Fitting(W, room), j \in W : j < i => j \in Fitting(W, room)
           /\ Fitting(W, room) # W => Cardinality(Fitting(W, room)) = room
<1> DEFINE Upto(i) == {j \in W : j <= i}
           shown == {i \in W : Cardinality(Upto(i)) <= room}
<1>0. Fitting(W, room) = shown /\ \A i \in W : i \in Nat /\ i <= N
  BY DEF Fitting
<1>1. \A T \in SUBSET W : IsFiniteSet(T) /\ Cardinality(T) \in Nat
  <2>1. IsFiniteSet(1..N)
    BY FS_Interval
  <2> QED
    BY <2>1, FS_Subset, FS_CardinalityType
<1>2. ASSUME NEW i \in shown, NEW j \in W, j < i PROVE j \in shown
  <2>1. Upto(j) \in SUBSET Upto(i) /\ Upto(i) \in SUBSET W /\ Upto(j) \in SUBSET W
    <3>1. \A k \in W : k <= j => k <= i
      BY <1>0, <1>2
    <3> QED
      BY <3>1, Zenon
  <2>2. Cardinality(Upto(j)) <= Cardinality(Upto(i))
    BY <1>1, <2>1, FS_Subset
  <2>3. Cardinality(Upto(i)) \in Nat /\ Cardinality(Upto(j)) \in Nat
    BY <1>1, <2>1
  <2> QED
    BY <2>2, <2>3
<1>3. ASSUME shown # W PROVE Cardinality(shown) = room
  <2>1. shown \in SUBSET W /\ W \in SUBSET Nat
    OBVIOUS
  <2>2. PICK m \in W \ shown : \A k \in W \ shown : m <= k
    <3>1. W \ shown \in SUBSET Nat /\ W \ shown # {}
      BY <1>3, <2>1
    <3> HIDE DEF shown
    <3> QED
      BY <3>1, LeastMember
  <2>3. ~(Cardinality(Upto(m)) <= room)
    BY <2>2
  <2>4. Upto(m) = shown \cup {m} /\ m \notin shown
    <3>1. \A j \in W : j < m => j \in shown
      BY <2>1, <2>2
    <3>2. \A j \in shown : j < m
      BY <1>2, <2>1, <2>2
    <3> HIDE DEF shown
    <3>3. m \in W /\ m \notin shown /\ \A j \in W : j <= m => j < m \/ j = m
      BY <1>0, <2>2
    <3>5. \A j \in shown \cup {m} : j \in W /\ j <= m
      <4>1. m <= m /\ \A j \in shown : j \in W /\ j <= m
        BY <1>0, <2>1, <3>2, <3>3
      <4> QED
        BY <3>3, <4>1
    <3>4. \A j : j \in Upto(m) <=> j \in shown \cup {m}
      BY <3>1, <3>3, <3>5, Zenon
    <3> HIDE DEF Upto
    <3> QED
      BY <3>3, <3>4
  <2>5. Cardinality(shown) \in Nat /\ Cardinality(shown) + 1 > room
    <3>1. IsFiniteSet(shown) /\ Cardinality(shown) \in Nat
      BY <1>1, <2>1
    <3>2. Cardinality(Upto(m)) = Cardinality(shown) + 1
      <4> HIDE DEF shown
      <4> QED
        BY <2>4, <3>1, FS_AddElement
    <3> HIDE DEF shown, Upto
    <3> QED
      BY <2>3, <3>1, <3>2
  <2>6. Cardinality(shown) <= room
    <3>1. CASE shown = {}
      <4> HIDE DEF shown
      <4> QED
        BY <3>1, FS_EmptySet
    <3>2. CASE shown # {}
      <4> DEFINE F == {N - i : i \in shown}
      <4>1. F \in SUBSET Nat /\ F # {}
        <5>1. \A i \in shown : N - i \in Nat
          BY <1>0
        <5> HIDE DEF shown
        <5> QED
          BY <3>2, <5>1
      <4>2. PICK f \in F : \A k \in F : f <= k
        <5> HIDE DEF F
        <5> QED
          BY <4>1, LeastMember
      <4>3. PICK g \in shown : f = N - g
        BY <4>2
      <4>4. \A k \in shown : k <= g
        <5> SUFFICES ASSUME NEW k \in shown
                     PROVE  k <= g
          OBVIOUS
        <5>1. N - k \in F
          OBVIOUS
        <5>2. N - g <= N - k
          BY <4>2, <4>3, <5>1
        <5> QED
          BY <2>1, <5>2
      <4>5. shown = Upto(g)
        <5>1. \A j \in W : j <= g => j \in shown
          <6> SUFFICES ASSUME NEW j \in W, j <= g
                       PROVE  j \in shown
            OBVIOUS
          <6>1. j = g \/ j < g
            BY <2>1
          <6> QED
            BY <1>2, <4>3, <6>1
        <5> HIDE DEF shown
        <5> QED
          BY <2>1, <4>4, <5>1
      <4>6. Cardinality(Upto(g)) <= room
        BY <4>3
      <4> HIDE DEF shown, Upto
      <4> QED
        BY <4>5, <4>6
    <3> QED
      BY <3>1, <3>2
  <2> HIDE DEF shown
  <2> QED
    BY <2>5, <2>6
<1> QED
  BY <1>0, <1>2, <1>3

LEMMA DiffExact ==
    ASSUME DiffAsked, answer = Excerpt!HandleGetDiff
    PROVE  Excerpt!DiffRight
<1> DEFINE D == Excerpt!Diff
           paths == question.paths
           room == question.room
           stat == question.stat
           wanted1 == question.first.file \in paths
           wanted2 == question.second.file \in paths
           Tally(b) == [added |-> Cardinality({i \in DOMAIN b : b[i] = "+"}),
                     removed |-> Cardinality({i \in DOMAIN b : b[i] = "-"})]
           told1 == Tally(question.first.body)
           told2 == Tally(question.second.body)
           heads == {i \in {1} : wanted1} \cup {i \in {Second} : wanted2}
           total == [files |-> Cardinality(heads)]
           whole == IF stat THEN heads \cup {Last + 1} ELSE Kept
           text == IF stat THEN Excerpt!ExtractDiffStats(Kept) ELSE [i \in Kept |-> D[i]]
           shown == Fitting(whole, room)
<1>1. Excerpt!FilterDiffByPaths(DOMAIN D, paths) = Kept
  BY FilterIs
<1>2. answer = Excerpt!TruncateDiff(text, room)
  BY <1>1 DEF Excerpt!HandleGetDiff
<1>3. Kept = {i \in DOMAIN D : D[i].file \in paths}
  BY DEF Kept
<1>4. /\ Excerpt!Starts(Kept) = Kept \cap {1, Second}
      /\ 1 \in Kept => Excerpt!Section(Kept, 1) = Head1
      /\ Second \in Kept => Excerpt!Section(Kept, Second) = Head2
  BY FilterIs, SplitIs
<1>5. (1 \in Kept <=> wanted1) /\ (Second \in Kept <=> wanted2)
  BY FilterIs
<1>6. Excerpt!Starts(Kept) = heads
  BY <1>4, <1>5
<1>7. Excerpt!CountChanges(Head1) = told1 /\ Excerpt!CountChanges(Head2) = told2
  <2>1. \A X : Excerpt!CountChanges(X) = [added |-> Cardinality({i \in X : D[i].mark = "+"}),
                                          removed |-> Cardinality({i \in X : D[i].mark = "-"})]
    BY DEF Excerpt!CountChanges, Excerpt!Cardinality, Cardinality
  <2> QED
    BY <2>1, CountsAre
<1>8. /\ Second = Len(question.first.body) + 4 /\ Len(D) = Last /\ DOMAIN D = 1..Last
      /\ Second \in Nat /\ Last \in Nat /\ 1 # Second /\ 1 <= Last /\ Second <= Last
  <2>1. FirstLen \in Nat /\ Len(question.second.body) \in Nat /\ DOMAIN D = 1..Last /\ Len(D) = Last
    BY DiffIs
  <2>2. Second = FirstLen + 4 /\ Last = FirstLen + Len(question.second.body) + 6
    BY DEF Second, Last
  <2>3. Second = Len(question.first.body) + 4
    BY DEF Second, FirstLen
  <2> HIDE DEF D
  <2> QED
    BY <2>1, <2>2, <2>3
<1>9. Excerpt!ExtractDiffStats(Kept) =
        [s \in heads \cup {Last + 1} |->
           IF s \in heads THEN Excerpt!CountChanges(Excerpt!Section(Kept, s)) ELSE total]
  <2>1. Excerpt!ExtractDiffStats(Kept) =
          [s \in Excerpt!Starts(Kept) \cup {Len(D) + 1} |->
             IF s \in Excerpt!Starts(Kept) THEN Excerpt!CountChanges(Excerpt!Section(Kept, s))
             ELSE [files |-> Cardinality(Excerpt!Starts(Kept))]]
    BY DEF Excerpt!ExtractDiffStats, Excerpt!Cardinality, Cardinality
  <2> HIDE DEF heads, D
  <2> QED
    BY <1>6, <1>8, <2>1
<1>10. room \in Nat /\ stat \in BOOLEAN
  BY AnswersAssumption DEF AnswersAssumption, Excerpt!ExcerptAssumption, DiffAsked, Excerpt!DiffQuestions
<1>11. DOMAIN text = whole /\ whole \subseteq 1..(Last + 1)
  <2>1. DOMAIN text = whole
    <3> HIDE DEF heads, total
    <3> QED
      BY <1>9
  <2>2. heads \subseteq 1..(Last + 1) /\ Kept \subseteq 1..(Last + 1) /\ Last + 1 \in 1..(Last + 1)
    BY <1>3, <1>8
  <2> QED
    BY <2>1, <2>2
<1>12. answer = [lines |-> [i \in shown |-> text[i]], cut |-> shown # whole]
  <2>1. \A t, r : Excerpt!TruncateDiff(t, r) =
          LET some == {i \in DOMAIN t : Cardinality({j \in DOMAIN t : j <= i}) <= r}
          IN [lines |-> [i \in some |-> t[i]], cut |-> some # DOMAIN t]
    BY DEF Excerpt!TruncateDiff, Excerpt!Cardinality, Cardinality
  <2> HIDE DEF text, whole, room
  <2> QED
    BY <1>2, <1>11, <2>1 DEF Fitting
<1>13. /\ \A i \in shown, j \in whole : j < i => j \in shown
       /\ shown # whole => Cardinality(shown) = room
  <2>1. Last + 1 \in Nat
    BY <1>8
  <2> HIDE DEF whole, room
  <2> QED
    BY <1>10, <1>11, <2>1, CutIs
<1> DEFINE Right(i) == CASE ~stat -> D[i]
                         [] stat /\ i = 1 -> told1
                         [] stat /\ i = Second -> told2
                         [] stat /\ i = Last + 1 -> total
<1>14. ASSUME NEW i \in whole PROVE text[i] = Right(i)
  <2>1. CASE ~stat
    <3>1. i \in Kept /\ text[i] = D[i]
      BY <1>14, <2>1
    <3> QED
      BY <2>1, <3>1
  <2>2. CASE stat /\ i = Last + 1
    <3>1. i \notin heads /\ i # 1 /\ i # Second
      BY <1>8, <2>2
    <3>2. text[i] = total
      <4> HIDE DEF heads, total
      <4> QED
        BY <1>9, <2>2, <3>1
    <3> HIDE DEF text, total, told1, told2, heads
    <3> QED
      BY <2>2, <3>1, <3>2
  <2>3. CASE stat /\ i \in heads
    <3>1. text[i] = Excerpt!CountChanges(Excerpt!Section(Kept, i))
      <4> HIDE DEF heads, total
      <4> QED
        BY <1>9, <2>3
    <3>2. (i = 1 /\ wanted1) \/ (i = Second /\ wanted2)
      BY <2>3
    <3> HIDE DEF text, total, told1, told2, heads, wanted1, wanted2
    <3>3. CASE i = 1 /\ wanted1
      <4>1. text[i] = told1
        BY <1>4, <1>5, <1>7, <3>1, <3>3
      <4> QED
        BY <2>3, <3>3, <4>1, <1>8
    <3>4. CASE i = Second /\ wanted2
      <4>1. text[i] = told2
        BY <1>4, <1>5, <1>7, <3>1, <3>4
      <4>2. i # 1
        BY <1>8, <3>4
      <4> QED
        BY <1>8, <2>3, <3>4, <4>1, <4>2
    <3> HIDE DEF Right
    <3> QED
      BY <3>2, <3>3, <3>4
  <2>4. stat => i \in heads \/ i = Last + 1
    BY <1>14
  <2> QED
    BY <1>10, <2>1, <2>2, <2>3, <2>4
<1> DEFINE RightFor(second, end, kept) ==
             LET some == {i \in {1} : wanted1} \cup {i \in {second} : wanted2}
                 all1 == IF stat THEN some \cup {end} ELSE kept
                 s == DOMAIN answer.lines
                 R(i) == CASE ~stat -> D[i]
                           [] stat /\ i = 1 -> told1
                           [] stat /\ i = second -> told2
                           [] stat /\ i = end -> [files |-> Cardinality(some)]
             IN /\ s \subseteq all1
                /\ \A i \in s, j \in all1 : j < i => j \in s
                /\ \A i \in s : answer.lines[i] = R(i)
                /\ IF answer.cut THEN s # all1 /\ Cardinality(s) = room ELSE s = all1
<1>15. Excerpt!DiffRight <=> RightFor(Second, Last + 1, Kept)
  <2>1. Excerpt!DiffRight <=>
          RightFor(Len(question.first.body) + 4, Len(D) + 1, {i \in DOMAIN D : D[i].file \in paths})
    BY DEF Excerpt!DiffRight, Excerpt!Cardinality, Cardinality
  <2> HIDE DEF RightFor, D, paths
  <2> QED
    BY <1>3, <1>8, <2>1
<1>18. RightFor(Second, Last + 1, Kept) <=>
         LET s == DOMAIN answer.lines IN
         /\ s \subseteq whole
         /\ \A i \in s, j \in whole : j < i => j \in s
         /\ \A i \in s : answer.lines[i] = Right(i)
         /\ IF answer.cut THEN s # whole /\ Cardinality(s) = room ELSE s = whole
  OBVIOUS
<1>19. shown \subseteq whole
  BY DEF Fitting
<1> HIDE DEF shown, whole, text, room, D, stat, Right, RightFor, heads
<1>16. /\ answer.lines = [i \in shown |-> text[i]]
       /\ answer.cut = (shown # whole)
  <2>1. \A a, l, c : a = [lines |-> l, cut |-> c] => a.lines = l /\ a.cut = c
    OBVIOUS
  <2> QED
    BY <1>12, <2>1, Zenon
<1>17. DOMAIN answer.lines = shown /\ \A i \in shown : answer.lines[i] = text[i]
  BY <1>16
<1>20. \A i \in shown : answer.lines[i] = Right(i)
  BY <1>14, <1>17, <1>19
<1>21. IF answer.cut THEN shown # whole /\ Cardinality(shown) = room ELSE shown = whole
  BY <1>13, <1>16, Zenon
<1> QED
  BY <1>13, <1>15, <1>17, <1>18, <1>19, <1>20, <1>21

\* A list or a diff is answered by one request, and the client that walks through
\* the pages has been shown the beginning of what there is.
ExcerptInv ==
    /\ asked \in Nat
    /\ \/ question \in Excerpt!LineQuestions
       \/ PagesAsked
       \/ DiffAsked
       \/ question = [kind |-> "none"]
    /\ question.kind = "lines" /\ asked > 0 => answer = Excerpt!HandleReadFile
    /\ question.kind = "diff" /\ asked > 0 => answer = Excerpt!HandleGetDiff
    /\ question.kind = "pages" => PagesShown
    /\ question.kind = "none" => asked = 0

LEMMA Kinds ==
    /\ question \in Excerpt!LineQuestions => question.kind = "lines"
    /\ PagesAsked => question.kind = "pages"
    /\ DiffAsked => question.kind = "diff"
    /\ question = [kind |-> "none"] => question.kind = "none"
<1>1. question \in Excerpt!LineQuestions => question.kind = "lines"
  BY DEF Excerpt!LineQuestions
<1>2. PagesAsked => question.kind = "pages"
  BY DEF PagesAsked, Excerpt!PageQuestions
<1>3. DiffAsked => question.kind = "diff"
  BY DEF DiffAsked, Excerpt!DiffQuestions
<1>4. question = [kind |-> "none"] => question.kind = "none"
  OBVIOUS
<1> QED
  BY <1>1, <1>2, <1>3, <1>4

\* Before the first page nothing is shown.
LEMMA NothingShown ==
    ASSUME PagesAsked, answer = <<>>, asked = 0
    PROVE  PagesShown
<1>1. All \in Seq(Positions) /\ Len(All) \in Nat
  <2>1. All \in Seq(Positions)
    BY AllInSequence
  <2> QED
    BY <2>1
<1>2. Size \in Nat
  BY LimitIs
<1>3. Excerpt!Smaller(asked * Size, Len(All)) = 0
  <2>1. asked * Size = 0
    BY <1>2
  <2> QED
    BY <1>1, <2>1 DEF Excerpt!Smaller
<1>4. SubSeq(All, 1, 0) = <<>>
  BY <1>1
<1> QED
  BY <1>3, <1>4 DEF PagesShown

LEMMA ExcerptStart ==
    \/ Excerpt!Init
    \/ question = [kind |-> "none"] /\ answer = <<>> /\ asked = 0
    => ExcerptInv
<1> SUFFICES ASSUME \/ Excerpt!Init
                    \/ question = [kind |-> "none"] /\ answer = <<>> /\ asked = 0
             PROVE  ExcerptInv
  OBVIOUS
<1>1. answer = <<>> /\ asked = 0
  BY DEF Excerpt!Init
<1>2. \/ question \in Excerpt!LineQuestions
      \/ PagesAsked
      \/ DiffAsked
      \/ question = [kind |-> "none"]
  <2>1. CASE Excerpt!Init
    <3>1. /\ question \in Excerpt!LineQuestions \cup Excerpt!PageQuestions \cup Excerpt!DiffQuestions
          /\ question.kind = "pages" => question.registry \/ Len(question.projects) = 1
      BY <2>1 DEF Excerpt!Init
    <3>2. question \in Excerpt!PageQuestions => question.kind = "pages"
      BY DEF Excerpt!PageQuestions
    <3> QED
      BY <3>1, <3>2 DEF PagesAsked, DiffAsked
  <2> QED
    BY <2>1
<1>3. question.kind = "pages" => PagesShown
  <2>1. question.kind = "pages" => PagesAsked
    <3>1. "lines" # "pages" /\ "diff" # "pages" /\ "none" # "pages"
      OBVIOUS
    <3> QED
      BY <1>2, <3>1, Kinds
  <2> QED
    BY <1>1, <2>1, NothingShown
<1>4. asked \in Nat /\ ~(asked > 0)
  BY <1>1
<1> QED
  BY <1>1, <1>2, <1>3, <1>4 DEF ExcerptInv

\* What is asked decides what is computed.
LEMMA SameQuestion ==
    ASSUME question' = question
    PROVE  /\ Excerpt!HandleReadFile' = Excerpt!HandleReadFile
           /\ Excerpt!HandleGetDiff' = Excerpt!HandleGetDiff
           /\ PagesAsked' = PagesAsked /\ DiffAsked' = DiffAsked
           /\ All' = All /\ Size' = Size
<1>1. Excerpt!HandleReadFile' = Excerpt!HandleReadFile
  BY DEF Excerpt!HandleReadFile
<1>2. Excerpt!Diff' = Excerpt!Diff
  BY DEF Excerpt!Diff
<1>3. Excerpt!HandleGetDiff' = Excerpt!HandleGetDiff
  <2> DEFINE T == IF question.stat
                    THEN Excerpt!ExtractDiffStats(
                           Excerpt!FilterDiffByPaths(DOMAIN Excerpt!Diff, question.paths))
                    ELSE [i \in Excerpt!FilterDiffByPaths(DOMAIN Excerpt!Diff, question.paths)
                            |-> Excerpt!Diff[i]]
             Fit(t, r) == {i \in DOMAIN t : Excerpt!Cardinality({j \in DOMAIN t : j <= i}) <= r}
             Cut(t, r) == [lines |-> [i \in Fit(t, r) |-> t[i]], cut |-> Fit(t, r) # DOMAIN t]
  <2>1. T' = T
    BY <1>2 DEF Excerpt!ExtractDiffStats, Excerpt!FilterDiffByPaths,
                Excerpt!CountChanges, Excerpt!Section, Excerpt!Starts
  <2>2. Excerpt!HandleGetDiff = Cut(T, question.room)
    BY DEF Excerpt!HandleGetDiff, Excerpt!TruncateDiff
  <2>3. Excerpt!HandleGetDiff' = Cut(T', question'.room)
    BY DEF Excerpt!HandleGetDiff, Excerpt!TruncateDiff
  <2> HIDE DEF T, Cut, Fit
  <2> QED
    BY <2>1, <2>2, <2>3
<1>4. PagesAsked' = PagesAsked /\ DiffAsked' = DiffAsked
  BY DEF PagesAsked, DiffAsked
<1>5. Size' = Size
  BY DEF Size, Excerpt!Limit
<1>6. All' = All
  BY DEF All, Excerpt!ListIssuesFromAllProjects, Excerpt!ListIssues
<1> QED
  BY <1>1, <1>3, <1>4, <1>5, <1>6

LEMMA ExcerptKeeps ==
    ExcerptInv /\ Excerpt!Next => ExcerptInv'
<1> SUFFICES ASSUME ExcerptInv, Excerpt!Next
             PROVE  ExcerptInv'
  OBVIOUS
<1>1. question' = question
  BY DEF Excerpt!Next, Excerpt!Once, Excerpt!NextPage
<1>2. /\ asked \in Nat
      /\ \/ question \in Excerpt!LineQuestions
         \/ PagesAsked
         \/ DiffAsked
         \/ question = [kind |-> "none"]
      /\ question.kind = "pages" => PagesShown
  BY DEF ExcerptInv
<1>3. /\ asked' \in Nat
      /\ question.kind \in {"lines", "diff", "pages"}
      /\ question.kind = "lines" => answer' = Excerpt!HandleReadFile
      /\ question.kind = "diff" => answer' = Excerpt!HandleGetDiff
      /\ question.kind = "pages" => /\ asked' = asked + 1
                                    /\ answer' = answer \o Excerpt!HandleListIssues(Excerpt!Offset(asked + 1))
  <2>1. CASE Excerpt!Once("lines", Excerpt!HandleReadFile)
    BY <2>1 DEF Excerpt!Once
  <2>2. CASE Excerpt!Once("diff", Excerpt!HandleGetDiff)
    BY <2>2 DEF Excerpt!Once
  <2>3. CASE Excerpt!NextPage
    BY <1>2, <2>3 DEF Excerpt!NextPage
  <2> QED
    BY <2>1, <2>2, <2>3 DEF Excerpt!Next
<1>4. question.kind = "pages" => PagesShown'
  <2> SUFFICES ASSUME question.kind = "pages"
               PROVE  PagesShown'
    OBVIOUS
  <2>1. PagesAsked
    <3>1. "lines" # "pages" /\ "diff" # "pages" /\ "none" # "pages"
      OBVIOUS
    <3> QED
      BY <1>2, <3>1, Kinds
  <2>2. answer' = SubSeq(All, 1, Excerpt!Smaller((asked + 1) * Size, Len(All)))
    BY <1>2, <1>3, <2>1, PagesGoOn
  <2>3. asked' = asked + 1 /\ All' = All /\ Size' = Size
    BY <1>1, <1>3, SameQuestion
  <2> QED
    BY <2>2, <2>3 DEF PagesShown, Excerpt!Smaller
<1>5. question.kind # "none"
  BY <1>3
<1> QED
  BY <1>1, <1>2, <1>3, <1>4, <1>5, SameQuestion DEF ExcerptInv

LEMMA ExcerptsExact ==
    ExcerptInv => Excerpt!AnswersExact
<1> SUFFICES ASSUME ExcerptInv, asked > 0
             PROVE  CASE question.kind = "lines" -> Excerpt!LinesRight
                      [] question.kind = "pages" -> Excerpt!PagesRight
                      [] question.kind = "diff"  -> Excerpt!DiffRight
  BY DEF Excerpt!AnswersExact
<1>1. /\ asked \in Nat
      /\ \/ question \in Excerpt!LineQuestions
         \/ PagesAsked
         \/ DiffAsked
  BY DEF ExcerptInv
<1>2. CASE question \in Excerpt!LineQuestions
  <2>1. question.kind = "lines" /\ answer = Excerpt!HandleReadFile
    BY <1>2, Kinds DEF ExcerptInv
  <2>2. Excerpt!LinesRight
    BY <1>2, <2>1, LinesExact
  <2> QED
    BY <2>1, <2>2
<1>3. CASE PagesAsked
  <2>1. question.kind = "pages" /\ PagesShown
    BY <1>3, Kinds DEF ExcerptInv
  <2>2. Excerpt!PagesRight
    BY <1>1, <1>3, <2>1, PagesExact
  <2> QED
    BY <2>1, <2>2
<1>4. CASE DiffAsked
  <2>1. question.kind = "diff" /\ answer = Excerpt!HandleGetDiff
    BY <1>4, Kinds DEF ExcerptInv
  <2>2. Excerpt!DiffRight
    BY <1>4, <2>1, DiffExact
  <2> QED
    BY <2>1, <2>2
<1> QED
  BY <1>1, <1>2, <1>3, <1>4

\* The other parts leave the excerpts alone.
LEMMA ExcerptStarts == AnswersInit => ExcerptInv
BY ExcerptStart DEF AnswersInit

LEMMA ExcerptStays == ExcerptInv /\ [AnswersNext]_answersVars => ExcerptInv'
<1> SUFFICES ASSUME ExcerptInv, [AnswersNext]_answersVars
             PROVE  ExcerptInv'
  OBVIOUS
<1>1. CASE UNCHANGED excerptVars
  <2>1. question' = question /\ answer' = answer /\ asked' = asked
    BY <1>1 DEF excerptVars
  <2> QED
    BY <2>1, SameQuestion DEF ExcerptInv, PagesShown, Excerpt!Smaller
<1>2. Excerpt!Next \/ UNCHANGED excerptVars
  BY DEF AnswersNext, Aside, answersVars
<1> QED
  BY <1>1, <1>2, ExcerptKeeps

(***************************************************************************)
(* The theorems about Answers.                                             *)
(***************************************************************************)

\* The inductive invariants of the parts hold together.
THEOREM AnswersInductive == AnswersSpec => [](LogInv /\ GitHubInv /\ HostInv /\ ExcerptInv)
  BY LogStart, LogKeeps, GitHubStart, GitHubKeeps, HostStarts, HostStays, ExcerptStarts,
     ExcerptStays, PTL DEF AnswersSpec

\* HandleHostMetrics, handleListIssues, handleReadFile, handleGetDiff, Summarize and the
\* GitHub client's diffAndEmit, for any histories and thresholds, lists, files, diffs and
\* limits, logs, requests and times, issues and changes between the pages of a listing:
\* the advice agrees with the alerts, what is cut out is what was asked for, a summary is
\* recent and counts right, and a round tells what was.
THEOREM AnswersKept == AnswersSpec => []AnswersTrue
<1>1. LogInv /\ GitHubInv /\ HostInv /\ ExcerptInv => AnswersTrue
  BY SummariesRecent, RoundTrue, AdviceRight, ExcerptsExact DEF AnswersTrue
<1> QED
  BY <1>1, AnswersInductive, PTL
=============================================================================
