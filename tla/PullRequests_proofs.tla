------------------------- MODULE PullRequests_proofs -------------------------
(***************************************************************************)
(* Pull requests, any number of them, whatever people, CI and tools do and *)
(* whatever calls fail: type correctness, that the watcher opens one       *)
(* remediation issue at a time and closes only what a merge resolves, and  *)
(* that Tier 2 waits for its delay.                                        *)
(***************************************************************************)
EXTENDS PullRequests, FiniteSetTheorems, TLAPS

SnapRec == [title : Titles, trusted : BOOLEAN, draft : BOOLEAN, mergeable : BOOLEAN,
            labels : SUBSET Labels, age : 0..Delay, comments : SUBSET (Comments \X BOOLEAN)]
Listings == UNION {[s -> SnapRec] : s \in SUBSET PRs}
WatcherRec == [at : Steps, now : PRs \cup {None}, item : Items \cup {None}, todo : SUBSET Items]
ToolRec == [at : {"idle", "list", "pick", "checks", "merge", "review"},
            now : PRs \cup {None}, dry : BOOLEAN, seen : Listings]
IssueRec == [state : {"absent", "open", "closed"}, about : PRs \cup {None}, done : BOOLEAN]

\* The variables and their types, the records of watcher and tool included.
Typed ==
    /\ pr \in [PRs -> PR] /\ issue \in [Issues -> IssueRec]
    /\ watcher \in WatcherRec /\ listed \in Listings /\ tool \in ToolRec
    /\ tool.at \in {"checks", "merge", "review"} => tool.now \in PRs
    /\ upsets \in 0..MaxUpsets /\ closers \subseteq Items \X PRs

(***************************************************************************)
(* Where the watcher is and what it has established there: it works on     *)
(* what it listed; asks for remediation where there is none; merges what   *)
(* the policy lets through by its listing; closes for a merged pull        *)
(* request what that mentions.                                             *)
(***************************************************************************)
AtListed == watcher.at \notin {"idle", "next"} => Now \in DOMAIN listed
AtCreate == At("create") => \A i \in Issues : ~(issue[i].state = "open" /\ issue[i].about = Now)
AtMerge  == At("merge") => MayMerge(listed[Now])
AtClose  ==
    /\ watcher.at \in {"close", "label done"} =>
         pr[Now].state = "merged" /\ watcher.todo \subseteq pr[Now].mentions
    /\ At("label done") => watcher.item \in Items

PlaceInv == AtListed /\ AtCreate /\ AtMerge /\ AtClose

\* Two open remediation issues of a pull request are one.
RemedyInv ==
    \A n \in PRs : \A i, j \in Issues :
        /\ issue[i].state = "open" /\ issue[i].about = n
        /\ issue[j].state = "open" /\ issue[j].about = n
        => i = j

IInv == Typed /\ PlaceInv /\ RemedyInv /\ ClosedByMerge

\* What is merged stays merged and keeps what it mentions.
Follows(p, q) == p.state = "merged" => q.state = "merged" /\ q.mentions = p.mentions

\* No issue becomes a remediation issue.
NoneOpens ==
    \A i \in Issues : issue'[i].state = "open" /\ issue'[i].about \in PRs =>
        issue[i].state = "open" /\ issue[i].about = issue'[i].about

(***************************************************************************)
(* Steps that keep the invariant.                                          *)
(***************************************************************************)

\* What the listing holds.
LEMMA ListingFacts ==
    ASSUME NEW l \in Listings
    PROVE  /\ DOMAIN l \subseteq PRs /\ l \in [DOMAIN l -> SnapRec]
           /\ \A n \in DOMAIN l : l[n] \in SnapRec
<1>1. PICK s \in SUBSET PRs : l \in [s -> SnapRec]
  BY DEF Listings
<1>2. DOMAIN l = s
  BY <1>1
<1> QED
  BY <1>1, <1>2

\* A function on pull requests to such records is a listing.
LEMMA IsListing ==
    ASSUME NEW s \in SUBSET PRs, NEW l \in [s -> SnapRec]
    PROVE  l \in Listings
BY DEF Listings

\* A listing without the pull request that was dealt with.
LEMMA Rest ==
    ASSUME NEW l \in Listings, NEW n
    PROVE  Restrict(l, DOMAIN l \ {n}) \in Listings
<1> DEFINE s == DOMAIN l \ {n}
<1>1. s \in SUBSET PRs /\ \A m \in s : l[m] \in SnapRec
  BY ListingFacts
<1>2. Restrict(l, s) \in [s -> SnapRec]
  BY <1>1 DEF Restrict
<1> QED
  BY <1>1, <1>2, IsListing

\* A step of the watcher: what it has established is to be shown.
LEMMA WatcherKeeps ==
    ASSUME IInv, Typed', PlaceInv', RemedyInv',
           \A n \in PRs : Follows(pr[n], pr'[n]),
           \A c \in closers' : c \in closers \/ (pr[c[2]].state = "merged" /\ c[1] \in pr[c[2]].mentions)
    PROVE  IInv'
<1>1. \A c \in closers' : c[2] \in PRs
  BY DEF Typed
<1>2. ClosedByMerge'
  BY <1>1 DEF IInv, ClosedByMerge, Follows
<1> QED
  BY <1>2 DEF IInv

\* A step of anybody else.
LEMMA OthersKeep ==
    ASSUME IInv, Typed', UNCHANGED <<watcher, closers>>,
           \A n \in PRs : Follows(pr[n], pr'[n]), NoneOpens,
           DOMAIN listed' = DOMAIN listed,
           \A n \in DOMAIN listed : MayMerge(listed[n]) => MayMerge(listed'[n])
    PROVE  IInv'
<1>1. /\ Typed /\ PlaceInv /\ RemedyInv /\ Now' = Now
  BY DEF IInv, Now
<1>2. watcher.at \notin {"idle", "next"} => Now \in DOMAIN listed /\ Now \in PRs
  BY <1>1, ListingFacts DEF PlaceInv, AtListed, Typed
<1>3. AtListed'
  BY <1>1, <1>2 DEF AtListed
<1>4. AtCreate'
  BY <1>1, <1>2 DEF AtCreate, At, PlaceInv, NoneOpens
<1>5. AtMerge'
  BY <1>1, <1>2 DEF AtMerge, At, PlaceInv
<1>6. AtClose'
  BY <1>1, <1>2 DEF AtClose, At, PlaceInv, Follows
<1>7. RemedyInv'
  BY <1>1 DEF RemedyInv, NoneOpens
<1> QED
  BY <1>3, <1>4, <1>5, <1>6, <1>7, WatcherKeeps DEF PlaceInv

\* One pull request changes.
LEMMA OneChanges ==
    ASSUME pr \in [PRs -> PR], NEW n \in PRs, NEW q \in PR, Follows(pr[n], q),
           pr' = [pr EXCEPT ![n] = q]
    PROVE  /\ pr' \in [PRs -> PR]
           /\ \A m \in PRs : Follows(pr[m], pr'[m]) /\ (m # n => pr'[m] = pr[m])
           /\ pr'[n] = q
BY DEF Follows

\* None changes.
LEMMA NoneChanges ==
    ASSUME UNCHANGED pr
    PROVE  \A m \in PRs : Follows(pr[m], pr'[m])
BY DEF Follows

\* An update touches a pull request.
LEMMA TouchedFacts ==
    ASSUME NEW p \in PR
    PROVE  LET q == [p EXCEPT !.age = 0]
           IN  /\ q \in PR /\ q.state = p.state /\ q.mentions = p.mentions
               /\ q.labels = p.labels /\ q.comments = p.comments
BY PullRequestAssumption DEF PR

\* Its labels change.
LEMMA LabelledFacts ==
    ASSUME NEW p \in PR, NEW ls \in SUBSET Labels
    PROVE  LET q == [p EXCEPT !.labels = ls]
           IN  q \in PR /\ q.state = p.state /\ q.mentions = p.mentions
BY DEF PR

\* What the forge merges, and what it keeps.
LEMMA MergeFacts ==
    ASSUME pr \in [PRs -> PR], NEW n \in PRs, MergePullRequest(n)
    PROVE  /\ pr' \in [PRs -> PR] /\ \A m \in PRs : Follows(pr[m], pr'[m])
           /\ pr'[n].state = "merged" /\ pr'[n].mentions = pr[n].mentions
<1>1. PICK broken \in SUBSET (OpenPRs \ {n}) :
         pr' = [m \in PRs |-> IF m = n THEN [pr[n] EXCEPT !.state = "merged", !.age = 0]
                              ELSE IF m \in broken THEN [pr[m] EXCEPT !.mergeable = FALSE]
                              ELSE pr[m]]
  BY DEF MergePullRequest
<1> DEFINE q1 == [pr[n] EXCEPT !.state = "merged"]
           q == [q1 EXCEPT !.age = 0]
<1>2. q = [pr[n] EXCEPT !.state = "merged", !.age = 0]
  BY DEF PR
<1>3. q1 \in PR /\ q1.state = "merged" /\ q1.mentions = pr[n].mentions
  BY DEF PR
<1> HIDE DEF q1
<1>4. q \in PR /\ q.state = "merged" /\ q.mentions = pr[n].mentions
  BY <1>3, TouchedFacts
<1> HIDE DEF q
<1>5. \A m \in PRs : LET b == [pr[m] EXCEPT !.mergeable = FALSE]
                     IN  b \in PR /\ Follows(pr[m], b)
  <2>1. \A p \in PR : LET b == [p EXCEPT !.mergeable = FALSE]
                     IN  b \in PR /\ b.state = p.state /\ b.mentions = p.mentions
    BY DEF PR
  <2>2. \A m \in PRs : pr[m] \in PR
    OBVIOUS
  <2> QED
    BY <2>1, <2>2 DEF Follows
<1>6. \A m \in PRs : (pr'[m] = q /\ m = n) \/ pr'[m] = [pr[m] EXCEPT !.mergeable = FALSE] \/ pr'[m] = pr[m]
  BY <1>1, <1>2
<1>7. \A m \in PRs : pr'[m] \in PR /\ Follows(pr[m], pr'[m])
  BY <1>4, <1>5, <1>6 DEF Follows
<1>8. pr' = [m \in PRs |-> pr'[m]]
  BY <1>1
<1>9. pr' \in [PRs -> PR]
  BY <1>7, <1>8
<1>10. pr'[n] = q
  BY <1>1, <1>2
<1> QED
  BY <1>4, <1>7, <1>9, <1>10

\* A counted event.
LEMMA Counted ==
    ASSUME Typed, Upset \/ NoFault
    PROVE  upsets' \in 0..MaxUpsets
BY PullRequestAssumption DEF Typed, Upset, NoFault

\* What a listing says.
LEMMA SnapshotFacts ==
    ASSUME pr \in [PRs -> PR], NEW n \in PRs
    PROVE  Snapshot(n) \in SnapRec /\ Ageless(n) \in SnapRec
<1>1. pr[n] \in PR
  OBVIOUS
<1>2. Snapshot(n) \in SnapRec
  BY <1>1 DEF Snapshot, SnapRec, PR
<1> DEFINE a1 == [Snapshot(n) EXCEPT !.age = 0]
           a == [a1 EXCEPT !.comments = {}]
<1>3. a = Ageless(n)
  BY DEF Ageless, Snapshot
<1>4. a1 \in SnapRec
  BY <1>2, PullRequestAssumption DEF SnapRec
<1> HIDE DEF a1
<1>5. a \in SnapRec
  BY <1>4 DEF SnapRec
<1> QED
  BY <1>2, <1>3, <1>5

(***************************************************************************)
(* The watcher's steps.                                                    *)
(***************************************************************************)

\* The watcher is between pull requests.
LEMMA Rests ==
    ASSUME IInv, Typed', watcher'.at \in {"idle", "next"}, NoneOpens, UNCHANGED closers,
           \A n \in PRs : Follows(pr[n], pr'[n])
    PROVE  IInv'
<1>1. PlaceInv'
  BY DEF PlaceInv, AtListed, AtCreate, AtMerge, AtClose, At
<1>2. RemedyInv'
  BY DEF IInv, RemedyInv, NoneOpens
<1> QED
  BY <1>1, <1>2, WatcherKeeps

\* The watcher goes where nothing has been established yet.
LEMMA GoesOn ==
    ASSUME IInv, Typed', watcher'.at \in {"comments", "existing", "note", "checks", "label"},
           watcher'.now \in DOMAIN listed', NoneOpens, UNCHANGED closers,
           \A n \in PRs : Follows(pr[n], pr'[n])
    PROVE  IInv'
<1>1. PlaceInv'
  BY DEF PlaceInv, AtListed, AtCreate, AtMerge, AtClose, At, Now
<1>2. RemedyInv'
  BY DEF IInv, RemedyInv, NoneOpens
<1> QED
  BY <1>1, <1>2, WatcherKeeps

\* The same pull request at another step.
LEMMA GoToFacts ==
    ASSUME watcher \in WatcherRec, NEW step \in Steps, GoTo(step)
    PROVE  /\ watcher' \in WatcherRec /\ watcher'.at = step /\ watcher'.now = watcher.now
           /\ watcher'.item = watcher.item /\ watcher'.todo = watcher.todo
BY DEF GoTo, WatcherRec

\* The next pull request.
LEMMA ContinueFacts ==
    ASSUME Typed, Continue
    PROVE  watcher' \in WatcherRec /\ watcher'.at = "next" /\ listed' \in Listings
<1>1. [Resting EXCEPT !.at = "next"] \in WatcherRec /\ [Resting EXCEPT !.at = "next"].at = "next"
  BY DEF Resting, WatcherRec, Steps
<1>2. listed' \in Listings
  BY Rest DEF Typed, Continue
<1> QED
  BY <1>1, <1>2 DEF Continue

\* A step that ends the work on a pull request.
LEMMA ContinueKeeps ==
    ASSUME IInv, Continue, Upset \/ NoFault, UNCHANGED <<tool, closers>>,
           issue' \in [Issues -> IssueRec], NoneOpens,
           pr' \in [PRs -> PR], \A n \in PRs : Follows(pr[n], pr'[n])
    PROVE  IInv'
<1>1. Typed
  BY DEF IInv
<1>2. watcher' \in WatcherRec /\ watcher'.at = "next" /\ listed' \in Listings
  BY <1>1, ContinueFacts
<1>3. upsets' \in 0..MaxUpsets
  BY <1>1, Counted
<1>4. Typed'
  BY <1>1, <1>2, <1>3 DEF Typed
<1> QED
  BY <1>2, <1>4, Rests

\* The first page of the open pull requests is listed.
LEMMA PollKeeps ==
    ASSUME IInv, Poll
    PROVE  IInv'
<1> USE DEF Poll, At
<1>1. Typed /\ pr \in [PRs -> PR] /\ watcher \in WatcherRec
  BY DEF IInv, Typed
<1>2. upsets' \in 0..MaxUpsets
  BY <1>1, Counted DEF Fault
<1>3. NoneOpens /\ \A n \in PRs : Follows(pr[n], pr'[n])
  BY NoneChanges DEF NoneOpens
<1>4. CASE listed' = [n \in FirstPage |-> Snapshot(n)] /\ GoTo("next")
  <2>1. FirstPage \in SUBSET PRs
    BY DEF FirstPage, OpenPRs
  <2>2. listed' \in [FirstPage -> SnapRec]
    BY <1>1, <1>4, <2>1, SnapshotFacts
  <2>3. listed' \in Listings
    BY <2>1, <2>2, IsListing
  <2>4. watcher' \in WatcherRec /\ watcher'.at = "next"
    BY <1>1, <1>4, GoToFacts DEF Steps
  <2>5. Typed'
    BY <1>1, <1>2, <2>3, <2>4 DEF Typed
  <2> QED
    BY <1>3, <2>4, <2>5, Rests
<1>5. CASE UNCHANGED <<watcher, listed>>
  <2>1. Typed'
    BY <1>1, <1>2, <1>5 DEF Typed
  <2> QED
    BY <1>3, <1>5, <2>1, Rests
<1> QED
  BY <1>4, <1>5

\* The listing is done.
LEMMA PollEndsKeeps ==
    ASSUME IInv, PollEnds
    PROVE  IInv'
<1>1. Typed
  BY DEF IInv
<1>2. watcher' \in WatcherRec /\ watcher'.at = "idle"
  BY DEF PollEnds, Resting, WatcherRec, Steps
<1>3. Typed'
  BY <1>1, <1>2 DEF Typed, PollEnds
<1>4. NoneOpens /\ \A n \in PRs : Follows(pr[n], pr'[n])
  BY NoneChanges DEF NoneOpens, PollEnds
<1> QED
  BY <1>2, <1>3, <1>4, Rests DEF PollEnds

\* The next pull request is worked on, if it is eligible.
LEMMA PollNextKeeps ==
    ASSUME IInv, PollNext
    PROVE  IInv'
<1>1. /\ Typed /\ watcher \in WatcherRec /\ listed \in Listings /\ watcher.at = "next"
      /\ UNCHANGED <<pr, issue, tool, upsets, closers>>
  BY DEF IInv, Typed, PollNext, At
<1>2. PICK n \in DOMAIN listed :
         IF IsEligible(listed[n])
         THEN /\ watcher' = [watcher EXCEPT !.now = n, !.at =
                    IF "needs-human" \in listed[n].labels THEN "checks" ELSE "comments"]
              /\ UNCHANGED listed
         ELSE /\ listed' = Restrict(listed, DOMAIN listed \ {n})
              /\ UNCHANGED watcher
  BY DEF PollNext
<1>3. n \in PRs
  BY <1>1, ListingFacts
<1>4. NoneOpens /\ \A m \in PRs : Follows(pr[m], pr'[m])
  BY <1>1, NoneChanges DEF NoneOpens
<1>5. CASE IsEligible(listed[n])
  <2> DEFINE step == IF "needs-human" \in listed[n].labels THEN "checks" ELSE "comments"
             w1 == [watcher EXCEPT !.now = n]
             w == [w1 EXCEPT !.at = step]
  <2>1. watcher' = w
    BY <1>1, <1>2, <1>5 DEF WatcherRec
  <2>2. w1 \in WatcherRec /\ w1.now = n
    BY <1>1, <1>3 DEF WatcherRec
  <2> HIDE DEF w1
  <2>3. step \in {"checks", "comments"}
    OBVIOUS
  <2> HIDE DEF step
  <2>4. w \in WatcherRec /\ w.now = n /\ w.at = step
    BY <2>2, <2>3 DEF WatcherRec, Steps
  <2> HIDE DEF w
  <2>5. Typed' /\ UNCHANGED listed
    BY <1>1, <1>2, <1>5, <2>1, <2>4 DEF Typed
  <2> QED
    BY <1>1, <1>4, <2>1, <2>3, <2>4, <2>5, GoesOn
<1>6. CASE ~IsEligible(listed[n])
  <2>1. listed' \in Listings
    BY <1>1, <1>2, <1>6, Rest
  <2>2. Typed'
    BY <1>1, <1>2, <1>6, <2>1 DEF Typed
  <2> QED
    BY <1>1, <1>2, <1>4, <1>6, <2>2, Rests
<1> QED
  BY <1>5, <1>6

\* Comments may ask for remediation.
LEMMA CheckReviewCommentsKeeps ==
    ASSUME IInv, CheckReviewComments
    PROVE  IInv'
<1>1. /\ Typed /\ watcher \in WatcherRec /\ watcher.now \in DOMAIN listed
      /\ UNCHANGED <<pr, issue, listed, tool, closers>>
  BY DEF IInv, Typed, PlaceInv, AtListed, CheckReviewComments, At, Now
<1>2. upsets' \in 0..MaxUpsets
  BY <1>1, Counted DEF CheckReviewComments, Fault
<1>3. PICK step \in {"checks", "existing"} : GoTo(step)
  BY DEF CheckReviewComments
<1>4. watcher' \in WatcherRec /\ watcher'.at = step /\ watcher'.now = watcher.now
  BY <1>1, <1>3, GoToFacts DEF Steps
<1>5. Typed'
  BY <1>1, <1>2, <1>4 DEF Typed
<1>6. NoneOpens /\ \A m \in PRs : Follows(pr[m], pr'[m])
  BY <1>1, NoneChanges DEF NoneOpens
<1> QED
  BY <1>1, <1>3, <1>4, <1>5, <1>6, GoesOn

\* A remediation issue is asked for where there is none.
LEMMA CheckExistingKeeps ==
    ASSUME IInv, CheckExisting
    PROVE  IInv'
<1>1. /\ Typed /\ watcher \in WatcherRec /\ watcher.now \in DOMAIN listed
      /\ UNCHANGED <<pr, issue, tool, closers>>
  BY DEF IInv, Typed, PlaceInv, AtListed, CheckExisting, At, Now
<1>2. NoneOpens /\ \A m \in PRs : Follows(pr[m], pr'[m])
  BY <1>1, NoneChanges DEF NoneOpens
<1>3. CASE Remedies(Now) = {} /\ GoTo("create") /\ NoFault /\ UNCHANGED listed
  <2>1. watcher' \in WatcherRec /\ watcher'.at = "create" /\ watcher'.now = watcher.now
    BY <1>1, <1>3, GoToFacts DEF Steps
  <2>2. upsets' \in 0..MaxUpsets
    BY <1>1, <1>3, Counted
  <2>3. Typed'
    BY <1>1, <1>3, <2>1, <2>2 DEF Typed
  <2>4. \A i \in Issues : ~(issue[i].state = "open" /\ issue[i].about = watcher.now)
    BY <1>3 DEF Remedies, Now
  <2>5. PlaceInv'
    BY <1>1, <1>3, <2>1, <2>4 DEF PlaceInv, AtListed, AtCreate, AtMerge, AtClose, At, Now
  <2>6. RemedyInv'
    BY <1>1 DEF IInv, RemedyInv
  <2> QED
    BY <1>1, <1>2, <2>3, <2>5, <2>6, WatcherKeeps
<1>4. CASE Continue /\ (Upset \/ NoFault)
  <2>1. issue' \in [Issues -> IssueRec] /\ pr' \in [PRs -> PR]
    BY <1>1 DEF Typed
  <2> QED
    BY <1>1, <1>2, <1>4, <2>1, ContinueKeeps
<1> QED
  BY <1>3, <1>4 DEF CheckExisting, Fault

\* The remediation issue is the only one.
LEMMA CreateRemediationKeeps ==
    ASSUME IInv, CreateRemediation
    PROVE  IInv'
<1>1. /\ Typed /\ watcher \in WatcherRec /\ watcher.now \in DOMAIN listed
      /\ issue \in [Issues -> IssueRec] /\ listed \in Listings
      /\ UNCHANGED <<pr, tool, closers>>
      /\ \A i \in Issues : ~(issue[i].state = "open" /\ issue[i].about = watcher.now)
      /\ RemedyInv
  BY DEF IInv, Typed, PlaceInv, AtListed, AtCreate, CreateRemediation, At, Now
<1>2. upsets' \in 0..MaxUpsets
  BY <1>1, Counted DEF CreateRemediation, Fault
<1>3. watcher.now \in PRs
  BY <1>1, ListingFacts
<1>4. issue' \in [Issues -> IssueRec] /\ RemedyInv'
  <2>1. CASE \E i \in Issues : issue' = [issue EXCEPT ![i].state = "open", ![i].about = Now]
    <3>1. PICK i \in Issues : issue' = [issue EXCEPT ![i].state = "open", ![i].about = Now]
      BY <2>1
    <3> DEFINE q1 == [issue[i] EXCEPT !.state = "open"]
               q == [q1 EXCEPT !.about = Now]
    <3>2. issue' = [issue EXCEPT ![i] = q]
      BY <1>1, <3>1
    <3>3. q1 \in IssueRec
      BY <1>1 DEF IssueRec
    <3> HIDE DEF q1
    <3>4. q \in IssueRec /\ q.about = watcher.now
      BY <1>3, <3>3 DEF IssueRec, Now
    <3> HIDE DEF q
    <3>5. /\ issue' \in [Issues -> IssueRec] /\ issue'[i].about = watcher.now
          /\ \A j \in Issues : j # i => issue'[j] = issue[j]
      BY <1>1, <3>2, <3>4
    <3>6. RemedyInv'
      BY <1>1, <3>5 DEF RemedyInv
    <3> QED
      BY <3>5, <3>6
  <2>2. CASE UNCHANGED issue
    BY <1>1, <2>2 DEF RemedyInv
  <2> QED
    BY <2>1, <2>2 DEF CreateRemediation
<1>5. /\ watcher' \in WatcherRec /\ listed' \in Listings
      /\ \/ watcher'.at = "note" /\ watcher'.now = watcher.now /\ UNCHANGED listed
         \/ watcher'.at = "next"
  <2>1. CASE GoTo("note") /\ UNCHANGED listed
    BY <1>1, <2>1, GoToFacts DEF Steps
  <2>2. CASE Continue
    BY <1>1, <2>2, ContinueFacts
  <2> QED
    BY <2>1, <2>2 DEF CreateRemediation
<1>6. Typed'
  BY <1>1, <1>2, <1>4, <1>5 DEF Typed
<1>7. PlaceInv'
  BY <1>1, <1>5 DEF PlaceInv, AtListed, AtCreate, AtMerge, AtClose, At, Now
<1> QED
  BY <1>1, <1>4, <1>6, <1>7, NoneChanges, WatcherKeeps

\* The comment touches the pull request.
LEMMA NoteRemediationKeeps ==
    ASSUME IInv, NoteRemediation
    PROVE  IInv'
<1>1. /\ Typed /\ pr \in [PRs -> PR] /\ listed \in Listings /\ watcher.now \in DOMAIN listed
      /\ Continue /\ (Upset \/ NoFault) /\ UNCHANGED <<issue, tool, closers>>
      /\ pr' = [pr EXCEPT ![watcher.now] = Touched(watcher.now)] \/ UNCHANGED pr
  BY DEF IInv, Typed, PlaceInv, AtListed, NoteRemediation, At, Now, Fault
<1>2. watcher.now \in PRs
  BY <1>1, ListingFacts
<1>3. pr' \in [PRs -> PR] /\ \A m \in PRs : Follows(pr[m], pr'[m])
  <2>1. CASE UNCHANGED pr
    BY <1>1, <2>1, NoneChanges
  <2>2. CASE pr' = [pr EXCEPT ![watcher.now] = Touched(watcher.now)]
    <3>1. Touched(watcher.now) \in PR /\ Follows(pr[watcher.now], Touched(watcher.now))
      BY <1>1, <1>2, TouchedFacts DEF Touched, Follows
    <3> QED
      BY <1>1, <1>2, <2>2, <3>1, OneChanges
  <2> QED
    BY <1>1, <2>1, <2>2
<1>4. NoneOpens /\ issue' \in [Issues -> IssueRec]
  BY <1>1 DEF NoneOpens, Typed
<1> QED
  BY <1>1, <1>3, <1>4, ContinueKeeps

\* What the policy lets through is merged, what it does not is labelled or passed over.
LEMMA CheckTierKeeps ==
    ASSUME IInv, CheckTier
    PROVE  IInv'
<1>1. /\ Typed /\ watcher \in WatcherRec /\ watcher.now \in DOMAIN listed
      /\ UNCHANGED <<pr, issue, tool, closers>>
  BY DEF IInv, Typed, PlaceInv, AtListed, CheckTier, At, Now
<1>2. NoneOpens /\ \A m \in PRs : Follows(pr[m], pr'[m])
  BY <1>1, NoneChanges DEF NoneOpens
<1>3. CASE GoTo("label") /\ NoFault /\ UNCHANGED listed
  <2>1. watcher' \in WatcherRec /\ watcher'.at = "label" /\ watcher'.now = watcher.now
    BY <1>1, <1>3, GoToFacts DEF Steps
  <2>2. upsets' \in 0..MaxUpsets
    BY <1>1, <1>3, Counted
  <2>3. Typed'
    BY <1>1, <1>3, <2>1, <2>2 DEF Typed
  <2> QED
    BY <1>1, <1>2, <1>3, <2>1, <2>3, GoesOn
<1>4. CASE MayMerge(listed[watcher.now]) /\ GoTo("merge") /\ NoFault /\ UNCHANGED listed
  <2>1. watcher' \in WatcherRec /\ watcher'.at = "merge" /\ watcher'.now = watcher.now
    BY <1>1, <1>4, GoToFacts DEF Steps
  <2>2. upsets' \in 0..MaxUpsets
    BY <1>1, <1>4, Counted
  <2>3. Typed'
    BY <1>1, <1>4, <2>1, <2>2 DEF Typed
  <2>4. PlaceInv'
    BY <1>1, <1>4, <2>1 DEF PlaceInv, AtListed, AtCreate, AtMerge, AtClose, At, Now
  <2>5. RemedyInv'
    BY <1>1 DEF IInv, RemedyInv
  <2> QED
    BY <1>1, <1>2, <2>3, <2>4, <2>5, WatcherKeeps
<1>5. CASE Continue /\ (Upset \/ NoFault)
  <2>1. issue' \in [Issues -> IssueRec] /\ pr' \in [PRs -> PR]
    BY <1>1 DEF Typed
  <2> QED
    BY <1>1, <1>2, <1>5, <2>1, ContinueKeeps
<1> QED
  BY <1>3, <1>4, <1>5 DEF CheckTier, Fault, Now

\* A human is asked for.
LEMMA LabelTier3Keeps ==
    ASSUME IInv, LabelTier3
    PROVE  IInv'
<1> DEFINE n == watcher.now
           ls == Touched(n).labels \cup {"needs-human"}
           q == [Touched(n) EXCEPT !.labels = ls]
<1>1. /\ Typed /\ pr \in [PRs -> PR] /\ listed \in Listings /\ n \in DOMAIN listed
      /\ Continue /\ (Upset \/ NoFault) /\ UNCHANGED <<issue, tool, closers>>
      /\ pr' = [pr EXCEPT ![n] = q] \/ UNCHANGED pr
  BY DEF IInv, Typed, PlaceInv, AtListed, LabelTier3, At, Now, Fault
<1>2. n \in PRs
  BY <1>1, ListingFacts
<1>3. pr' \in [PRs -> PR] /\ \A m \in PRs : Follows(pr[m], pr'[m])
  <2>1. CASE UNCHANGED pr
    BY <1>1, <2>1, NoneChanges
  <2>2. CASE pr' = [pr EXCEPT ![n] = q]
    <3>1. /\ Touched(n) \in PR /\ Touched(n).state = pr[n].state
          /\ Touched(n).mentions = pr[n].mentions
      BY <1>1, <1>2, TouchedFacts DEF Touched
    <3>2. ls \in SUBSET Labels
      BY <3>1 DEF PR, Labels
    <3>3. q \in PR /\ Follows(pr[n], q)
      BY <3>1, <3>2, LabelledFacts DEF Follows
    <3> HIDE DEF q
    <3> QED
      BY <1>1, <1>2, <2>2, <3>3, OneChanges
  <2> QED
    BY <1>1, <2>1, <2>2
<1>4. NoneOpens /\ issue' \in [Issues -> IssueRec]
  BY <1>1 DEF NoneOpens, Typed
<1> QED
  BY <1>1, <1>3, <1>4, ContinueKeeps

\* After a merge, what it mentions is to be closed.
LEMMA MergeKeeps ==
    ASSUME IInv, Merge
    PROVE  IInv'
<1> DEFINE n == watcher.now
<1>1. /\ Typed /\ pr \in [PRs -> PR] /\ watcher \in WatcherRec /\ listed \in Listings
      /\ n \in DOMAIN listed /\ UNCHANGED <<issue, tool, closers>>
  BY DEF IInv, Typed, PlaceInv, AtListed, Merge, At, Now
<1>2. n \in PRs
  BY <1>1, ListingFacts
<1>3. NoneOpens /\ issue' \in [Issues -> IssueRec]
  BY <1>1 DEF NoneOpens, Typed
<1>4. CASE /\ MergePullRequest(n) /\ NoFault /\ UNCHANGED listed
           /\ watcher' = [watcher EXCEPT !.at = "close", !.todo = pr[n].mentions]
  <2>1. /\ pr' \in [PRs -> PR] /\ \A m \in PRs : Follows(pr[m], pr'[m])
        /\ pr'[n].state = "merged" /\ pr'[n].mentions = pr[n].mentions
    BY <1>1, <1>2, <1>4, MergeFacts
  <2>2. pr[n].mentions \in SUBSET Items
    BY <1>1, <1>2 DEF PR
  <2> DEFINE w1 == [watcher EXCEPT !.at = "close"]
             w == [w1 EXCEPT !.todo = pr[n].mentions]
  <2>3. watcher' = w
    BY <1>1, <1>4 DEF WatcherRec
  <2>4. w1 \in WatcherRec /\ w1.at = "close" /\ w1.now = n
    BY <1>1 DEF WatcherRec, Steps
  <2> HIDE DEF w1
  <2>5. w \in WatcherRec /\ w.at = "close" /\ w.now = n /\ w.todo = pr[n].mentions
    BY <2>2, <2>4 DEF WatcherRec
  <2> HIDE DEF w
  <2>6. upsets' \in 0..MaxUpsets
    BY <1>1, <1>4, Counted
  <2>7. Typed'
    BY <1>1, <1>4, <2>1, <2>3, <2>5, <2>6 DEF Typed
  <2>8. PlaceInv'
    BY <1>1, <1>4, <2>1, <2>3, <2>5 DEF PlaceInv, AtListed, AtCreate, AtMerge, AtClose, At, Now
  <2>9. RemedyInv'
    BY <1>1 DEF IInv, RemedyInv
  <2> QED
    BY <1>1, <2>1, <2>7, <2>8, <2>9, WatcherKeeps
<1>5. CASE Continue /\ (Upset \/ NoFault) /\ (MergePullRequest(n) \/ UNCHANGED pr)
  <2>1. pr' \in [PRs -> PR] /\ \A m \in PRs : Follows(pr[m], pr'[m])
    <3>1. CASE MergePullRequest(n)
      BY <1>1, <1>2, <3>1, MergeFacts
    <3>2. CASE UNCHANGED pr
      BY <1>1, <3>2, NoneChanges
    <3> QED
      BY <1>5, <3>1, <3>2
  <2> QED
    BY <1>1, <1>3, <1>5, <2>1, ContinueKeeps
<1> QED
  BY <1>4, <1>5 DEF Merge, Fault, Now

\* What is closed of pull requests was open.
LEMMA ClosedFacts ==
    ASSUME Typed, NEW x \in Items, Closed(x)
    PROVE  /\ pr' \in [PRs -> PR] /\ \A m \in PRs : Follows(pr[m], pr'[m])
           /\ issue' \in [Issues -> IssueRec] /\ NoneOpens
<1>1. pr \in [PRs -> PR] /\ issue \in [Issues -> IssueRec]
  BY DEF Typed
<1>2. CASE x \in Issues
  <2> DEFINE q == [issue[x] EXCEPT !.state = "closed"]
  <2>1. q \in IssueRec /\ q.state = "closed"
    BY <1>1, <1>2 DEF IssueRec
  <2>2. issue' = [issue EXCEPT ![x] = q] /\ UNCHANGED pr
    BY <1>1, <1>2 DEF Closed
  <2> HIDE DEF q
  <2>3. issue' \in [Issues -> IssueRec] /\ NoneOpens
    BY <1>1, <1>2, <2>1, <2>2 DEF NoneOpens
  <2> QED
    BY <1>1, <2>2, <2>3, NoneChanges
<1>3. CASE x \notin Issues
  <2>1. x \in PRs
    BY <1>3 DEF Items
  <2> DEFINE q == [pr[x] EXCEPT !.state = IF pr[x].state = "open" THEN "closed" ELSE pr[x].state]
  <2>2. q \in PR /\ Follows(pr[x], q)
    BY <1>1, <2>1 DEF PR, Follows
  <2>3. pr' = [pr EXCEPT ![x] = q] /\ UNCHANGED issue
    BY <1>1, <1>3, <2>1 DEF Closed
  <2> HIDE DEF q
  <2> QED
    BY <1>1, <2>1, <2>2, <2>3, OneChanges DEF NoneOpens
<1> QED
  BY <1>2, <1>3

\* Only what the merged pull request mentions is closed.
LEMMA CloseLinkedIssueKeeps ==
    ASSUME IInv, CloseLinkedIssue
    PROVE  IInv'
<1> DEFINE n == watcher.now
<1>1. /\ Typed /\ pr \in [PRs -> PR] /\ watcher \in WatcherRec /\ listed \in Listings
      /\ issue \in [Issues -> IssueRec] /\ closers \subseteq Items \X PRs /\ RemedyInv
      /\ n \in DOMAIN listed /\ watcher.at = "close" /\ UNCHANGED tool
      /\ pr[n].state = "merged" /\ watcher.todo \subseteq pr[n].mentions
      /\ watcher.todo \subseteq Items
  BY DEF IInv, Typed, PlaceInv, AtListed, AtClose, CloseLinkedIssue, At, Now, WatcherRec
<1>2. n \in PRs
  BY <1>1, ListingFacts
<1>3. CASE Continue /\ UNCHANGED <<pr, issue, upsets, closers>>
  <2>1. NoneOpens /\ \A m \in PRs : Follows(pr[m], pr'[m])
    BY <1>3, NoneChanges DEF NoneOpens
  <2> QED
    BY <1>1, <1>3, <2>1, ContinueKeeps DEF NoFault
<1>4. ASSUME NEW x \in watcher.todo, Closed(x), NoFault,
             watcher' = [watcher EXCEPT !.at = "label done", !.item = x],
             closers' = closers \cup {<<x, Now>>}, UNCHANGED listed
      PROVE  IInv'
  <2>1. x \in Items /\ x \in pr[n].mentions
    BY <1>1
  <2>2. /\ pr' \in [PRs -> PR] /\ \A m \in PRs : Follows(pr[m], pr'[m])
        /\ issue' \in [Issues -> IssueRec] /\ NoneOpens
    BY <1>1, <1>4, <2>1, ClosedFacts
  <2> DEFINE w1 == [watcher EXCEPT !.at = "label done"]
             w == [w1 EXCEPT !.item = x]
  <2>3. watcher' = w
    BY <1>1, <1>4 DEF WatcherRec
  <2>4. w1 \in WatcherRec /\ w1.at = "label done" /\ w1.now = n /\ w1.todo = watcher.todo
    BY <1>1 DEF WatcherRec, Steps
  <2> HIDE DEF w1
  <2>5. w \in WatcherRec /\ w.at = "label done" /\ w.now = n /\ w.todo = watcher.todo /\ w.item = x
    BY <2>1, <2>4 DEF WatcherRec
  <2> HIDE DEF w
  <2>6. upsets' \in 0..MaxUpsets
    BY <1>1, <1>4, Counted
  <2>7. closers' \subseteq Items \X PRs
    BY <1>1, <1>2, <1>4, <2>1 DEF Now
  <2>8. Typed'
    BY <1>1, <1>4, <2>2, <2>3, <2>5, <2>6, <2>7 DEF Typed
  <2>9. PlaceInv'
    <3>1. pr'[n].state = "merged" /\ pr'[n].mentions = pr[n].mentions
      BY <1>1, <1>2, <2>2 DEF Follows
    <3>2. /\ watcher'.at = "label done" /\ watcher'.now = n
          /\ watcher'.todo \subseteq pr'[n].mentions /\ watcher'.item \in Items
          /\ n \in DOMAIN listed'
      BY <1>1, <1>4, <2>1, <2>3, <2>5, <3>1
    <3> QED
      BY <3>1, <3>2 DEF PlaceInv, AtListed, AtCreate, AtMerge, AtClose, At, Now
  <2>10. RemedyInv'
    BY <1>1, <2>2 DEF RemedyInv, NoneOpens
  <2>11. \A c \in closers' : c \in closers \/ (pr[c[2]].state = "merged" /\ c[1] \in pr[c[2]].mentions)
    BY <1>1, <1>4, <2>1 DEF Now
  <2> QED
    BY <2>2, <2>8, <2>9, <2>10, <2>11, WatcherKeeps
<1>5. ASSUME NEW x \in watcher.todo, Fault,
             watcher' = [watcher EXCEPT !.todo = @ \ {x}],
             UNCHANGED <<pr, issue, listed, closers>>
      PROVE  IInv'
  <2> DEFINE w == [watcher EXCEPT !.todo = watcher.todo \ {x}]
  <2>1. w \in WatcherRec /\ w.at = "close" /\ w.now = n /\ w.todo \subseteq watcher.todo
    BY <1>1 DEF WatcherRec
  <2>2. watcher' = w
    BY <1>5
  <2> HIDE DEF w
  <2>3. upsets' \in 0..MaxUpsets
    BY <1>1, <1>5, Counted DEF Fault
  <2>4. Typed'
    BY <1>1, <1>5, <2>1, <2>2, <2>3 DEF Typed
  <2>5. PlaceInv'
    BY <1>1, <1>5, <2>1, <2>2 DEF PlaceInv, AtListed, AtCreate, AtMerge, AtClose, At, Now
  <2>6. RemedyInv'
    BY <1>1, <1>5 DEF RemedyInv
  <2> QED
    BY <1>5, <2>4, <2>5, <2>6, NoneChanges, WatcherKeeps
<1> QED
  BY <1>3, <1>4, <1>5 DEF CloseLinkedIssue

\* What was closed is labelled.
LEMMA LabelDoneKeeps ==
    ASSUME IInv, LabelDone
    PROVE  IInv'
<1> DEFINE n == watcher.now
           x == watcher.item
<1>1. /\ Typed /\ pr \in [PRs -> PR] /\ watcher \in WatcherRec /\ listed \in Listings
      /\ issue \in [Issues -> IssueRec] /\ RemedyInv
      /\ n \in DOMAIN listed /\ UNCHANGED <<listed, tool, closers>>
      /\ pr[n].state = "merged" /\ watcher.todo \subseteq pr[n].mentions
      /\ x \in Items
  BY DEF IInv, Typed, PlaceInv, AtListed, AtClose, LabelDone, At, Now, WatcherRec
<1>2. n \in PRs
  BY <1>1, ListingFacts
<1>3. /\ pr' \in [PRs -> PR] /\ \A m \in PRs : Follows(pr[m], pr'[m])
      /\ issue' \in [Issues -> IssueRec] /\ NoneOpens
  <2>1. CASE UNCHANGED <<pr, issue>>
    BY <1>1, <2>1, NoneChanges DEF NoneOpens
  <2>2. CASE x \in Issues /\ issue' = [issue EXCEPT ![x].about = None, ![x].done = TRUE] /\ UNCHANGED pr
    <3> DEFINE q1 == [issue[x] EXCEPT !.about = None]
               q == [q1 EXCEPT !.done = TRUE]
    <3>1. issue' = [issue EXCEPT ![x] = q]
      BY <1>1, <2>2 DEF IssueRec
    <3>2. q1 \in IssueRec /\ q1.about = None
      BY <1>1, <2>2 DEF IssueRec
    <3> HIDE DEF q1
    <3>3. q \in IssueRec /\ q.about = None
      BY <3>2 DEF IssueRec
    <3> HIDE DEF q
    <3>4. None \notin PRs
      BY PullRequestAssumption DEF Items
    <3>5. issue' \in [Issues -> IssueRec] /\ NoneOpens
      BY <1>1, <2>2, <3>1, <3>3, <3>4 DEF NoneOpens
    <3> QED
      BY <1>1, <2>2, <3>5, NoneChanges
  <2>3. CASE x \notin Issues /\ pr' = [pr EXCEPT ![x] = [Touched(x) EXCEPT !.labels = {"done"}]] /\ UNCHANGED issue
    <3> DEFINE q == [Touched(x) EXCEPT !.labels = {"done"}]
    <3>1. x \in PRs
      BY <1>1, <2>3 DEF Items
    <3>2. /\ Touched(x) \in PR /\ Touched(x).state = pr[x].state
          /\ Touched(x).mentions = pr[x].mentions
      BY <1>1, <3>1, TouchedFacts DEF Touched
    <3>3. q \in PR /\ Follows(pr[x], q)
      BY <3>2, LabelledFacts DEF Follows, Labels
    <3>4. pr' = [pr EXCEPT ![x] = q]
      BY <2>3
    <3> HIDE DEF q
    <3> QED
      BY <1>1, <2>3, <3>1, <3>3, <3>4, OneChanges DEF NoneOpens
  <2> QED
    BY <2>1, <2>2, <2>3 DEF LabelDone
<1>4. upsets' \in 0..MaxUpsets
  BY <1>1, Counted DEF LabelDone, Fault
<1> DEFINE w1 == [watcher EXCEPT !.at = "close"]
           w2 == [w1 EXCEPT !.item = None]
           w == [w2 EXCEPT !.todo = watcher.todo \ {x}]
<1>5. watcher' = w
  BY <1>1 DEF WatcherRec, LabelDone
<1>6. w1 \in WatcherRec /\ w1.at = "close" /\ w1.now = n
  BY <1>1 DEF WatcherRec, Steps
<1> HIDE DEF w1
<1>7. w2 \in WatcherRec /\ w2.at = "close" /\ w2.now = n
  BY <1>6 DEF WatcherRec
<1> HIDE DEF w2
<1>8. w \in WatcherRec /\ w.at = "close" /\ w.now = n /\ w.todo \subseteq watcher.todo
  BY <1>1, <1>7 DEF WatcherRec
<1> HIDE DEF w
<1>9. Typed'
  BY <1>1, <1>3, <1>4, <1>5, <1>8 DEF Typed
<1>10. PlaceInv'
  <2>1. pr'[n].state = "merged" /\ pr'[n].mentions = pr[n].mentions
    BY <1>1, <1>2, <1>3 DEF Follows
  <2>2. /\ watcher'.at = "close" /\ watcher'.now = n
        /\ watcher'.todo \subseteq pr'[n].mentions /\ n \in DOMAIN listed'
    BY <1>1, <1>5, <1>8, <2>1
  <2> QED
    BY <2>1, <2>2 DEF PlaceInv, AtListed, AtCreate, AtMerge, AtClose, At, Now
<1>11. RemedyInv'
  BY <1>1, <1>3 DEF RemedyInv, NoneOpens
<1> QED
  BY <1>1, <1>3, <1>9, <1>10, <1>11, WatcherKeeps

(***************************************************************************)
(* The steps of the tools, the agent, people, CI and time.                 *)
(***************************************************************************)

\* A step of a tool or of the environment.
LEMMA EnvironmentKeeps ==
    ASSUME IInv, UNCHANGED <<watcher, listed, closers>>, Upset \/ NoFault,
           tool' \in ToolRec, tool'.at \in {"checks", "merge", "review"} => tool'.now \in PRs,
           pr' \in [PRs -> PR], \A n \in PRs : Follows(pr[n], pr'[n]),
           issue' \in [Issues -> IssueRec], NoneOpens
    PROVE  IInv'
<1>1. Typed
  BY DEF IInv
<1>2. upsets' \in 0..MaxUpsets
  BY <1>1, Counted
<1>3. Typed'
  BY <1>1, <1>2 DEF Typed
<1> QED
  BY <1>3, OthersKeep

\* A tool that moves on.
LEMMA ToolKeeps ==
    ASSUME IInv, ToolUnchanged, UNCHANGED pr, Upset \/ NoFault,
           tool' \in ToolRec, tool'.at \in {"checks", "merge", "review"} => tool'.now \in PRs
    PROVE  IInv'
<1>1. pr' \in [PRs -> PR] /\ issue' \in [Issues -> IssueRec]
  BY DEF IInv, Typed, ToolUnchanged
<1>2. NoneOpens /\ \A n \in PRs : Follows(pr[n], pr'[n])
  BY NoneChanges DEF NoneOpens, ToolUnchanged
<1> QED
  BY <1>1, <1>2, EnvironmentKeeps DEF ToolUnchanged

\* A call that ended, and calls at other steps, of other pull requests, with other listings.
LEMMA ToolFacts ==
    /\ NoCall \in ToolRec /\ NoCall.at = "idle"
    /\ \A t \in ToolRec, step \in {"idle", "list", "pick", "checks", "merge", "review"} :
         LET u == [t EXCEPT !.at = step]
         IN  u \in ToolRec /\ u.at = step /\ u.now = t.now /\ u.seen = t.seen
    /\ \A t \in ToolRec, n \in PRs :
         LET u == [t EXCEPT !.now = n]
         IN  u \in ToolRec /\ u.at = t.at /\ u.now = n /\ u.seen = t.seen
    /\ \A t \in ToolRec, l \in Listings :
         LET u == [t EXCEPT !.seen = l]
         IN  u \in ToolRec /\ u.at = t.at /\ u.now = t.now
    /\ \A t \in ToolRec, d \in BOOLEAN :
         LET u == [t EXCEPT !.dry = d]
         IN  u \in ToolRec /\ u.at = t.at /\ u.now = t.now
<1>1. NoCall \in ToolRec /\ NoCall.at = "idle"
  <2>1. <<>> \in [{} -> SnapRec]
    OBVIOUS
  <2>2. {} \in SUBSET PRs
    OBVIOUS
  <2>3. <<>> \in Listings
    BY <2>1, <2>2 DEF Listings
  <2> QED
    BY <2>3 DEF NoCall, ToolRec
<1>2. \A t \in ToolRec, step \in {"idle", "list", "pick", "checks", "merge", "review"} :
         LET u == [t EXCEPT !.at = step]
         IN  u \in ToolRec /\ u.at = step /\ u.now = t.now /\ u.seen = t.seen
  BY DEF ToolRec
<1>3. \A t \in ToolRec, n \in PRs :
         LET u == [t EXCEPT !.now = n]
         IN  u \in ToolRec /\ u.at = t.at /\ u.now = n /\ u.seen = t.seen
  BY DEF ToolRec
<1>4. \A t \in ToolRec, l \in Listings :
         LET u == [t EXCEPT !.seen = l]
         IN  u \in ToolRec /\ u.at = t.at /\ u.now = t.now
  BY DEF ToolRec
<1>5. \A t \in ToolRec, d \in BOOLEAN :
         LET u == [t EXCEPT !.dry = d]
         IN  u \in ToolRec /\ u.at = t.at /\ u.now = t.now
  BY DEF ToolRec
<1> QED
  BY <1>1, <1>2, <1>3, <1>4, <1>5

\* A call passes over a pull request.
LEMMA SkipFacts ==
    ASSUME tool \in ToolRec, ToolSkips
    PROVE  tool' \in ToolRec /\ tool'.at = "pick"
<1> DEFINE l == Restrict(tool.seen, DOMAIN tool.seen \ {tool.now})
           t1 == [tool EXCEPT !.at = "pick"]
           t == [t1 EXCEPT !.seen = l]
<1>1. tool.seen \in Listings
  BY DEF ToolRec
<1>2. l \in Listings
  BY <1>1, Rest
<1>3. tool' = t
  BY DEF ToolSkips, ToolRec
<1> HIDE DEF l
<1>4. t1 \in ToolRec /\ t1.at = "pick"
  BY ToolFacts
<1> HIDE DEF t1
<1>5. t \in ToolRec /\ t.at = "pick"
  BY <1>2, <1>4, ToolFacts
<1> HIDE DEF t
<1> QED
  BY <1>3, <1>5

\* bulk_merge is called.
LEMMA HandleBulkMergeKeeps ==
    ASSUME IInv, HandleBulkMerge
    PROVE  IInv'
<1>1. tool \in ToolRec /\ ToolUnchanged /\ UNCHANGED pr /\ Upset
  BY DEF IInv, Typed, HandleBulkMerge, Event, ToolUnchanged
<1>2. PICK dry \in BOOLEAN : tool' = [tool EXCEPT !.at = "list", !.dry = dry]
  BY DEF HandleBulkMerge
<1> DEFINE t1 == [tool EXCEPT !.at = "list"]
           t == [t1 EXCEPT !.dry = dry]
<1>3. tool' = t
  BY <1>1, <1>2 DEF ToolRec
<1>4. t1 \in ToolRec /\ t1.at = "list"
  BY <1>1, ToolFacts
<1> HIDE DEF t1
<1>5. t \in ToolRec /\ t.at = "list"
  BY <1>4, ToolFacts
<1> HIDE DEF t
<1> QED
  BY <1>1, <1>3, <1>5, ToolKeeps

\* It lists the first page of the open pull requests.
LEMMA BulkListKeeps ==
    ASSUME IInv, BulkList
    PROVE  IInv'
<1>1. /\ tool \in ToolRec /\ pr \in [PRs -> PR] /\ ToolUnchanged /\ UNCHANGED pr
      /\ (Upset \/ NoFault)
  BY DEF IInv, Typed, BulkList, Fault
<1> DEFINE l == [n \in FirstPage |-> Ageless(n)]
           t1 == [tool EXCEPT !.at = "pick"]
           t == [t1 EXCEPT !.seen = l]
<1>2. FirstPage \in SUBSET PRs
  BY DEF FirstPage, OpenPRs
<1>3. l \in [FirstPage -> SnapRec]
  BY <1>1, <1>2, SnapshotFacts
<1>4. l \in Listings
  BY <1>2, <1>3, IsListing
<1>5. t = [tool EXCEPT !.at = "pick", !.seen = l]
  BY <1>1 DEF ToolRec
<1>6. tool' = t \/ tool' = NoCall
  BY <1>5 DEF BulkList
<1> HIDE DEF l
<1>7. t1 \in ToolRec /\ t1.at = "pick"
  BY <1>1, ToolFacts
<1> HIDE DEF t1
<1>8. t \in ToolRec /\ t.at = "pick"
  BY <1>4, <1>7, ToolFacts
<1> HIDE DEF t
<1> QED
  BY <1>1, <1>6, <1>8, ToolFacts, ToolKeeps

\* It picks one.
LEMMA BulkPickKeeps ==
    ASSUME IInv, BulkPick
    PROVE  IInv'
<1>1. tool \in ToolRec /\ tool.at = "pick" /\ ToolUnchanged /\ UNCHANGED pr /\ NoFault
  BY DEF IInv, Typed, BulkPick, ToolAt, NoFault
<1>2. tool.seen \in Listings
  BY <1>1 DEF ToolRec
<1>3. CASE tool' = NoCall
  BY <1>1, <1>3, ToolFacts, ToolKeeps
<1>4. CASE \E n \in DOMAIN tool.seen : tool' = [tool EXCEPT !.at = "checks", !.now = n]
  <2>1. PICK n \in DOMAIN tool.seen : tool' = [tool EXCEPT !.at = "checks", !.now = n]
    BY <1>4
  <2> DEFINE t1 == [tool EXCEPT !.at = "checks"]
             t == [t1 EXCEPT !.now = n]
  <2>2. tool' = t
    BY <1>1, <2>1 DEF ToolRec
  <2>3. n \in PRs
    BY <1>2, ListingFacts
  <2>4. t1 \in ToolRec /\ t1.at = "checks"
    BY <1>1, ToolFacts
  <2> HIDE DEF t1
  <2>5. t \in ToolRec /\ t.now = n
    BY <2>3, <2>4, ToolFacts
  <2> HIDE DEF t
  <2> QED
    BY <1>1, <2>2, <2>3, <2>5, ToolKeeps
<1>5. CASE \E n \in DOMAIN tool.seen :
             tool' = [tool EXCEPT !.seen = Restrict(@, DOMAIN @ \ {n})]
  <2>1. PICK n \in DOMAIN tool.seen : tool' = [tool EXCEPT !.seen = Restrict(@, DOMAIN @ \ {n})]
    BY <1>5
  <2> DEFINE l == Restrict(tool.seen, DOMAIN tool.seen \ {n})
  <2>2. l \in Listings
    BY <1>2, Rest
  <2>3. tool' = [tool EXCEPT !.seen = l]
    BY <2>1
  <2> HIDE DEF l
  <2>4. tool' \in ToolRec /\ tool'.at = "pick"
    BY <1>1, <2>2, <2>3, ToolFacts
  <2> QED
    BY <1>1, <2>4, ToolKeeps
<1> QED
  BY <1>3, <1>4, <1>5 DEF BulkPick

\* It looks at the checks.
LEMMA BulkChecksKeeps ==
    ASSUME IInv, BulkChecks
    PROVE  IInv'
<1>1. /\ tool \in ToolRec /\ tool.now \in PRs /\ ToolUnchanged /\ UNCHANGED pr
      /\ (Upset \/ NoFault)
  BY DEF IInv, Typed, BulkChecks, ToolAt, Fault
<1>2. CASE ToolGoes("merge")
  <2>1. tool' \in ToolRec /\ tool'.now \in PRs
    BY <1>1, <1>2, ToolFacts DEF ToolGoes
  <2> QED
    BY <1>1, <2>1, ToolKeeps
<1>3. CASE ToolSkips
  BY <1>1, <1>3, SkipFacts, ToolKeeps
<1> QED
  BY <1>2, <1>3 DEF BulkChecks

\* It, or a client after a review, merges.
LEMMA BulkMergeKeeps ==
    ASSUME IInv, BulkMerge
    PROVE  IInv'
<1>1. /\ Typed /\ tool \in ToolRec /\ tool.now \in PRs /\ pr \in [PRs -> PR]
      /\ ToolUnchanged /\ ToolSkips /\ (Upset \/ NoFault)
      /\ MergePullRequest(tool.now) \/ UNCHANGED pr
  BY DEF IInv, Typed, BulkMerge, ToolAt, Fault
<1>2. pr' \in [PRs -> PR] /\ \A m \in PRs : Follows(pr[m], pr'[m])
  <2>1. CASE MergePullRequest(tool.now)
    BY <1>1, <2>1, MergeFacts
  <2>2. CASE UNCHANGED pr
    BY <1>1, <2>2, NoneChanges
  <2> QED
    BY <1>1, <2>1, <2>2
<1>3. tool' \in ToolRec /\ tool'.at = "pick"
  BY <1>1, SkipFacts
<1>4. issue' \in [Issues -> IssueRec] /\ NoneOpens
  BY <1>1 DEF Typed, NoneOpens, ToolUnchanged
<1> QED
  BY <1>1, <1>2, <1>3, <1>4, EnvironmentKeeps DEF ToolUnchanged

\* review_pr is called.
LEMMA HandleReviewPRKeeps ==
    ASSUME IInv, HandleReviewPR
    PROVE  IInv'
<1>1. /\ tool \in ToolRec /\ pr \in [PRs -> PR] /\ ToolUnchanged /\ UNCHANGED pr /\ Upset
  BY DEF IInv, Typed, HandleReviewPR, Event, ToolUnchanged
<1>2. PICK n \in OpenPRs : tool' = [tool EXCEPT !.at = "review", !.now = n,
                                                !.seen = [m \in {n} |-> Ageless(m)]]
  BY DEF HandleReviewPR
<1>3. n \in PRs
  BY DEF OpenPRs
<1> DEFINE l == [m \in {n} |-> Ageless(m)]
           t1 == [tool EXCEPT !.at = "review"]
           t2 == [t1 EXCEPT !.now = n]
           t == [t2 EXCEPT !.seen = l]
<1>4. l \in [{n} -> SnapRec]
  BY <1>1, <1>3, SnapshotFacts
<1>5. l \in Listings
  BY <1>3, <1>4, IsListing
<1>6. t = [tool EXCEPT !.at = "review", !.now = n, !.seen = l]
  BY <1>1 DEF ToolRec
<1>7. tool' = t
  BY <1>2, <1>6
<1> HIDE DEF l
<1>8. t1 \in ToolRec
  BY <1>1, ToolFacts
<1> HIDE DEF t1
<1>9. t2 \in ToolRec /\ t2.now = n
  BY <1>3, <1>8, ToolFacts
<1> HIDE DEF t2
<1>10. t \in ToolRec /\ t.now = n
  BY <1>5, <1>9, ToolFacts
<1> HIDE DEF t
<1> QED
  BY <1>1, <1>3, <1>7, <1>10, ToolKeeps

\* What was found eligible is to be merged.
LEMMA ReviewChecksKeeps ==
    ASSUME IInv, ReviewChecks
    PROVE  IInv'
<1>1. /\ tool \in ToolRec /\ tool.now \in PRs /\ ToolUnchanged /\ UNCHANGED pr
      /\ (Upset \/ NoFault) /\ (tool' = [tool EXCEPT !.at = "merge"] \/ tool' = NoCall)
  BY DEF IInv, Typed, ReviewChecks, ToolAt, Fault
<1>2. CASE tool' = [tool EXCEPT !.at = "merge"]
  <2>1. tool' \in ToolRec /\ tool'.now \in PRs
    BY <1>1, <1>2, ToolFacts
  <2> QED
    BY <1>1, <2>1, ToolKeeps
<1>3. CASE tool' = NoCall
  BY <1>1, <1>3, ToolFacts, ToolKeeps
<1> QED
  BY <1>1, <1>2, <1>3

\* One pull request changes, and nothing else does.
LEMMA ChangeKeeps ==
    ASSUME IInv, NEW n \in PRs, NEW q \in PR, Follows(pr[n], q), pr' = [pr EXCEPT ![n] = q],
           Upset \/ NoFault, UNCHANGED issue, Others
    PROVE  IInv'
<1>1. /\ pr \in [PRs -> PR] /\ tool' \in ToolRec /\ issue' \in [Issues -> IssueRec] /\ NoneOpens
      /\ tool'.at \in {"checks", "merge", "review"} => tool'.now \in PRs
  BY DEF IInv, Typed, Others, NoneOpens
<1>2. pr' \in [PRs -> PR] /\ \A m \in PRs : Follows(pr[m], pr'[m])
  BY <1>1, OneChanges
<1> QED
  BY <1>1, <1>2, EnvironmentKeeps DEF Others

\* A pull request that is opened.
LEMMA NewPRFacts ==
    ASSUME NEW title \in Titles, NEW mentions \in SUBSET Items
    PROVE  NewPR(title, mentions) \in PR
BY PullRequestAssumption DEF NewPR, PR, Statuses

\* An agent's.
LEMMA OpenPRKeeps ==
    ASSUME IInv, NEW n \in PRs, NEW i \in Issues, OpenPR(n, i)
    PROVE  IInv'
<1>1. issue[i] \in IssueRec
  BY DEF IInv, Typed
<1>2. PICK title \in AgentTitles, named \in SUBSET ({issue[i].about} \ {None}) :
         pr' = [pr EXCEPT ![n] = NewPR(title, {i} \cup named)]
  BY DEF OpenPR
<1> DEFINE q == NewPR(title, {i} \cup named)
<1>3. title \in Titles /\ ({i} \cup named) \in SUBSET Items
  BY <1>1, PullRequestAssumption DEF IssueRec, Items
<1>4. q \in PR
  BY <1>3, NewPRFacts
<1>5. pr' = [pr EXCEPT ![n] = q]
  BY <1>2
<1> HIDE DEF q
<1>6. Follows(pr[n], q)
  BY PullRequestAssumption DEF OpenPR, Unopened, Follows
<1> QED
  BY <1>4, <1>5, <1>6, ChangeKeeps DEF OpenPR, NoFault

\* A client's.
LEMMA ExecuteCreatePRKeeps ==
    ASSUME IInv, NEW n \in PRs, ExecuteCreatePR(n)
    PROVE  IInv'
<1>1. PICK title \in AgentTitles : pr' = [pr EXCEPT ![n] = NewPR(title, {})]
  BY DEF ExecuteCreatePR
<1> DEFINE q == NewPR(title, {})
<1>2. q \in PR
  BY NewPRFacts, PullRequestAssumption
<1>3. pr' = [pr EXCEPT ![n] = q]
  BY <1>1
<1> HIDE DEF q
<1>4. Follows(pr[n], q)
  BY PullRequestAssumption DEF ExecuteCreatePR, Unopened, Follows
<1> QED
  BY <1>2, <1>3, <1>4, ChangeKeeps DEF ExecuteCreatePR, Event

\* People change an open pull request.
LEMMA PersonKeeps ==
    ASSUME IInv, NEW n \in PRs, NEW p \in PR, Change(n, p)
    PROVE  IInv'
<1> DEFINE q == [p EXCEPT !.age = 0]
<1>1. q \in PR
  BY TouchedFacts
<1>2. pr' = [pr EXCEPT ![n] = q]
  BY DEF Change
<1> HIDE DEF q
<1>3. Follows(pr[n], q)
  BY DEF Change, Open, Follows
<1> QED
  BY <1>1, <1>2, <1>3, ChangeKeeps DEF Change, Event

\* They push, draft, comment, resolve and label.
LEMMA PeopleKeep ==
    ASSUME IInv, NEW n \in PRs, Push(n) \/ Draft(n) \/ Comment(n) \/ Resolve(n) \/ Relabel(n)
    PROVE  IInv'
<1>1. pr[n] \in PR
  BY DEF IInv, Typed
<1>2. CASE Push(n)
  <2> DEFINE p1 == [pr[n] EXCEPT !.checks = {"pending"}]
             p == [p1 EXCEPT !.mergeable = TRUE]
  <2>1. p = [pr[n] EXCEPT !.checks = {"pending"}, !.mergeable = TRUE]
    BY <1>1 DEF PR
  <2>2. p1 \in PR
    BY <1>1 DEF PR, Statuses
  <2> HIDE DEF p1
  <2>3. p \in PR
    BY <2>2 DEF PR
  <2>4. Change(n, p)
    BY <1>2, <2>1 DEF Push
  <2> HIDE DEF p
  <2> QED
    BY <2>3, <2>4, PersonKeeps
<1>3. CASE Draft(n)
  <2> DEFINE p == [pr[n] EXCEPT !.draft = ~pr[n].draft]
  <2>1. p \in PR
    BY <1>1 DEF PR
  <2>2. Change(n, p)
    BY <1>3 DEF Draft
  <2> HIDE DEF p
  <2> QED
    BY <2>1, <2>2, PersonKeeps
<1>4. CASE Comment(n)
  <2>1. PICK c \in Comments : Change(n, [pr[n] EXCEPT !.comments = @ \cup {<<c, FALSE>>}])
    BY <1>4 DEF Comment
  <2> DEFINE p == [pr[n] EXCEPT !.comments = pr[n].comments \cup {<<c, FALSE>>}]
  <2>2. pr[n].comments \cup {<<c, FALSE>>} \in SUBSET (Comments \X BOOLEAN)
    <3>1. pr[n].comments \in SUBSET (Comments \X BOOLEAN)
      BY <1>1 DEF PR
    <3>2. <<c, FALSE>> \in Comments \X BOOLEAN
      OBVIOUS
    <3> HIDE DEF p
    <3> QED
      BY ONLY <3>1, <3>2
  <2>3. p \in PR
    BY <1>1, <2>2 DEF PR
  <2>4. Change(n, p)
    BY <2>1
  <2> HIDE DEF p
  <2> QED
    BY <2>3, <2>4, PersonKeeps
<1>5. CASE Resolve(n)
  <2>1. PICK x \in pr[n].comments :
           Change(n, [pr[n] EXCEPT !.comments = (@ \ {x}) \cup {<<x[1], TRUE>>}])
    BY <1>5 DEF Resolve
  <2> DEFINE p == [pr[n] EXCEPT !.comments = (pr[n].comments \ {x}) \cup {<<x[1], TRUE>>}]
  <2>2. pr[n].comments \in SUBSET (Comments \X BOOLEAN)
    BY <1>1 DEF PR
  <2>3. <<x[1], TRUE>> \in Comments \X BOOLEAN
    BY <2>2
  <2>4. p \in PR
    BY <1>1, <2>2, <2>3 DEF PR
  <2>5. Change(n, p)
    BY <2>1
  <2> HIDE DEF p
  <2> QED
    BY <2>4, <2>5, PersonKeeps
<1>6. CASE Relabel(n)
  <2>1. PICK l \in PeopleSet :
           Change(n, [pr[n] EXCEPT !.labels = IF l \in @ THEN @ \ {l} ELSE @ \cup {l}])
    BY <1>6 DEF Relabel
  <2> DEFINE ls == IF l \in pr[n].labels THEN pr[n].labels \ {l} ELSE pr[n].labels \cup {l}
             p == [pr[n] EXCEPT !.labels = ls]
  <2>2. Change(n, p)
    BY <2>1
  <2>3. l \in Labels /\ pr[n].labels \in SUBSET Labels
    BY <1>1, PullRequestAssumption DEF PR
  <2>4. ls \in SUBSET Labels
    BY <2>3
  <2> HIDE DEF ls
  <2>5. p \in PR
    BY <1>1, <2>4, LabelledFacts
  <2> HIDE DEF p
  <2> QED
    BY <2>2, <2>5, PersonKeeps
<1> QED
  BY <1>2, <1>3, <1>4, <1>5, <1>6

\* CI reports.
LEMMA CIReportsKeeps ==
    ASSUME IInv, NEW n \in PRs, CIReports(n)
    PROVE  IInv'
<1>1. pr[n] \in PR
  BY DEF IInv, Typed
<1>2. PICK s \in {{"success"}, {"success", "failure"}} : pr' = [pr EXCEPT ![n].checks = s]
  BY DEF CIReports
<1> DEFINE q == [pr[n] EXCEPT !.checks = s]
<1>3. q \in PR /\ Follows(pr[n], q)
  BY <1>1 DEF PR, Statuses, Follows
<1>4. pr' = [pr EXCEPT ![n] = q]
  BY <1>2
<1> HIDE DEF q
<1> QED
  BY <1>3, <1>4, ChangeKeeps DEF CIReports, NoFault

\* An issue is closed.
LEMMA CloseIssueKeeps ==
    ASSUME IInv, NEW i \in Issues, CloseIssue(i)
    PROVE  IInv'
<1>1. /\ issue \in [Issues -> IssueRec] /\ tool' \in ToolRec /\ pr' \in [PRs -> PR]
      /\ tool'.at \in {"checks", "merge", "review"} => tool'.now \in PRs
      /\ UNCHANGED <<watcher, listed, closers, pr>> /\ Upset
  BY DEF IInv, Typed, CloseIssue, Others, Event
<1> DEFINE q == [issue[i] EXCEPT !.state = "closed"]
<1>2. q \in IssueRec /\ q.state = "closed"
  BY <1>1 DEF IssueRec
<1>3. issue' = [issue EXCEPT ![i] = q]
  BY DEF CloseIssue
<1> HIDE DEF q
<1>4. issue' \in [Issues -> IssueRec] /\ NoneOpens
  BY <1>1, <1>2, <1>3 DEF NoneOpens
<1> QED
  BY <1>1, <1>4, NoneChanges, EnvironmentKeeps

\* What is a tick older is as old as it can be, or older.
LEMMA OlderFacts ==
    /\ \A p \in PR : Older(p) \in PR /\ Follows(p, Older(p))
    /\ \A s \in SnapRec : Older(s) \in SnapRec /\ (MayMerge(s) => MayMerge(Older(s)))
<1>1. Delay \in Nat
  BY PullRequestAssumption
<1>2. ASSUME NEW p \in PR
      PROVE  Older(p) \in PR /\ Follows(p, Older(p))
  <2> DEFINE a == IF p.age = Delay THEN p.age ELSE p.age + 1
  <2>1. a \in 0..Delay
    BY <1>1 DEF PR
  <2>2. Older(p) = [p EXCEPT !.age = a]
    BY DEF Older
  <2> HIDE DEF a
  <2> QED
    BY <2>1, <2>2 DEF PR, Follows
<1>3. ASSUME NEW s \in SnapRec
      PROVE  Older(s) \in SnapRec /\ (MayMerge(s) => MayMerge(Older(s)))
  <2> DEFINE a == IF s.age = Delay THEN s.age ELSE s.age + 1
  <2>1. a \in 0..Delay /\ s.age \in 0..Delay /\ (s.age >= Delay => a >= Delay)
    BY <1>1 DEF SnapRec
  <2>2. Older(s) = [s EXCEPT !.age = a]
    BY DEF Older
  <2> HIDE DEF a
  <2>3. /\ Older(s) \in SnapRec /\ Older(s).age = a
        /\ Older(s).labels = s.labels /\ Older(s).title = s.title
    BY <2>1, <2>2 DEF SnapRec
  <2>4. ClassifyPRTier(Older(s)) = ClassifyPRTier(s)
    BY <2>3 DEF ClassifyPRTier
  <2> QED
    BY <2>1, <2>3, <2>4 DEF MayMerge
<1> QED
  BY <1>2, <1>3

\* Time passes.
LEMMA TickKeeps ==
    ASSUME IInv, Tick
    PROVE  IInv'
<1>1. /\ Typed /\ pr \in [PRs -> PR] /\ listed \in Listings
      /\ UNCHANGED <<issue, watcher, tool, upsets, closers>>
  BY DEF IInv, Typed, Tick
<1>2. \A n \in PRs : pr'[n] = Older(pr[n]) \/ pr'[n] = pr[n]
  BY DEF Tick
<1>3. \A n \in PRs : pr'[n] \in PR /\ Follows(pr[n], pr'[n])
  BY <1>1, <1>2, OlderFacts DEF Follows
<1>4. pr' \in [PRs -> PR]
  <2>1. pr' = [n \in PRs |-> IF Open(n) THEN Older(pr[n]) ELSE pr[n]]
    BY DEF Tick
  <2>2. pr' = [n \in PRs |-> pr'[n]]
    BY <2>1
  <2> QED
    BY <1>3, <2>2
<1>5. /\ DOMAIN listed' = DOMAIN listed
      /\ \A n \in DOMAIN listed : listed'[n] = Older(listed[n])
      /\ listed' = [n \in DOMAIN listed |-> Older(listed[n])]
  BY DEF Tick
<1>6. \A n \in DOMAIN listed : listed[n] \in SnapRec /\ DOMAIN listed \in SUBSET PRs
  BY <1>1, ListingFacts
<1>7. \A n \in DOMAIN listed : Older(listed[n]) \in SnapRec
  BY <1>6, OlderFacts
<1>8. listed' \in [DOMAIN listed -> SnapRec] /\ DOMAIN listed \in SUBSET PRs
  BY <1>1, <1>5, <1>7, ListingFacts
<1>9. listed' \in Listings
  BY <1>8, IsListing
<1>10. Typed'
  BY <1>1, <1>4, <1>9 DEF Typed
<1>11. NoneOpens
  BY <1>1 DEF NoneOpens
<1>12. \A n \in DOMAIN listed : MayMerge(listed[n]) => MayMerge(listed'[n])
  BY <1>5, <1>6, OlderFacts
<1> QED
  BY <1>1, <1>3, <1>5, <1>10, <1>11, <1>12, OthersKeep

(***************************************************************************)
(* The theorems.                                                           *)
(***************************************************************************)

\* Initially the watcher rests and there is no remediation issue.
LEMMA Initially == Init => IInv
<1> SUFFICES ASSUME Init
             PROVE  IInv
  OBVIOUS
<1> USE DEF Init
<1>1. NoPR \in PR
  BY PullRequestAssumption DEF NoPR, PR, Titles
<1>2. pr \in [PRs -> PR]
  BY <1>1, PullRequestAssumption
<1>3. issue \in [Issues -> IssueRec] /\ \A i \in Issues : issue[i].about = None
  BY DEF IssueRec
<1>4. watcher \in WatcherRec /\ watcher.at = "idle"
  BY DEF Resting, WatcherRec, Steps
<1>5. <<>> \in Listings
  <2>1. <<>> \in [{} -> SnapRec]
    OBVIOUS
  <2> QED
    BY <2>1 DEF Listings
<1>6. tool \in ToolRec /\ tool.at = "idle"
  BY ToolFacts
<1>7. Typed
  BY <1>2, <1>3, <1>4, <1>5, <1>6, PullRequestAssumption DEF Typed
<1>8. PlaceInv
  BY <1>4 DEF PlaceInv, AtListed, AtCreate, AtMerge, AtClose, At
<1>9. RemedyInv
  BY <1>3, PullRequestAssumption DEF RemedyInv, Items
<1>10. ClosedByMerge
  BY DEF ClosedByMerge
<1> QED
  BY <1>7, <1>8, <1>9, <1>10 DEF IInv

\* Every step of the watcher, the tools, the agent, people, CI and time keeps it.
LEMMA StepKeeps == IInv /\ [Next]_vars => IInv'
<1> SUFFICES ASSUME IInv, [Next]_vars
             PROVE  IInv'
  OBVIOUS
<1>1. CASE WatcherStep
  BY <1>1, PollKeeps, PollEndsKeeps, PollNextKeeps, CheckReviewCommentsKeeps,
     CheckExistingKeeps, CreateRemediationKeeps, NoteRemediationKeeps, CheckTierKeeps,
     LabelTier3Keeps, MergeKeeps, CloseLinkedIssueKeeps, LabelDoneKeeps DEF WatcherStep
<1>2. CASE ToolStep
  BY <1>2, BulkListKeeps, BulkPickKeeps, BulkChecksKeeps, BulkMergeKeeps, ReviewChecksKeeps
     DEF ToolStep
<1>3. CASE Environment
  BY <1>3, HandleBulkMergeKeeps, HandleReviewPRKeeps, OpenPRKeeps, ExecuteCreatePRKeeps,
     PeopleKeep, CIReportsKeeps, CloseIssueKeeps DEF Environment
<1>4. CASE UNCHANGED vars
  <2>1. Typed /\ UNCHANGED <<pr, issue, watcher, listed, tool, upsets, closers>>
    BY <1>4 DEF IInv, vars
  <2>2. Typed' /\ NoneOpens
    BY <2>1 DEF Typed, NoneOpens
  <2> QED
    BY <2>1, <2>2, NoneChanges, OthersKeep
<1> QED
  BY <1>1, <1>2, <1>3, <1>4, TickKeeps DEF Next

\* The inductive invariant: what the watcher has established where it is.
THEOREM Inductive == Spec => []IInv
BY Initially, StepKeeps, PTL DEF Spec

\* Every variable of the pull requests keeps its type, whatever fails.
THEOREM TypeCorrect == Spec => []TypeOK
<1>1. IInv => TypeOK
  <2> SUFFICES ASSUME IInv
               PROVE  TypeOK
    OBVIOUS
  <2>1. Typed /\ AtListed
    BY DEF IInv, PlaceInv
  <2>2. \A n \in PRs : pr[n] \in PR
    BY <2>1 DEF Typed
  <2>3. /\ watcher.at \in Steps /\ watcher.item \in Items \cup {None}
        /\ watcher.now \in PRs \cup {None} /\ watcher.todo \subseteq Items
    BY <2>1 DEF Typed, WatcherRec
  <2>4. DOMAIN listed \subseteq PRs
    BY <2>1, ListingFacts DEF Typed
  <2>5. /\ tool.at \in {"idle", "list", "pick", "checks", "merge", "review"}
        /\ tool.seen \in Listings
    BY <2>1 DEF Typed, ToolRec
  <2>6. DOMAIN tool.seen \subseteq PRs
    BY <2>5, ListingFacts
  <2> QED
    BY <2>1, <2>2, <2>3, <2>4, <2>5, <2>6 DEF TypeOK, Typed, AtListed, Now, IssueRec
<1> QED
  BY <1>1, Inductive, PTL

\* checkReviewComments asks only where findExistingRemediation finds nothing, and
\* closeLinkedIssues follows a merge: for any pull requests and issues, whatever people and
\* tools do meanwhile and whatever calls fail, a pull request has at most one open
\* remediation issue, and what the watcher closed is mentioned by a merged one.
THEOREM InOrder == Spec => []IssuesInOrder
<1>1. IInv => IssuesInOrder
  <2> SUFFICES ASSUME IInv
               PROVE  IssuesInOrder
    OBVIOUS
  <2>1. ASSUME NEW n \in PRs
        PROVE  Cardinality(Remedies(n)) <= 1
    <3>1. \A i, j \in Remedies(n) : i = j
      BY DEF Remedies, IInv, RemedyInv
    <3>2. CASE Remedies(n) = {}
      BY <3>2, FS_EmptySet
    <3>3. CASE Remedies(n) # {}
      <4>1. PICK i : i \in Remedies(n)
        BY <3>3
      <4>2. Remedies(n) = {i}
        BY <3>1, <4>1
      <4>3. Cardinality(Remedies(n)) = 1
        BY <4>2, FS_Singleton
      <4> QED
        BY <4>3
    <3> QED
      BY <3>2, <3>3
  <2>2. ClosedByMerge
    BY DEF IInv
  <2> QED
    BY <2>1, <2>2 DEF IssuesInOrder, OneRemediation
<1> QED
  BY <1>1, Inductive, PTL

\* The tier delay: a pull request that is not Tier 1 and has not changed since it was listed
\* is merged from the watcher's merge step only at the delay's age or above.
THEOREM AfterDelay == Spec => MergedAfterDelay
<1> DEFINE Kept == \A n \in PRs :
         /\ pr[n].state = "open" /\ pr'[n].state = "merged" /\ At("merge") /\ Now = n
         /\ Untouched(n) /\ ClassifyPRTier(pr[n]) # 1
         => pr[n].age >= Delay
<1>1. IInv /\ [Next]_vars => [Kept]_vars
  <2> SUFFICES ASSUME IInv, NEW n \in PRs, At("merge"), Now = n, Untouched(n),
                      ClassifyPRTier(pr[n]) # 1
               PROVE  pr[n].age >= Delay
    OBVIOUS
  <2>1. MayMerge(listed[n])
    BY DEF IInv, PlaceInv, AtMerge
  <2>2. /\ listed[n].labels = pr[n].labels /\ listed[n].title = pr[n].title
        /\ listed[n].age = pr[n].age
    BY DEF Untouched, Snapshot
  <2>3. ClassifyPRTier(listed[n]) = ClassifyPRTier(pr[n])
    BY <2>2 DEF ClassifyPRTier
  <2> QED
    BY <2>1, <2>2, <2>3 DEF MayMerge
<1>2. Spec => [][Kept]_vars
  BY <1>1, Inductive, PTL DEF Spec
<1> QED
  BY <1>2 DEF MergedAfterDelay
=============================================================================
