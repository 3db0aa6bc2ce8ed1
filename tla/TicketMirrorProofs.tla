------------------------- MODULE TicketMirrorProofs -------------------------
(***************************************************************************)
(* Theorems about TicketMirror, for any number of pull requests, changes,  *)
(* deliveries on their way and faults, and any kinds of faults and of      *)
(* writers.                                                                *)
(***************************************************************************)
EXTENDS TicketMirror, WellFoundedInduction, TLAPS

(* Iteration. *)

Less == {p \in Nat \X Nat : p[1] < p[2]}

LEMMA NaturalInduction ==
  ASSUME NEW T, 0 \in T, \A n \in Nat : n \in T => n + 1 \in T
  PROVE  Nat \subseteq T
<1> SUFFICES ASSUME Nat \ T # {} PROVE FALSE
  OBVIOUS
<1>1. IsWellFoundedOn(Less, Nat)
  BY NatLessThanWellFounded DEF OpToRel, Less
<1>2. PICK n \in Nat \ T : \A m \in Nat \ T : <<m, n>> \notin Less
  <2>1. IsWellFoundedOn(Less, Nat \ T)
    BY <1>1, IsWellFoundedOnSubset
  <2>2. QED
    BY <2>1, WFMin
<1>3. n # 0 /\ n - 1 \in Nat /\ n = (n - 1) + 1
  BY <1>2
<1>4. <<n - 1, n>> \in Less
  BY <1>3 DEF Less
<1>5. n - 1 \in T
  BY <1>2, <1>3, <1>4
<1>6. QED
  BY <1>2, <1>3, <1>5

\* What a step that depends on its number makes of s, one step after the other.
Iterates(f, s, g, N) == f[0] = s /\ \A n \in 1..N : f[n] = g[<<f[n - 1], n>>]

LEMMA Iteration ==
  ASSUME NEW S, NEW s \in S, NEW N \in Nat, NEW g \in [S \X (1..N) -> S]
  PROVE  \E f \in [0..N -> S] : Iterates(f, s, g, N)
<1> DEFINE T == {M \in Nat : M <= N => \E f \in [0..M -> S] : Iterates(f, s, g, M)}
<1>1. 0 \in T
  <2>1. PICK f : f = [n \in 0..0 |-> s]
    OBVIOUS
  <2>2. f \in [0..0 -> S] /\ f[0] = s
    BY <2>1
  <2>3. QED
    BY <2>2 DEF Iterates
<1>2. ASSUME NEW M \in Nat, M \in T PROVE M + 1 \in T
  <2> SUFFICES ASSUME M + 1 <= N PROVE \E f \in [0..M + 1 -> S] : Iterates(f, s, g, M + 1)
    OBVIOUS
  <2>1. PICK f \in [0..M -> S] : Iterates(f, s, g, M)
    BY <1>2
  <2>2. PICK last : last = g[<<f[M], M + 1>>]
    OBVIOUS
  <2>3. f[M] \in S /\ M + 1 \in 1..N
    BY <1>2
  <2>4. last \in S
    BY <2>2, <2>3
  <2>5. PICK h : h = [n \in 0..M + 1 |-> IF n = M + 1 THEN last ELSE f[n]]
    OBVIOUS
  <2>6. h[M + 1] = last /\ \A n \in 0..M : h[n] = f[n]
    BY <1>2, <2>5
  <2>7. h \in [0..M + 1 -> S]
    <3>1. \A n \in 0..M + 1 : n = M + 1 \/ n \in 0..M
      BY <1>2
    <3>2. QED
      BY <2>4, <2>5, <3>1
  <2>8. Iterates(h, s, g, M + 1)
    <3>1. h[0] = s
      BY <1>2, <2>1, <2>6 DEF Iterates
    <3>2. ASSUME NEW n \in 1..M + 1 PROVE h[n] = g[<<h[n - 1], n>>]
      <4>1. CASE n = M + 1
        BY <1>2, <2>2, <2>6, <4>1
      <4>2. CASE n # M + 1
        <5>1. n \in 1..M /\ n - 1 \in 0..M /\ n \in 0..M
          BY <1>2, <4>2
        <5>2. QED
          BY <2>1, <2>6, <5>1 DEF Iterates
      <4>3. QED
        BY <4>1, <4>2
    <3>3. QED
      BY <3>1, <3>2 DEF Iterates
  <2>9. QED
    BY <2>7, <2>8
<1> HIDE DEF T
<1>3. N \in T
  BY <1>1, <1>2, NaturalInduction
<1>4. QED
  BY <1>3 DEF T

LEMMA SameIterates ==
  ASSUME NEW N \in Nat, NEW s, NEW g, NEW f, NEW h, Iterates(f, s, g, N), Iterates(h, s, g, N)
  PROVE  \A n \in 0..N : f[n] = h[n]
<1> DEFINE T == {n \in Nat : n <= N => f[n] = h[n]}
<1>1. 0 \in T
  BY DEF Iterates
<1>2. ASSUME NEW n \in Nat, n \in T PROVE n + 1 \in T
  <2> SUFFICES ASSUME n + 1 <= N PROVE f[n + 1] = h[n + 1]
    OBVIOUS
  <2>1. f[n] = h[n] /\ n + 1 \in 1..N /\ (n + 1) - 1 = n
    BY <1>2
  <2>2. f[n + 1] = g[<<f[n], n + 1>>] /\ h[n + 1] = g[<<h[n], n + 1>>]
    BY <2>1 DEF Iterates
  <2>3. QED
    BY <2>1, <2>2
<1> HIDE DEF T
<1>3. Nat \subseteq T
  BY <1>1, <1>2, NaturalInduction
<1>4. QED
  BY <1>3 DEF T

-----------------------------------------------------------------------------
(* Rows. *)

Issues == [state: IssueStates, labels: SUBSET Labels]

\* What GitHub says of an issue.
GoodIssue(i) == i \in Issues /\ (i.state \in {"none", "gone"} => i.labels = {})

\* A row with the branch's first pull requests.
GoodRow(r, last) ==
  /\ r \in Rows /\ r.pr <= last
  /\ r.pr = 0 <=> r.pr_state = "none"
  /\ r.state = "none" => r = NoRow

LEMMA NoRowIsGood == \A last \in Nat : GoodRow(NoRow, last)
BY MirrorAssumption DEF GoodRow, NoRow, Rows, IssueStates, PullStates

SparesOpen(r, n, state) ==
  r = NoRow \/ (r.pr \notin {0, n} /\ r.pr_state = "open" /\ state # "open")

LinksTo(r, new, n, state) ==
  ~SparesOpen(r, n, state) /\ new.pr = n /\ new.pr_state = state

\* A pull request is linked, or left alone.
LEMMA LinkOne ==
  ASSUME NEW last \in 0..MaxPulls, NEW r, GoodRow(r, last), NEW n \in 1..last,
         NEW state \in {"open", "closed", "merged"}
  PROVE  LET new == link_pull_request(r, n, state)
         IN  /\ GoodRow(new, last) /\ (new = NoRow <=> r = NoRow)
             /\ new.state = r.state /\ new.labels = r.labels
             /\ r.pr # 0 => new.pr # 0
             /\ LinksTo(r, new, n, state) \/ (SparesOpen(r, n, state) /\ new = r)
<1> PICK new : new = link_pull_request(r, n, state)
  OBVIOUS
<1>1. CASE SparesOpen(r, n, state)
  <2>1. new = r
    BY <1>1 DEF SparesOpen, link_pull_request
  <2>2. QED
    BY <1>1, <2>1
<1>2. CASE ~SparesOpen(r, n, state)
  <2>1. new = [r EXCEPT !.pr = n, !.pr_state = state]
    BY <1>2 DEF SparesOpen, link_pull_request
  <2>2. r \in Rows /\ n \in 0..MaxPulls /\ state \in PullStates
    <3>1. r \in Rows /\ state \in PullStates
      BY DEF GoodRow, PullStates
    <3>2. n \in 0..MaxPulls
      BY MirrorAssumption
    <3>3. QED
      BY <3>1, <3>2
  <2>3. /\ new \in Rows /\ new.pr = n /\ new.pr_state = state
        /\ new.state = r.state /\ new.labels = r.labels
    BY <2>1, <2>2 DEF Rows
  <2>4. r # NoRow /\ r.state # "none"
    BY <1>2 DEF SparesOpen, GoodRow
  <2>5. new # NoRow
    BY <2>3, <2>4 DEF NoRow
  <2>6. GoodRow(new, last)
    BY <2>3, <2>4 DEF GoodRow
  <2>7. LinksTo(r, new, n, state)
    BY <1>2, <2>3 DEF LinksTo
  <2>8. QED
    BY <2>3, <2>4, <2>5, <2>6, <2>7
<1>3. QED
  BY <1>1, <1>2

\* An issue is mirrored, or has no ticket to make.
LEMMA MirrorsOneIssue ==
  ASSUME NEW last \in 0..MaxPulls, NEW r, GoodRow(r, last), NEW i, GoodIssue(i), i.state # "none"
  PROVE  LET new == MirrorIssue(r, i)
         IN  /\ GoodRow(new, last) /\ new.pr = r.pr /\ new.pr_state = r.pr_state
             /\ r # NoRow => new # NoRow
             /\ new = NoRow => NEXTIX \notin i.labels
             /\ new # NoRow => new.state = i.state /\ (i.state = "gone" \/ new.labels = i.labels)
<1> PICK new : new = MirrorIssue(r, i)
  OBVIOUS
<1>0. r \in Rows /\ i.state \in IssueStates /\ i.labels \in SUBSET Labels
      /\ "gone" \in IssueStates
  BY DEF GoodRow, GoodIssue, Issues, IssueStates
<1>1. CASE i.state = "gone" /\ r = NoRow
  <2>1. new = NoRow
    BY <1>1 DEF MirrorIssue, mark_issue_gone
  <2>2. i.labels = {}
    BY <1>1 DEF GoodIssue
  <2>3. QED
    BY <1>1, <2>1, <2>2
<1>2. CASE i.state = "gone" /\ r # NoRow
  <2>1. new = [r EXCEPT !.state = "gone"]
    BY <1>2 DEF MirrorIssue, mark_issue_gone
  <2>2. new \in Rows /\ new.state = "gone" /\ new.pr = r.pr /\ new.pr_state = r.pr_state
    BY <1>0, <2>1 DEF Rows
  <2>3. new # NoRow
    BY <2>2 DEF NoRow
  <2>4. QED
    BY <1>2, <2>2, <2>3 DEF GoodRow
<1>3. CASE i.state # "gone" /\ r = NoRow /\ NEXTIX \notin i.labels
  <2>1. new = NoRow
    BY <1>3 DEF MirrorIssue
  <2>2. QED
    BY <1>3, <2>1
<1>4. CASE i.state # "gone" /\ ~(r = NoRow /\ NEXTIX \notin i.labels)
  <2>1. new = [r EXCEPT !.state = i.state, !.labels = i.labels]
    BY <1>4 DEF MirrorIssue, upsert_ticket_from_issue
  <2>2. /\ new \in Rows /\ new.state = i.state /\ new.labels = i.labels
        /\ new.pr = r.pr /\ new.pr_state = r.pr_state
    BY <1>0, <2>1 DEF Rows
  <2>3. new # NoRow
    BY <2>2 DEF NoRow
  <2>4. QED
    BY <1>4, <2>2, <2>3 DEF GoodRow
<1>5. QED
  BY <1>1, <1>2, <1>3, <1>4

-----------------------------------------------------------------------------
(* Rows that deliveries and a sync have changed. *)

GoodRows(last) == {r \in Rows : GoodRow(r, last)}

Kinds == {"issue", "pull", "suspend", "deleted", "unsuspend"}
Deliveries == [kind: Kinds, issue: Issues, pr: 0..MaxPulls, pr_state: PullStates, seen: BOOLEAN]

\* A delivery about the issue or one of the branch's first pull requests.
GoodDelivery(d, last) ==
  /\ d \in Deliveries
  /\ d.kind = "issue" => GoodIssue(d.issue) /\ d.issue.state # "none"
  /\ d.kind = "pull" => d.pr \in 1..last /\ d.pr_state \in {"open", "closed", "merged"}

\* It has not been handled yet.
IsNews(d, kind) == d.kind = kind /\ ~d.seen

LEMMA IssueNews ==
  ASSUME NEW last \in 0..MaxPulls, NEW r, GoodRow(r, last), NEW d, GoodDelivery(d, last),
         IsNews(d, "issue")
  PROVE  LET new == MirrorOne(r, d)
         IN  /\ GoodRow(new, last) /\ new.pr = r.pr /\ new.pr_state = r.pr_state
             /\ r # NoRow => new # NoRow
             /\ new = NoRow => NEXTIX \notin d.issue.labels
             /\ new # NoRow => new.state = d.issue.state
                               /\ (d.issue.state = "gone" \/ new.labels = d.issue.labels)
<1>1. MirrorOne(r, d) = MirrorIssue(r, d.issue)
  BY DEF MirrorOne, IsNews
<1>2. GoodIssue(d.issue) /\ d.issue.state # "none"
  BY DEF GoodDelivery, IsNews
<1>3. QED
  BY <1>1, <1>2, MirrorsOneIssue

LEMMA PullNews ==
  ASSUME NEW last \in 0..MaxPulls, NEW r, GoodRow(r, last), NEW d, GoodDelivery(d, last),
         IsNews(d, "pull")
  PROVE  LET new == MirrorOne(r, d)
         IN  /\ GoodRow(new, last) /\ (new = NoRow <=> r = NoRow)
             /\ new.state = r.state /\ new.labels = r.labels
             /\ r.pr # 0 => new.pr # 0
             /\ \/ LinksTo(r, new, d.pr, d.pr_state)
                \/ SparesOpen(r, d.pr, d.pr_state) /\ new = r
<1>1. MirrorOne(r, d) = link_pull_request(r, d.pr, d.pr_state)
  BY DEF MirrorOne, IsNews
<1>2. PICK n \in 1..last, state \in {"open", "closed", "merged"} : n = d.pr /\ state = d.pr_state
  BY DEF GoodDelivery, IsNews
<1>3. MirrorOne(r, d) = link_pull_request(r, n, state)
  BY <1>1, <1>2
<1>4. PICK new : new = link_pull_request(r, n, state)
  OBVIOUS
<1>5. /\ GoodRow(new, last) /\ (new = NoRow <=> r = NoRow)
      /\ new.state = r.state /\ new.labels = r.labels
      /\ r.pr # 0 => new.pr # 0
      /\ LinksTo(r, new, n, state) \/ (SparesOpen(r, n, state) /\ new = r)
  BY <1>4, LinkOne
<1>6. QED
  BY <1>2, <1>3, <1>4, <1>5

LEMMA NoNews ==
  ASSUME NEW r, NEW d, ~IsNews(d, "issue"), ~IsNews(d, "pull")
  PROVE  MirrorOne(r, d) = r
BY DEF MirrorOne, IsNews

LEMMA MirrorOneKeeps ==
  ASSUME NEW last \in 0..MaxPulls, NEW r, GoodRow(r, last), NEW d, GoodDelivery(d, last)
  PROVE  LET new == MirrorOne(r, d)
         IN  GoodRow(new, last) /\ (r # NoRow => new # NoRow) /\ (r.pr # 0 => new.pr # 0)
<1>1. CASE IsNews(d, "issue")
  BY <1>1, IssueNews
<1>2. CASE IsNews(d, "pull")
  BY <1>2, PullNews
<1>3. CASE ~IsNews(d, "issue") /\ ~IsNews(d, "pull")
  BY <1>3, NoNews
<1>4. QED
  BY <1>1, <1>2, <1>3

\* The row after each delivery.
Traces(f, r, ds, last) ==
  /\ f \in [0..Len(ds) -> GoodRows(last)] /\ f[0] = r
  /\ \A n \in 1..Len(ds) : f[n] = MirrorOne(f[n - 1], ds[n])

GoodDeliveries(ds, last) ==
  ds \in Seq(Deliveries) /\ \A n \in 1..Len(ds) : GoodDelivery(ds[n], last)

LEMMA MirrorTrace ==
  ASSUME NEW last \in 0..MaxPulls, NEW r \in GoodRows(last), NEW ds, GoodDeliveries(ds, last)
  PROVE  \E f : Traces(f, r, ds, last) /\ MirrorAll(r, ds) = f[Len(ds)]
<1>1. PICK N \in Nat : N = Len(ds)
  BY DEF GoodDeliveries
<1>2. PICK S : S = GoodRows(last)
  OBVIOUS
<1>3. PICK g : g = [p \in S \X (1..N) |-> MirrorOne(p[1], ds[p[2]])]
  OBVIOUS
<1>4. g \in [S \X (1..N) -> S]
  <2>1. \A p \in S \X (1..N) : p[1] \in S /\ p[2] \in 1..N
    OBVIOUS
  <2>2. \A p \in S \X (1..N) : MirrorOne(p[1], ds[p[2]]) \in S
    BY <1>1, <1>2, <2>1, MirrorOneKeeps DEF GoodDeliveries, GoodRows, GoodRow
  <2>3. QED
    BY <1>3, <2>2
<1>5. PICK f \in [0..N -> S] : Iterates(f, r, g, N)
  BY <1>2, <1>4, Iteration
<1>6. \A n \in 1..N : f[n - 1] \in S /\ f[n] = MirrorOne(f[n - 1], ds[n])
  <2> SUFFICES ASSUME NEW n \in 1..N PROVE f[n - 1] \in S /\ f[n] = MirrorOne(f[n - 1], ds[n])
    OBVIOUS
  <2>1. n - 1 \in 0..N
    BY <1>1
  <2>2. f[n - 1] \in S /\ f[n] = g[<<f[n - 1], n>>]
    BY <1>5, <2>1 DEF Iterates
  <2>3. QED
    BY <1>3, <2>2
<1>7. f[0] = r
  BY <1>5 DEF Iterates
<1>8. Traces(f, r, ds, last)
  BY <1>1, <1>2, <1>5, <1>6, <1>7 DEF Traces
<1>9. f = [n \in 0..Len(ds) |-> IF n = 0 THEN r ELSE MirrorOne(f[n - 1], ds[n])]
  <2>1. f = [n \in 0..N |-> f[n]]
    BY <1>5
  <2>2. \A n \in 0..N : f[n] = IF n = 0 THEN r ELSE MirrorOne(f[n - 1], ds[n])
    <3>1. \A n \in 0..N : n = 0 \/ n \in 1..N
      BY <1>1
    <3>2. QED
      BY <1>6, <1>7, <3>1
  <2>3. QED
    BY <1>1, <2>1, <2>2, Zenon
<1>10. ASSUME NEW h, h = [n \in 0..Len(ds) |-> IF n = 0 THEN r ELSE MirrorOne(h[n - 1], ds[n])]
       PROVE  h[Len(ds)] = f[Len(ds)]
  <2>1. h[0] = r /\ \A n \in 1..N : h[n] = MirrorOne(h[n - 1], ds[n])
    BY <1>1, <1>10
  <2> DEFINE T == {n \in Nat : n <= N => h[n] = f[n]}
  <2>2. 0 \in T
    BY <1>7, <2>1
  <2>3. ASSUME NEW n \in Nat, n \in T PROVE n + 1 \in T
    <3> SUFFICES ASSUME n + 1 <= N PROVE h[n + 1] = f[n + 1]
      OBVIOUS
    <3>1. h[n] = f[n] /\ n + 1 \in 1..N /\ (n + 1) - 1 = n
      BY <1>1, <2>3
    <3>2. QED
      BY <1>6, <2>1, <3>1
  <2> HIDE DEF T
  <2>4. N \in T
    BY <2>2, <2>3, NaturalInduction
  <2>5. QED
    BY <1>1, <2>4 DEF T
<1>11. MirrorAll(r, ds) = f[Len(ds)]
  <2> DEFINE Equation(h) == h = [n \in 0..Len(ds) |-> IF n = 0 THEN r ELSE MirrorOne(h[n - 1], ds[n])]
  <2>1. Equation(f)
    BY <1>9
  <2>2. Equation(CHOOSE h : Equation(h))
    BY <2>1, Zenon
  <2>3. PICK h : h = CHOOSE x : Equation(x)
    OBVIOUS
  <2>4. Equation(h)
    BY <2>2, <2>3, Zenon
  <2>5. h[Len(ds)] = f[Len(ds)]
    BY <1>10, <2>4
  <2>6. MirrorAll(r, ds) = h[Len(ds)]
    BY <2>3, Zenon DEF MirrorAll
  <2>7. QED
    BY <2>5, <2>6, Zenon
<1>12. QED
  BY <1>8, <1>11

\* Every row of it is one, and no ticket is lost.
LEMMA TraceKeeps ==
  ASSUME NEW last \in 0..MaxPulls, NEW r, NEW ds, GoodDeliveries(ds, last),
         NEW f, Traces(f, r, ds, last)
  PROVE  /\ \A n \in 0..Len(ds) : GoodRow(f[n], last)
         /\ \A n \in 1..Len(ds) : n - 1 \in 0..Len(ds) /\ GoodDelivery(ds[n], last)
                                  /\ f[n] = MirrorOne(f[n - 1], ds[n])
<1>1. PICK N \in Nat : N = Len(ds)
  BY DEF GoodDeliveries
<1>2. \A n \in 0..N : GoodRow(f[n], last)
  BY <1>1 DEF Traces, GoodRows
<1>3. \A n \in 1..N : n - 1 \in 0..N
  BY <1>1
<1>4. QED
  BY <1>1, <1>2, <1>3 DEF Traces, GoodDeliveries

LEMMA TicketStays ==
  ASSUME NEW last \in 0..MaxPulls, NEW r, r # NoRow, NEW ds, GoodDeliveries(ds, last),
         NEW f, Traces(f, r, ds, last)
  PROVE  f[Len(ds)] # NoRow
<1>1. PICK N \in Nat : N = Len(ds)
  BY DEF GoodDeliveries
<1>2. \A n \in 0..N : GoodRow(f[n], last)
  BY <1>1, TraceKeeps
<1>3. \A n \in 1..N : GoodDelivery(ds[n], last) /\ f[n] = MirrorOne(f[n - 1], ds[n])
  BY <1>1 DEF Traces, GoodDeliveries
<1> DEFINE T == {n \in Nat : n <= N => f[n] # NoRow}
<1>4. 0 \in T
  BY DEF Traces
<1>5. ASSUME NEW n \in Nat, n \in T PROVE n + 1 \in T
  <2> SUFFICES ASSUME n + 1 <= N PROVE f[n + 1] # NoRow
    OBVIOUS
  <2>1. n \in 0..N /\ n + 1 \in 1..N /\ (n + 1) - 1 = n
    BY <1>1, <1>5
  <2>2. PICK old, d : old = f[n] /\ d = ds[n + 1]
    OBVIOUS
  <2>3. GoodRow(old, last) /\ GoodDelivery(d, last) /\ f[n + 1] = MirrorOne(old, d)
    BY <1>2, <1>3, <2>1, <2>2
  <2>4. old # NoRow
    BY <1>5, <2>1, <2>2
  <2>5. QED
    BY <2>3, <2>4, MirrorOneKeeps
<1> HIDE DEF T
<1>6. N \in T
  BY <1>4, <1>5, NaturalInduction
<1>7. QED
  BY <1>1, <1>6 DEF T

-----------------------------------------------------------------------------
(* A row that GitHub's state was read into shows it still when the deliveries that were on *)
(* their way have arrived.                                                                 *)

LaterIssue(ds, n) == \E k \in n + 1..Len(ds) : IsNews(ds[k], "issue")
LaterPull(ds, n, m) == \E k \in n + 1..Len(ds) : IsNews(ds[k], "pull") /\ ds[k].pr = m

\* The last delivery about the issue has it as it is.
IssueInOrder(ds) ==
  \A n \in 1..Len(ds) : IsNews(ds[n], "issue") => ds[n].issue = issue \/ LaterIssue(ds, n)

\* So has the last one about each pull request; when it opened one that is not open any more, the
\* one that is open comes later.
PullsInOrder(ds) ==
  \A n \in 1..Len(ds) : IsNews(ds[n], "pull") =>
    /\ ds[n].pr_state = pulls[ds[n].pr] \/ LaterPull(ds, n, ds[n].pr)
    /\ ds[n].pr_state = "open" => \A m \in OpenPulls \ {ds[n].pr} : LaterPull(ds, n, m)

GoodPulls ==
  /\ pulls \in Seq({"open", "closed", "merged"}) /\ Len(pulls) <= MaxPulls
  /\ \A m, n \in OpenPulls : m = n

LEMMA PullNumbers ==
  ASSUME GoodPulls
  PROVE  /\ Len(pulls) \in 0..MaxPulls /\ DOMAIN pulls = 1..Len(pulls)
         /\ \A n \in 1..Len(pulls) : pulls[n] \in {"open", "closed", "merged"}
         /\ OpenPulls = {n \in 1..Len(pulls) : pulls[n] = "open"}
         /\ Len(pulls) = 0 <=> pulls = <<>>
BY MirrorAssumption DEF GoodPulls, OpenPulls

LEMMA Later ==
  ASSUME NEW ds, ds \in Seq(Deliveries), NEW n \in 0..Len(ds) - 1
  PROVE  /\ LaterIssue(ds, n) <=> IsNews(ds[n + 1], "issue") \/ LaterIssue(ds, n + 1)
         /\ \A m : LaterPull(ds, n, m)
                   <=> (IsNews(ds[n + 1], "pull") /\ ds[n + 1].pr = m) \/ LaterPull(ds, n + 1, m)
<1>1. PICK N \in Nat : N = Len(ds)
  OBVIOUS
<1>2. n \in Nat /\ n + 1 \in n + 1..N /\ (n + 1) + 1..N \subseteq n + 1..N
      /\ \A k \in n + 1..N : k = n + 1 \/ k \in (n + 1) + 1..N
  BY <1>1
<1>3. QED
  BY <1>1, <1>2 DEF LaterIssue, LaterPull

LEMMA NoneLater ==
  ASSUME NEW ds, ds \in Seq(Deliveries)
  PROVE  ~LaterIssue(ds, Len(ds)) /\ \A m : ~LaterPull(ds, Len(ds), m)
<1>1. PICK N \in Nat : N = Len(ds)
  OBVIOUS
<1>2. N + 1..N = {}
  BY <1>1
<1>3. QED
  BY <1>1, <1>2 DEF LaterIssue, LaterPull

\* A row that shows the pull requests as they are, or will.
ShowsPull(r, ds, n) ==
  /\ r.pr = 0 => pulls = <<>>
  /\ r.pr # 0 => r.pr \in DOMAIN pulls /\ (r.pr_state = pulls[r.pr] \/ LaterPull(ds, n, r.pr))
  /\ \A m \in OpenPulls : LaterPull(ds, n, m) \/ (r.pr = m /\ r.pr_state = "open")

LEMMA ShowsNext ==
  ASSUME GoodPulls, NEW ds, GoodDeliveries(ds, Len(pulls)), PullsInOrder(ds),
         NEW n \in 0..Len(ds) - 1, NEW r, GoodRow(r, Len(pulls)), ShowsPull(r, ds, n)
  PROVE  ShowsPull(MirrorOne(r, ds[n + 1]), ds, n + 1)
<1>1. PICK new : new = MirrorOne(r, ds[n + 1])
  OBVIOUS
<1>2. PICK d : d = ds[n + 1]
  OBVIOUS
<1>3. /\ Len(pulls) \in 0..MaxPulls /\ DOMAIN pulls = 1..Len(pulls)
      /\ OpenPulls = {k \in 1..Len(pulls) : pulls[k] = "open"}
      /\ pulls = <<>> => Len(pulls) = 0
  BY PullNumbers
<1>4. n + 1 \in 1..Len(ds)
  BY DEF GoodDeliveries
<1>5. GoodDelivery(d, Len(pulls))
  BY <1>2, <1>4 DEF GoodDeliveries
<1>6. \A m : LaterPull(ds, n, m) <=> (IsNews(d, "pull") /\ d.pr = m) \/ LaterPull(ds, n + 1, m)
  BY <1>2, Later DEF GoodDeliveries
<1>7. CASE ~IsNews(d, "pull")
  <2>1. new.pr = r.pr /\ new.pr_state = r.pr_state
    BY <1>1, <1>2, <1>3, <1>5, <1>7, IssueNews, NoNews
  <2>2. \A m : LaterPull(ds, n, m) <=> LaterPull(ds, n + 1, m)
    BY <1>6, <1>7
  <2>3. QED
    BY <1>1, <1>2, <2>1, <2>2 DEF ShowsPull
<1>8. CASE IsNews(d, "pull")
  <2>1. d.pr \in 1..Len(pulls) /\ d.pr_state \in {"open", "closed", "merged"}
    BY <1>5, <1>8 DEF GoodDelivery, IsNews
  <2>2. /\ d.pr_state = pulls[d.pr] \/ LaterPull(ds, n + 1, d.pr)
        /\ d.pr_state = "open" => \A m \in OpenPulls \ {d.pr} : LaterPull(ds, n + 1, m)
    BY <1>2, <1>4, <1>8 DEF PullsInOrder
  <2>3. pulls # <<>> /\ r.pr # 0
    BY <1>3, <2>1 DEF ShowsPull
  <2>4. r # NoRow
    BY <2>3 DEF NoRow
  <2>5. LinksTo(r, new, d.pr, d.pr_state) \/ (SparesOpen(r, d.pr, d.pr_state) /\ new = r)
    BY <1>1, <1>2, <1>3, <1>5, <1>8, PullNews
  <2>6. CASE SparesOpen(r, d.pr, d.pr_state) /\ new = r
    <3>1. r.pr # d.pr /\ r.pr_state = "open" /\ d.pr_state # "open"
      BY <2>4, <2>6 DEF SparesOpen
    <3>2. r.pr \in DOMAIN pulls /\ (r.pr_state = pulls[r.pr] \/ LaterPull(ds, n + 1, r.pr))
      BY <1>6, <2>3, <3>1 DEF ShowsPull
    <3>3. ASSUME NEW m \in OpenPulls PROVE LaterPull(ds, n + 1, m) \/ (r.pr = m /\ r.pr_state = "open")
      <4>1. CASE m = d.pr
        <5>1. pulls[d.pr] = "open"
          BY <1>3, <3>3, <4>1
        <5>2. QED
          BY <2>2, <3>1, <4>1, <5>1
      <4>2. CASE m # d.pr
        BY <1>6, <4>2 DEF ShowsPull
      <4>3. QED
        BY <4>1, <4>2
    <3>4. QED
      BY <1>1, <1>2, <2>3, <2>6, <3>2, <3>3 DEF ShowsPull
  <2>7. CASE LinksTo(r, new, d.pr, d.pr_state)
    <3>1. new.pr = d.pr /\ new.pr_state = d.pr_state /\ ~SparesOpen(r, d.pr, d.pr_state)
      BY <2>7 DEF LinksTo
    <3>2. new.pr # 0 /\ new.pr \in DOMAIN pulls
      BY <1>3, <2>1, <3>1
    <3>3. ASSUME NEW m \in OpenPulls PROVE LaterPull(ds, n + 1, m) \/ (new.pr = m /\ new.pr_state = "open")
      <4>1. CASE m = d.pr
        <5>1. pulls[d.pr] = "open"
          BY <1>3, <3>3, <4>1
        <5>2. QED
          BY <2>2, <3>1, <4>1, <5>1
      <4>2. CASE m # d.pr /\ d.pr_state = "open"
        BY <2>2, <4>2
      <4>3. CASE m # d.pr /\ d.pr_state # "open"
        <5>1. r.pr = d.pr \/ r.pr_state # "open"
          BY <2>3, <3>1, <4>3 DEF SparesOpen
        <5>2. LaterPull(ds, n, m)
          BY <4>3, <5>1 DEF ShowsPull
        <5>3. QED
          BY <1>6, <4>3, <5>2
      <4>4. QED
        BY <4>1, <4>2, <4>3
    <3>4. new.pr_state = pulls[new.pr] \/ LaterPull(ds, n + 1, new.pr)
      BY <2>2, <3>1
    <3>5. QED
      BY <1>1, <1>2, <3>2, <3>3, <3>4 DEF ShowsPull
  <2>8. QED
    BY <2>5, <2>6, <2>7
<1>9. QED
  BY <1>7, <1>8

LEMMA PullSettles ==
  ASSUME GoodPulls, NEW ds, GoodDeliveries(ds, Len(pulls)), PullsInOrder(ds),
         NEW r, GoodRow(r, Len(pulls)), MirrorsPull(r), r = NoRow => pulls = <<>>,
         NEW f, Traces(f, r, ds, Len(pulls))
  PROVE  MirrorsPull(f[Len(ds)])
<1>1. PICK N \in Nat : N = Len(ds)
  BY DEF GoodDeliveries
<1>2. /\ Len(pulls) \in 0..MaxPulls /\ DOMAIN pulls = 1..Len(pulls)
      /\ OpenPulls = {k \in 1..Len(pulls) : pulls[k] = "open"}
      /\ pulls = <<>> => Len(pulls) = 0
  BY PullNumbers
<1> DEFINE T == {n \in Nat : n <= N => ShowsPull(f[n], ds, n)}
<1>3. 0 \in T
  <2>1. f[0] = r
    BY DEF Traces
  <2>2. ShowsPull(r, ds, 0)
    <3>1. CASE pulls = <<>>
      <4>1. OpenPulls = {} /\ r.pr = 0
        <5>1. 1..Len(pulls) = {} /\ r.pr \in 0..MaxPulls /\ r.pr <= 0
          BY <1>2, <3>1 DEF GoodRow, Rows
        <5>2. QED
          BY <1>2, <5>1, MirrorAssumption
      <4>2. QED
        BY <3>1, <4>1 DEF ShowsPull
    <3>2. CASE pulls # <<>>
      <4>1. r.pr \in DOMAIN pulls /\ pulls[r.pr] = r.pr_state /\ (r.pr_state = "open" \/ OpenPulls = {})
        BY <3>2 DEF MirrorsPull
      <4>2. r.pr # 0
        BY <1>2, <4>1
      <4>3. \A m \in OpenPulls : r.pr = m /\ r.pr_state = "open"
        BY <1>2, <4>1 DEF GoodPulls
      <4>4. QED
        BY <4>1, <4>2, <4>3 DEF ShowsPull
    <3>3. QED
      BY <3>1, <3>2
  <2>3. QED
    BY <2>1, <2>2
<1>4. ASSUME NEW n \in Nat, n \in T PROVE n + 1 \in T
  <2> SUFFICES ASSUME n + 1 <= N PROVE ShowsPull(f[n + 1], ds, n + 1)
    OBVIOUS
  <2>1. n \in 0..Len(ds) - 1 /\ n \in 0..Len(ds) /\ n + 1 \in 1..Len(ds) /\ (n + 1) - 1 = n
    BY <1>1, <1>4
  <2>2. GoodRow(f[n], Len(pulls)) /\ f[n + 1] = MirrorOne(f[n], ds[n + 1])
    <3>1. PICK last \in 0..MaxPulls : last = Len(pulls)
      BY <1>2
    <3>2. GoodDeliveries(ds, last) /\ Traces(f, r, ds, last)
      BY <3>1
    <3>3. \A k \in 0..Len(ds) : GoodRow(f[k], last)
      BY <3>2, TraceKeeps
    <3>4. \A k \in 1..Len(ds) : f[k] = MirrorOne(f[k - 1], ds[k])
      BY <3>2, TraceKeeps
    <3>5. QED
      BY <2>1, <3>1, <3>3, <3>4
  <2>3. ShowsPull(f[n], ds, n)
    BY <1>1, <1>4, <2>1
  <2>4. QED
    BY <2>1, <2>2, <2>3, ShowsNext
<1> HIDE DEF T
<1>5. N \in T
  BY <1>3, <1>4, NaturalInduction
<1>6. ShowsPull(f[N], ds, N)
  BY <1>5 DEF T
<1>7. \A m : ~LaterPull(ds, N, m)
  BY <1>1, NoneLater DEF GoodDeliveries
<1>8. MirrorsPull(f[N])
  <2>1. CASE f[N].pr = 0
    BY <1>6, <2>1 DEF ShowsPull, MirrorsPull
  <2>2. CASE f[N].pr # 0
    <3>1. f[N].pr \in DOMAIN pulls /\ f[N].pr_state = pulls[f[N].pr]
      BY <1>6, <1>7, <2>2 DEF ShowsPull
    <3>2. f[N].pr_state = "open" \/ OpenPulls = {}
      BY <1>6, <1>7 DEF ShowsPull
    <3>3. QED
      BY <3>1, <3>2 DEF MirrorsPull
  <2>3. QED
    BY <2>1, <2>2
<1>9. QED
  BY <1>1, <1>8

LEMMA IssueSettles ==
  ASSUME NEW last \in 0..MaxPulls, NEW ds, GoodDeliveries(ds, last), IssueInOrder(ds),
         NEW r, MirrorsIssue(r) \/ LaterIssue(ds, 0), NEW f, Traces(f, r, ds, last)
  PROVE  MirrorsIssue(f[Len(ds)])
<1>1. PICK N \in Nat : N = Len(ds)
  BY DEF GoodDeliveries
<1> DEFINE T == {n \in Nat : n <= N => MirrorsIssue(f[n]) \/ LaterIssue(ds, n)}
<1>2. 0 \in T
  BY DEF Traces
<1>3. ASSUME NEW n \in Nat, n \in T PROVE n + 1 \in T
  <2> SUFFICES ASSUME n + 1 <= N PROVE MirrorsIssue(f[n + 1]) \/ LaterIssue(ds, n + 1)
    OBVIOUS
  <2>1. n \in 0..Len(ds) - 1 /\ n \in 0..Len(ds) /\ n + 1 \in 1..Len(ds) /\ (n + 1) - 1 = n
    BY <1>1, <1>3
  <2>2. PICK old, new, d : old = f[n] /\ new = f[n + 1] /\ d = ds[n + 1]
    OBVIOUS
  <2>3. GoodRow(old, last) /\ GoodDelivery(d, last) /\ new = MirrorOne(old, d)
    <3>1. \A k \in 0..Len(ds) : GoodRow(f[k], last)
      BY TraceKeeps
    <3>2. \A k \in 1..Len(ds) : GoodDelivery(ds[k], last) /\ f[k] = MirrorOne(f[k - 1], ds[k])
      BY TraceKeeps
    <3>3. QED
      BY <2>1, <2>2, <3>1, <3>2
  <2>4. CASE IsNews(d, "issue")
    <3>1. CASE d.issue = issue
      <4>1. /\ new = NoRow => NEXTIX \notin issue.labels
            /\ new # NoRow => new.state = issue.state
                              /\ (issue.state = "gone" \/ new.labels = issue.labels)
        BY <2>3, <2>4, <3>1, IssueNews
      <4>2. MirrorsIssue(new)
        BY <4>1 DEF MirrorsIssue
      <4>3. QED
        BY <2>2, <4>2
    <3>2. CASE d.issue # issue
      BY <2>1, <2>2, <2>4, <3>2 DEF IssueInOrder
    <3>3. QED
      BY <3>1, <3>2
  <2>5. CASE ~IsNews(d, "issue")
    <3>1. MirrorsIssue(old) \/ LaterIssue(ds, n + 1)
      BY <1>1, <1>3, <2>1, <2>2, <2>5, Later DEF GoodDeliveries
    <3>2. new.state = old.state /\ new.labels = old.labels /\ (new = NoRow <=> old = NoRow)
      <4>1. CASE IsNews(d, "pull")
        BY <2>3, <4>1, PullNews
      <4>2. CASE ~IsNews(d, "pull")
        BY <2>3, <2>5, <4>2, NoNews
      <4>3. QED
        BY <4>1, <4>2
    <3>3. QED
      BY <2>2, <3>1, <3>2 DEF MirrorsIssue
  <2>6. QED
    BY <2>4, <2>5
<1> HIDE DEF T
<1>4. N \in T
  BY <1>2, <1>3, NaturalInduction
<1>5. MirrorsIssue(f[N]) \/ LaterIssue(ds, N)
  BY <1>4 DEF T
<1>6. ~LaterIssue(ds, N)
  BY <1>1, NoneLater DEF GoodDeliveries
<1>7. QED
  BY <1>1, <1>5, <1>6

-----------------------------------------------------------------------------
(* The rows after each delivery, when one more is on its way or one has arrived. *)

LEMMA MorePulls ==
  ASSUME NEW last \in Nat, NEW more \in Nat, last <= more
  PROVE  /\ \A r : GoodRow(r, last) => GoodRow(r, more)
         /\ \A d : GoodDelivery(d, last) => GoodDelivery(d, more)
<1>1. ASSUME NEW r, GoodRow(r, last) PROVE GoodRow(r, more)
  <2>1. r.pr \in Nat
    BY <1>1, MirrorAssumption DEF GoodRow, Rows
  <2>2. QED
    BY <1>1, <2>1 DEF GoodRow
<1>2. ASSUME NEW d, GoodDelivery(d, last) PROVE GoodDelivery(d, more)
  <2>1. 1..last \subseteq 1..more
    OBVIOUS
  <2>2. QED
    BY <1>2, <2>1 DEF GoodDelivery
<1>3. QED
  BY <1>1, <1>2

LEMMA DeliveriesAppend ==
  ASSUME NEW last \in Nat, NEW more \in Nat, last <= more,
         NEW ds, GoodDeliveries(ds, last), NEW d, GoodDelivery(d, more)
  PROVE  GoodDeliveries(Append(ds, d), more)
<1>1. PICK N \in Nat : N = Len(ds)
  BY DEF GoodDeliveries
<1>2. ds \in Seq(Deliveries) /\ d \in Deliveries
  BY DEF GoodDeliveries, GoodDelivery
<1>3. /\ Append(ds, d) \in Seq(Deliveries) /\ Len(Append(ds, d)) = N + 1
      /\ Append(ds, d)[N + 1] = d /\ \A n \in 1..N : Append(ds, d)[n] = ds[n]
  BY <1>1, <1>2
<1>4. \A n \in 1..N + 1 : n = N + 1 \/ n \in 1..N
  BY <1>1
<1>5. \A n \in 1..N : GoodDelivery(ds[n], more)
  BY <1>1, MorePulls DEF GoodDeliveries
<1>6. QED
  BY <1>3, <1>4, <1>5 DEF GoodDeliveries

LEMMA DeliveriesTail ==
  ASSUME NEW last, NEW ds, GoodDeliveries(ds, last), ds # <<>>
  PROVE  GoodDeliveries(Tail(ds), last) /\ GoodDelivery(Head(ds), last) /\ Head(ds) = ds[1]
<1>1. PICK N \in Nat : N = Len(ds)
  BY DEF GoodDeliveries
<1>2. ds \in Seq(Deliveries)
  BY DEF GoodDeliveries
<1>3. /\ Tail(ds) \in Seq(Deliveries) /\ Len(Tail(ds)) = N - 1 /\ N # 0
      /\ \A n \in 1..N - 1 : Tail(ds)[n] = ds[n + 1]
      /\ Head(ds) = ds[1]
  BY <1>1, <1>2
<1>4. 1 \in 1..N /\ \A n \in 1..N - 1 : n + 1 \in 1..N
  BY <1>1, <1>3
<1>5. QED
  BY <1>1, <1>3, <1>4 DEF GoodDeliveries

LEMMA TraceAppends ==
  ASSUME NEW last \in 0..MaxPulls, NEW more \in 0..MaxPulls, last <= more,
         NEW r, NEW ds, GoodDeliveries(ds, last), NEW d, GoodDelivery(d, more),
         NEW f, Traces(f, r, ds, last)
  PROVE  \E h : /\ Traces(h, r, Append(ds, d), more)
                /\ h[Len(Append(ds, d))] = MirrorOne(f[Len(ds)], d)
<1>1. PICK N \in Nat : N = Len(ds)
  BY DEF GoodDeliveries
<1>2. ds \in Seq(Deliveries) /\ d \in Deliveries
  BY DEF GoodDeliveries, GoodDelivery
<1>3. /\ Len(Append(ds, d)) = N + 1
      /\ Append(ds, d)[N + 1] = d /\ \A n \in 1..N : Append(ds, d)[n] = ds[n]
  BY <1>1, <1>2
<1>4. last \in Nat /\ more \in Nat
  BY MirrorAssumption
<1>5. f[0] = r /\ \A n \in 1..N : f[n] = MirrorOne(f[n - 1], ds[n])
  BY <1>1 DEF Traces
<1>6. \A n \in 0..N : GoodRow(f[n], more)
  BY <1>1, <1>4, MorePulls, TraceKeeps
<1>7. PICK new : new = MirrorOne(f[N], d)
  OBVIOUS
<1>8. N \in 0..N
  BY <1>1
<1>9. GoodRow(new, more)
  BY <1>6, <1>7, <1>8, MirrorOneKeeps
<1>10. PICK h : h = [n \in 0..N + 1 |-> IF n = N + 1 THEN new ELSE f[n]]
  OBVIOUS
<1>11. h[N + 1] = new /\ \A n \in 0..N : h[n] = f[n]
  BY <1>1, <1>10
<1>12. h \in [0..N + 1 -> GoodRows(more)]
  <2>1. \A n \in 0..N + 1 : n = N + 1 \/ n \in 0..N
    BY <1>1
  <2>2. \A n \in 0..N + 1 : h[n] \in GoodRows(more)
    BY <1>6, <1>9, <1>11, <2>1 DEF GoodRows, GoodRow
  <2>3. QED
    BY <1>10, <2>2
<1>13. \A n \in 1..N + 1 : h[n] = MirrorOne(h[n - 1], Append(ds, d)[n])
  <2> SUFFICES ASSUME NEW n \in 1..N + 1 PROVE h[n] = MirrorOne(h[n - 1], Append(ds, d)[n])
    OBVIOUS
  <2>1. CASE n = N + 1
    <3>1. n - 1 = N
      BY <1>1, <2>1
    <3>2. QED
      BY <1>3, <1>7, <1>8, <1>11, <2>1, <3>1
  <2>2. CASE n # N + 1
    <3>1. n \in 1..N /\ n \in 0..N /\ n - 1 \in 0..N
      BY <1>1, <2>2
    <3>2. QED
      BY <1>3, <1>5, <1>11, <3>1
  <2>3. QED
    BY <2>1, <2>2
<1>14. h[0] = r
  <2>1. 0 \in 0..N
    BY <1>1
  <2>2. QED
    BY <1>5, <1>11, <2>1
<1>15. Traces(h, r, Append(ds, d), more)
  BY <1>3, <1>12, <1>13, <1>14 DEF Traces
<1>16. QED
  BY <1>1, <1>3, <1>7, <1>11, <1>15

LEMMA TraceTail ==
  ASSUME NEW last \in 0..MaxPulls, NEW r, NEW ds, GoodDeliveries(ds, last), ds # <<>>,
         NEW f, Traces(f, r, ds, last)
  PROVE  \E h : /\ Traces(h, MirrorOne(r, Head(ds)), Tail(ds), last)
                /\ h[Len(Tail(ds))] = f[Len(ds)]
<1>1. PICK N \in Nat : N = Len(ds)
  BY DEF GoodDeliveries
<1>2. ds \in Seq(Deliveries)
  BY DEF GoodDeliveries
<1>3. /\ Len(Tail(ds)) = N - 1 /\ N - 1 \in Nat
      /\ \A n \in 1..N - 1 : Tail(ds)[n] = ds[n + 1]
      /\ Head(ds) = ds[1]
  BY <1>1, <1>2
<1>4. f[0] = r /\ \A n \in 1..N : f[n] = MirrorOne(f[n - 1], ds[n])
  BY <1>1 DEF Traces
<1>5. \A n \in 0..N : GoodRow(f[n], last)
  BY <1>1, TraceKeeps
<1>6. PICK M \in Nat : M = N - 1 /\ N = M + 1
  BY <1>1, <1>3
<1>7. PICK h : h = [n \in 0..M |-> f[n + 1]]
  OBVIOUS
<1>8. \A n \in 0..M : h[n] = f[n + 1] /\ n + 1 \in 0..N /\ n + 1 \in 1..N /\ (n + 1) - 1 = n
  BY <1>6, <1>7
<1>9. h \in [0..M -> GoodRows(last)]
  <2>1. \A n \in 0..M : h[n] \in GoodRows(last)
    BY <1>5, <1>8 DEF GoodRows, GoodRow
  <2>2. QED
    BY <1>7, <2>1
<1>10. h[0] = MirrorOne(r, Head(ds))
  <2>1. 0 \in 0..M /\ 0 + 1 = 1
    BY <1>6
  <2>2. h[0] = f[1] /\ 1 \in 1..N /\ 1 - 1 = 0
    BY <1>8, <2>1
  <2>3. QED
    BY <1>3, <1>4, <2>2
<1>11. \A n \in 1..M : h[n] = MirrorOne(h[n - 1], Tail(ds)[n])
  <2> SUFFICES ASSUME NEW n \in 1..M PROVE h[n] = MirrorOne(h[n - 1], Tail(ds)[n])
    OBVIOUS
  <2>1. n \in 0..M /\ n - 1 \in 0..M /\ (n - 1) + 1 = n
    BY <1>6
  <2>2. h[n] = f[n + 1] /\ h[n - 1] = f[n] /\ f[n + 1] = MirrorOne(f[n], ds[n + 1])
    BY <1>4, <1>8, <2>1
  <2>3. QED
    BY <1>3, <1>6, <2>2
<1>12. h[M] = f[N]
  BY <1>6, <1>8
<1>13. Traces(h, MirrorOne(r, Head(ds)), Tail(ds), last)
  BY <1>3, <1>6, <1>9, <1>10, <1>11 DEF Traces
<1>14. QED
  BY <1>1, <1>3, <1>6, <1>12, <1>13

-----------------------------------------------------------------------------
(* The pull requests, linked oldest first. *)

LEMMA LinkTrace ==
  ASSUME GoodPulls, NEW r, GoodRow(r, Len(pulls))
  PROVE  \E f : /\ f[0] = r /\ LinkPulls(r, pulls) = f[Len(pulls)]
                /\ \A n \in 0..Len(pulls) : GoodRow(f[n], Len(pulls))
                /\ \A n \in 1..Len(pulls) : f[n] = link_pull_request(f[n - 1], n, pulls[n])
<1>1. PICK N \in 0..MaxPulls : N = Len(pulls)
  BY PullNumbers
<1>2. PICK S : S = GoodRows(N)
  OBVIOUS
<1>3. r \in S /\ N \in Nat
  BY <1>1, <1>2, MirrorAssumption DEF GoodRows, GoodRow
<1>4. DOMAIN pulls = 1..N /\ \A n \in 1..N : pulls[n] \in {"open", "closed", "merged"}
  BY <1>1, PullNumbers
<1>5. OldestFirst(pulls) = [n \in 1..N |-> n]
  BY <1>4 DEF OldestFirst
<1>6. PICK g : g = [p \in S \X (1..N) |-> link_pull_request(p[1], p[2], pulls[p[2]])]
  OBVIOUS
<1>7. g \in [S \X (1..N) -> S]
  <2>1. \A p \in S \X (1..N) : p[1] \in S /\ p[2] \in 1..N /\ g[p] = link_pull_request(p[1], p[2], pulls[p[2]])
    BY <1>6
  <2>2. ASSUME NEW p \in S \X (1..N) PROVE g[p] \in S
    <3>0. PICK old \in S, n \in 1..N : old = p[1] /\ n = p[2] /\ GoodRow(old, N)
      BY <1>2, <2>1 DEF GoodRows
    <3>1. PICK state \in {"open", "closed", "merged"} : state = pulls[n]
      BY <1>4
    <3>2. GoodRow(link_pull_request(old, n, state), N)
      BY <1>1, <3>0, LinkOne
    <3>3. QED
      BY <1>2, <2>1, <3>0, <3>1, <3>2 DEF GoodRows, GoodRow
  <2>3. QED
    BY <1>6, <2>2
<1>8. PICK f \in [0..N -> S] : Iterates(f, r, g, N)
  BY <1>3, <1>7, Iteration
<1>9. \A n \in 1..N : f[n] = link_pull_request(f[n - 1], n, pulls[n])
  <2> SUFFICES ASSUME NEW n \in 1..N PROVE f[n] = link_pull_request(f[n - 1], n, pulls[n])
    OBVIOUS
  <2>1. n - 1 \in 0..N
    BY <1>3
  <2>2. f[n - 1] \in S /\ f[n] = g[<<f[n - 1], n>>]
    BY <1>8, <2>1 DEF Iterates
  <2>3. QED
    BY <1>6, <2>2
<1>10. f[0] = r
  BY <1>8 DEF Iterates
<1> DEFINE Equation(h) ==
      h = [n \in 0..Len(pulls) |->
             IF n = 0 THEN r
             ELSE link_pull_request(h[n - 1], OldestFirst(pulls)[n], pulls[OldestFirst(pulls)[n]])]
<1>11. Equation(f)
  <2>1. f = [n \in 0..N |-> f[n]]
    BY <1>8
  <2>2. \A n \in 0..N : f[n] = IF n = 0 THEN r ELSE link_pull_request(f[n - 1], OldestFirst(pulls)[n], pulls[OldestFirst(pulls)[n]])
    <3>1. \A n \in 0..N : n = 0 \/ n \in 1..N
      BY <1>3
    <3>2. \A n \in 1..N : OldestFirst(pulls)[n] = n
      BY <1>5
    <3>3. QED
      BY <1>9, <1>10, <3>1, <3>2
  <2>3. QED
    BY <1>1, <2>1, <2>2, Zenon
<1>12. ASSUME NEW h, Equation(h) PROVE h[N] = f[N]
  <2>1. h[0] = r /\ \A n \in 1..N : h[n] = link_pull_request(h[n - 1], n, pulls[n])
    <3>1. \A n \in 0..N : h[n] = IF n = 0 THEN r ELSE link_pull_request(h[n - 1], OldestFirst(pulls)[n], pulls[OldestFirst(pulls)[n]])
      BY <1>1, <1>12
    <3>2. 0 \in 0..N /\ \A n \in 1..N : n # 0 /\ n \in 0..N /\ OldestFirst(pulls)[n] = n
      BY <1>3, <1>5
    <3>3. QED
      BY <3>1, <3>2
  <2> HIDE DEF Equation
  <2> DEFINE T == {n \in Nat : n <= N => h[n] = f[n]}
  <2>2. 0 \in T
    BY <1>10, <2>1
  <2>3. ASSUME NEW n \in Nat, n \in T PROVE n + 1 \in T
    <3> SUFFICES ASSUME n + 1 <= N PROVE h[n + 1] = f[n + 1]
      OBVIOUS
    <3>1. h[n] = f[n] /\ n + 1 \in 1..N /\ (n + 1) - 1 = n
      BY <1>3, <2>3
    <3>2. QED
      BY <1>9, <2>1, <3>1
  <2> HIDE DEF T
  <2>4. N \in T
    BY <1>3, <2>2, <2>3, NaturalInduction
  <2>5. QED
    BY <1>3, <2>4 DEF T
<1>13. LinkPulls(r, pulls) = f[N]
  <2>1. Equation(CHOOSE h : Equation(h))
    BY <1>11, Zenon
  <2>2. PICK h : h = CHOOSE x : Equation(x)
    OBVIOUS
  <2>3. Equation(h)
    BY <2>1, <2>2, Zenon
  <2>4. h[N] = f[N]
    BY <1>12, <2>3
  <2>5. LinkPulls(r, pulls) = h[Len(pulls)]
    BY <2>2, Zenon DEF LinkPulls
  <2>6. QED
    BY <1>1, <2>4, <2>5
<1>14. \A n \in 0..N : GoodRow(f[n], N)
  BY <1>2, <1>8 DEF GoodRows
<1>15. QED
  BY <1>1, <1>9, <1>10, <1>13, <1>14

\* Which one is linked after the first n.
Linked(r, n) ==
  \/ n = 0 /\ ~(r.pr > 0 /\ r.pr_state = "open")
  \/ r.pr > n /\ r.pr_state = "open" /\ \A m \in 1..n : pulls[m] # "open"
  \/ r.pr \in 1..n /\ pulls[r.pr] = "open" /\ r.pr_state = "open"
  \/ n # 0 /\ r.pr = n /\ pulls[n] = r.pr_state /\ \A m \in 1..n : pulls[m] # "open"

LEMMA LinkedNext ==
  ASSUME GoodPulls, NEW n \in 0..Len(pulls) - 1, NEW r, GoodRow(r, Len(pulls)), r # NoRow, Linked(r, n)
  PROVE  Linked(link_pull_request(r, n + 1, pulls[n + 1]), n + 1)
<1>1. PICK N \in Nat : N = Len(pulls)
  BY DEF GoodPulls
<1>2. \A k \in 1..N : pulls[k] \in {"open", "closed", "merged"}
  BY <1>1, PullNumbers
<1>3. \A k, m \in 1..N : pulls[k] = "open" /\ pulls[m] = "open" => k = m
  BY <1>1, PullNumbers DEF GoodPulls
<1>4. n + 1 \in 1..N /\ n \in Nat /\ 1..n \subseteq 1..N /\ \A k \in 1..n + 1 : k = n + 1 \/ k \in 1..n
  BY <1>1
<1>5. r.pr \in Nat
  BY MirrorAssumption DEF GoodRow, Rows
<1>6. PICK new, state : new = link_pull_request(r, n + 1, state) /\ state = pulls[n + 1]
  OBVIOUS
<1>7. LinksTo(r, new, n + 1, state) \/ (SparesOpen(r, n + 1, state) /\ new = r)
  <2>0. PICK last \in 0..MaxPulls : last = Len(pulls)
    BY PullNumbers
  <2>1. PICK k \in 1..last, t \in {"open", "closed", "merged"} : k = n + 1 /\ t = state
    BY <1>1, <1>2, <1>4, <1>6, <2>0
  <2>2. new = link_pull_request(r, k, t) /\ GoodRow(r, last)
    BY <1>6, <2>0, <2>1
  <2>3. LinksTo(r, new, k, t) \/ (SparesOpen(r, k, t) /\ new = r)
    BY <2>2, LinkOne
  <2>4. QED
    BY <2>1, <2>3
<1>8. CASE SparesOpen(r, n + 1, state) /\ new = r
  <2>1. r.pr # 0 /\ r.pr # n + 1 /\ r.pr_state = "open" /\ state # "open"
    BY <1>8 DEF SparesOpen
  <2>2. CASE r.pr > n /\ \A m \in 1..n : pulls[m] # "open"
    <3>1. r.pr > n + 1 /\ \A m \in 1..n + 1 : pulls[m] # "open"
      BY <1>4, <1>5, <1>6, <2>1, <2>2
    <3>2. QED
      BY <1>6, <1>8, <2>1, <3>1 DEF Linked
  <2>3. CASE r.pr \in 1..n /\ pulls[r.pr] = "open"
    <3>1. r.pr \in 1..n + 1
      BY <1>4, <2>3
    <3>2. QED
      BY <1>6, <1>8, <2>1, <2>3, <3>1 DEF Linked
  <2>4. CASE n # 0 /\ r.pr = n /\ pulls[n] = r.pr_state /\ \A m \in 1..n : pulls[m] # "open"
    <3>1. n \in 1..n
      BY <1>4, <2>4
    <3>2. QED
      BY <2>1, <2>4, <3>1
  <2>5. r.pr > 0
    BY <1>5, <2>1
  <2>6. QED
    BY <2>1, <2>2, <2>3, <2>4, <2>5 DEF Linked
<1>9. CASE LinksTo(r, new, n + 1, state)
  <2>1. new.pr = n + 1 /\ new.pr_state = state /\ ~SparesOpen(r, n + 1, state)
    BY <1>9 DEF LinksTo
  <2>2. new.pr \in 1..n + 1 /\ n + 1 # 0
    BY <1>4, <2>1
  <2>3. CASE state = "open"
    BY <1>6, <2>1, <2>2, <2>3 DEF Linked
  <2>4. CASE state # "open"
    <3>1. ~(r.pr \notin {0, n + 1} /\ r.pr_state = "open")
      BY <2>1, <2>4 DEF SparesOpen
    <3>2. \A m \in 1..n : pulls[m] # "open"
      <4>1. CASE n = 0
        BY <4>1
      <4>2. CASE r.pr \in 1..n /\ r.pr_state = "open"
        <5>1. r.pr \notin {0, n + 1}
          BY <1>4, <4>2
        <5>2. QED
          BY <3>1, <4>2, <5>1
      <4>3. QED
        BY <4>1, <4>2 DEF Linked
    <3>3. \A m \in 1..n + 1 : pulls[m] # "open"
      BY <1>4, <1>6, <2>4, <3>2
    <3>4. QED
      BY <1>6, <2>1, <2>2, <3>3 DEF Linked
  <2>5. QED
    BY <2>3, <2>4
<1>10. QED
  BY <1>6, <1>7, <1>8, <1>9

LEMMA LinksMirror ==
  ASSUME GoodPulls, NEW r, GoodRow(r, Len(pulls))
  PROVE  LET new == LinkPulls(r, pulls)
         IN  /\ GoodRow(new, Len(pulls)) /\ (new = NoRow <=> r = NoRow)
             /\ new.state = r.state /\ new.labels = r.labels /\ (r.pr # 0 => new.pr # 0)
             /\ MirrorsPull(new) /\ Newest(new)
<1>1. PICK N \in 0..MaxPulls : N = Len(pulls)
  BY PullNumbers
<1>2. N \in Nat
  BY MirrorAssumption
<1>3. PICK f : /\ f[0] = r /\ LinkPulls(r, pulls) = f[N]
               /\ \A n \in 0..N : GoodRow(f[n], N)
               /\ \A n \in 1..N : f[n] = link_pull_request(f[n - 1], n, pulls[n])
  <2>1. PICK f : /\ f[0] = r /\ LinkPulls(r, pulls) = f[Len(pulls)]
                 /\ \A n \in 0..Len(pulls) : GoodRow(f[n], Len(pulls))
                 /\ \A n \in 1..Len(pulls) : f[n] = link_pull_request(f[n - 1], n, pulls[n])
    BY LinkTrace
  <2>2. QED
    BY <1>1, <2>1
<1>4. DOMAIN pulls = 1..N /\ \A n \in 1..N : pulls[n] \in {"open", "closed", "merged"}
  BY <1>1, PullNumbers
<1> DEFINE Kept(new) ==
      /\ new = NoRow <=> r = NoRow
      /\ new.state = r.state /\ new.labels = r.labels /\ (r.pr # 0 => new.pr # 0)
<1> DEFINE T == {n \in Nat : n <= N => Kept(f[n]) /\ (r # NoRow => Linked(f[n], n))}
<1>5. 0 \in T
  BY <1>3 DEF Linked
<1>6. ASSUME NEW n \in Nat, n \in T PROVE n + 1 \in T
  <2> SUFFICES ASSUME n + 1 <= N PROVE Kept(f[n + 1]) /\ (r # NoRow => Linked(f[n + 1], n + 1))
    OBVIOUS
  <2>1. n \in 0..N /\ n + 1 \in 1..N /\ (n + 1) - 1 = n /\ n \in 0..N - 1
    BY <1>2, <1>6
  <2>2. PICK state \in {"open", "closed", "merged"} : state = pulls[n + 1]
    BY <1>4, <2>1
  <2>3. PICK old, new : old = f[n] /\ new = f[n + 1]
    OBVIOUS
  <2>4. new = link_pull_request(old, n + 1, state) /\ GoodRow(old, N)
    BY <1>3, <2>1, <2>2, <2>3
  <2>5. /\ new = NoRow <=> old = NoRow
        /\ new.state = old.state /\ new.labels = old.labels /\ (old.pr # 0 => new.pr # 0)
    <3>1. PICK k \in 1..N : k = n + 1
      BY <2>1
    <3>2. new = link_pull_request(old, k, state) /\ GoodRow(old, N)
      BY <2>4, <3>1
    <3>3. /\ GoodRow(new, N) /\ (new = NoRow <=> old = NoRow)
          /\ new.state = old.state /\ new.labels = old.labels
          /\ old.pr # 0 => new.pr # 0
          /\ LinksTo(old, new, k, state) \/ (SparesOpen(old, k, state) /\ new = old)
      BY <3>2, LinkOne
    <3>4. QED
      BY <3>3
  <2>6. Kept(old)
    BY <1>6, <2>1, <2>3
  <2>7. Kept(new)
    BY <2>5, <2>6
  <2>8. r # NoRow => Linked(new, n + 1)
    <3>1. SUFFICES ASSUME r # NoRow PROVE Linked(new, n + 1)
      OBVIOUS
    <3>2. Linked(old, n) /\ old # NoRow
      BY <1>6, <2>1, <2>3, <2>6, <3>1
    <3>3. QED
      BY <1>1, <2>1, <2>2, <2>4, <3>2, LinkedNext
  <2>9. QED
    BY <2>3, <2>7, <2>8
<1> HIDE DEF T
<1>7. N \in T
  BY <1>2, <1>5, <1>6, NaturalInduction
<1>8. PICK new : new = f[N]
  OBVIOUS
<1>9. Kept(new) /\ (r # NoRow => Linked(new, N))
  BY <1>2, <1>7, <1>8 DEF T
<1>10. GoodRow(new, N)
  <2>1. N \in 0..N
    BY <1>2
  <2>2. QED
    BY <1>3, <1>8, <2>1
<1>11. MirrorsPull(new) /\ Newest(new)
  <2>1. CASE new = NoRow
    BY <2>1 DEF MirrorsPull, Newest
  <2>2. CASE new # NoRow
    <3>1. Linked(new, N) /\ new.pr \in Nat /\ new.pr <= N
      BY <1>9, <1>10, <2>2, MirrorAssumption DEF GoodRow, Rows
    <3>2. CASE N = 0
      <4>1. new.pr = 0 /\ pulls = <<>>
        BY <1>1, <3>1, <3>2, PullNumbers
      <4>2. QED
        BY <1>1, <3>2, <4>1 DEF MirrorsPull, Newest
    <3>3. CASE new.pr \in 1..N /\ pulls[new.pr] = "open" /\ new.pr_state = "open"
      <4>1. new.pr \in OpenPulls
        BY <1>4, <3>3 DEF OpenPulls
      <4>2. QED
        BY <1>4, <3>3, <4>1 DEF MirrorsPull, Newest
    <3>4. CASE N # 0 /\ new.pr = N /\ pulls[N] = new.pr_state /\ \A m \in 1..N : pulls[m] # "open"
      <4>1. OpenPulls = {} /\ N \in 1..N
        BY <1>2, <1>4, <3>4 DEF OpenPulls
      <4>2. QED
        BY <1>1, <1>4, <3>4, <4>1 DEF MirrorsPull, Newest
    <3>5. QED
      BY <3>1, <3>2, <3>3, <3>4 DEF Linked
  <2>3. QED
    BY <2>1, <2>2
<1>12. QED
  BY <1>1, <1>3, <1>8, <1>9, <1>10, <1>11

-----------------------------------------------------------------------------
(* The order of the deliveries, when one more is on its way or one has arrived. *)

LEMMA LaterAppend ==
  ASSUME NEW ds, ds \in Seq(Deliveries), NEW d \in Deliveries, NEW n \in 0..Len(ds)
  PROVE  /\ LaterIssue(Append(ds, d), n) <=> LaterIssue(ds, n) \/ IsNews(d, "issue")
         /\ \A m : LaterPull(Append(ds, d), n, m)
                   <=> LaterPull(ds, n, m) \/ (IsNews(d, "pull") /\ d.pr = m)
<1>1. PICK N \in Nat : N = Len(ds)
  OBVIOUS
<1>2. /\ Len(Append(ds, d)) = N + 1 /\ Append(ds, d)[N + 1] = d
      /\ \A k \in 1..N : Append(ds, d)[k] = ds[k]
  BY <1>1
<1>3. /\ n + 1..N \subseteq 1..N /\ n + 1..N \subseteq n + 1..N + 1 /\ N + 1 \in n + 1..N + 1
      /\ \A k \in n + 1..N + 1 : k = N + 1 \/ k \in n + 1..N
  BY <1>1
<1>4. QED
  BY <1>1, <1>2, <1>3 DEF LaterIssue, LaterPull

LEMMA LaterTail ==
  ASSUME NEW ds, ds \in Seq(Deliveries), ds # <<>>, NEW n \in 0..Len(ds) - 1
  PROVE  /\ LaterIssue(Tail(ds), n) <=> LaterIssue(ds, n + 1)
         /\ \A m : LaterPull(Tail(ds), n, m) <=> LaterPull(ds, n + 1, m)
<1>1. PICK N \in Nat : N = Len(ds)
  OBVIOUS
<1>2. PICK M \in Nat : M = N - 1 /\ N = M + 1
  BY <1>1
<1>3. /\ Len(Tail(ds)) = M /\ \A k \in 1..M : Tail(ds)[k] = ds[k + 1]
  BY <1>1, <1>2
<1>4. \A k \in n + 1..M : k + 1 \in (n + 1) + 1..N /\ k \in 1..M
  BY <1>1, <1>2
<1>5. \A k \in (n + 1) + 1..N : k - 1 \in n + 1..M /\ (k - 1) + 1 = k
  BY <1>1, <1>2
<1>6. \A k \in n + 1..M : Tail(ds)[k] = ds[k + 1]
  BY <1>3, <1>4
<1>7. LaterIssue(Tail(ds), n) <=> LaterIssue(ds, n + 1)
  <2>1. LaterIssue(Tail(ds), n) => LaterIssue(ds, n + 1)
    BY <1>1, <1>3, <1>4, <1>6 DEF LaterIssue
  <2>2. LaterIssue(ds, n + 1) => LaterIssue(Tail(ds), n)
    BY <1>1, <1>3, <1>5, <1>6 DEF LaterIssue
  <2>3. QED
    BY <2>1, <2>2
<1>8. ASSUME NEW m PROVE LaterPull(Tail(ds), n, m) <=> LaterPull(ds, n + 1, m)
  <2>1. LaterPull(Tail(ds), n, m) => LaterPull(ds, n + 1, m)
    BY <1>1, <1>3, <1>4, <1>6 DEF LaterPull
  <2>2. LaterPull(ds, n + 1, m) => LaterPull(Tail(ds), n, m)
    BY <1>1, <1>3, <1>5, <1>6 DEF LaterPull
  <2>3. QED
    BY <2>1, <2>2
<1>9. QED
  BY <1>7, <1>8

LEMMA OrderAppend ==
  ASSUME NEW ds, ds \in Seq(Deliveries), NEW d \in Deliveries
  PROVE  /\ ~IsNews(d, "issue") /\ IssueInOrder(ds) => IssueInOrder(Append(ds, d))
         /\ ~IsNews(d, "pull") /\ PullsInOrder(ds) => PullsInOrder(Append(ds, d))
<1>1. PICK N \in Nat : N = Len(ds)
  OBVIOUS
<1>2. /\ Len(Append(ds, d)) = N + 1 /\ Append(ds, d)[N + 1] = d
      /\ \A k \in 1..N : Append(ds, d)[k] = ds[k]
  BY <1>1
<1>3. \A n \in 1..N + 1 : n = N + 1 \/ n \in 1..N
  BY <1>1
<1>4. \A n \in 1..N : n \in 0..N
  BY <1>1
<1>5. ASSUME ~IsNews(d, "issue"), IssueInOrder(ds) PROVE IssueInOrder(Append(ds, d))
  <2>1. \A n \in 1..N : LaterIssue(ds, n) => LaterIssue(Append(ds, d), n)
    BY <1>1, <1>4, LaterAppend
  <2>2. \A n \in 1..N : IsNews(ds[n], "issue") => ds[n].issue = issue \/ LaterIssue(ds, n)
    BY <1>1, <1>5 DEF IssueInOrder
  <2>3. QED
    BY <1>2, <1>3, <1>5, <2>1, <2>2 DEF IssueInOrder
<1>6. ASSUME ~IsNews(d, "pull"), PullsInOrder(ds) PROVE PullsInOrder(Append(ds, d))
  <2>1. \A n \in 1..N : \A m : LaterPull(ds, n, m) => LaterPull(Append(ds, d), n, m)
    BY <1>1, <1>4, LaterAppend
  <2>2. \A n \in 1..N : IsNews(ds[n], "pull") =>
          /\ ds[n].pr_state = pulls[ds[n].pr] \/ LaterPull(ds, n, ds[n].pr)
          /\ ds[n].pr_state = "open" => \A m \in OpenPulls \ {ds[n].pr} : LaterPull(ds, n, m)
    BY <1>1, <1>6 DEF PullsInOrder
  <2>3. QED
    BY <1>2, <1>3, <1>6, <2>1, <2>2 DEF PullsInOrder
<1>7. QED
  BY <1>5, <1>6

LEMMA OrderTail ==
  ASSUME NEW ds, ds \in Seq(Deliveries), ds # <<>>
  PROVE  /\ IssueInOrder(ds) => IssueInOrder(Tail(ds))
         /\ PullsInOrder(ds) => PullsInOrder(Tail(ds))
<1>1. PICK N \in Nat : N = Len(ds)
  OBVIOUS
<1>2. PICK M \in Nat : M = N - 1 /\ N = M + 1
  BY <1>1
<1>3. /\ Len(Tail(ds)) = M /\ \A k \in 1..M : Tail(ds)[k] = ds[k + 1]
  BY <1>1, <1>2
<1>4. \A n \in 1..M : n \in 0..N - 1 /\ n + 1 \in 1..N
  BY <1>2
<1>5. ASSUME IssueInOrder(ds) PROVE IssueInOrder(Tail(ds))
  <2>1. \A n \in 1..M : LaterIssue(ds, n + 1) => LaterIssue(Tail(ds), n)
    BY <1>1, <1>4, LaterTail
  <2>2. \A n \in 1..N : IsNews(ds[n], "issue") => ds[n].issue = issue \/ LaterIssue(ds, n)
    BY <1>1, <1>5 DEF IssueInOrder
  <2>3. QED
    BY <1>3, <1>4, <2>1, <2>2 DEF IssueInOrder
<1>6. ASSUME PullsInOrder(ds) PROVE PullsInOrder(Tail(ds))
  <2>1. \A n \in 1..M : \A m : LaterPull(ds, n + 1, m) => LaterPull(Tail(ds), n, m)
    BY <1>1, <1>4, LaterTail
  <2>2. \A n \in 1..N : IsNews(ds[n], "pull") =>
          /\ ds[n].pr_state = pulls[ds[n].pr] \/ LaterPull(ds, n, ds[n].pr)
          /\ ds[n].pr_state = "open" => \A m \in OpenPulls \ {ds[n].pr} : LaterPull(ds, n, m)
    BY <1>1, <1>6 DEF PullsInOrder
  <2>3. QED
    BY <1>3, <1>4, <2>1, <2>2 DEF PullsInOrder
<1>7. QED
  BY <1>5, <1>6

-----------------------------------------------------------------------------
(* The inductive invariant. *)

DataInv ==
  /\ GoodIssue(issue) /\ GoodPulls /\ GoodDeliveries(deliveries, Len(pulls))
  /\ GoodRow(row, Len(pulls)) /\ (row = NoRow => pulls = <<>>)
  /\ suspended \in BOOLEAN /\ enabled \in BOOLEAN /\ disturbed \in BOOLEAN
  /\ changes \in 0..MaxChanges /\ faults \in 0..MaxFaults

AnyWriter ==
  [kind: {"none", "create", "clear", "ask", "conclude"}, at: {"idle", "loaded", "called", "read"},
   row: Rows, pr: 0..MaxPulls]

\* A writer that is not creating the ticket has one, and the pull request it saw is not unlinked.
WriterInv ==
  /\ writer \in AnyWriter
  /\ GoodRow(writer.row, Len(pulls))
  /\ writer.kind \in {"clear", "ask", "conclude"} => row # NoRow
  /\ writer.kind = "conclude" => writer.pr \in 1..Len(pulls)
  /\ writer.at = "loaded" => writer.kind = "clear"
  /\ writer.at = "read" => writer.kind \in {"ask", "conclude"} /\ (writer.row.pr # 0 => row.pr # 0)

AnySync == [at: {"idle", "issues", "pulls"}, row: Rows, clean: BOOLEAN, calm: BOOLEAN]

\* Nobody else writes the row that a sync has locked.
SyncInv ==
  /\ sync \in AnySync
  /\ GoodRow(sync.row, Len(pulls))
  /\ sync.at = "pulls" => /\ sync.row = NoRow => row = NoRow
                          /\ row.pr # 0 => sync.row.pr # 0
                          /\ sync.calm => MirrorsIssue(sync.row)

\* Nothing is said of an issue that is not there yet.
MissingInv ==
  issue.state = "none" => /\ row = NoRow /\ sync.row = NoRow /\ writer = NoWriter
                          /\ \A n \in 1..Len(deliveries) : deliveries[n].kind # "issue"

\* What a sync that is under way has read is what GitHub has, or the change is on its way.
OrderInv ==
  ~disturbed \/ sync.clean =>
    /\ IssueInOrder(deliveries) /\ PullsInOrder(deliveries)
    /\ sync.at = "pulls" => MirrorsIssue(sync.row) \/ LaterIssue(deliveries, 0)

\* Settled(row), with the rows in between.
Settles(r) ==
  \E f : Traces(f, r, deliveries, Len(pulls)) /\ Mirrors(f[Len(deliveries)])

MirrorInv == ~disturbed => Settles(row)

Inv == DataInv /\ WriterInv /\ SyncInv /\ MissingInv /\ OrderInv /\ MirrorInv

-----------------------------------------------------------------------------
(* What changes on GitHub, whoever changes it. *)

LEMMA AnIssue ==
  ASSUME NEW i, GoodIssue(i), i.state # "none", NEW last
  PROVE  /\ GoodDelivery(AboutIssue(i), last) /\ AboutIssue(i).issue = i
         /\ IsNews(AboutIssue(i), "issue") /\ ~IsNews(AboutIssue(i), "pull")
<1>1. i \in Issues /\ 0 \in 0..MaxPulls
  BY MirrorAssumption DEF GoodIssue
<1>2. /\ AboutIssue(i) \in Deliveries /\ AboutIssue(i).issue = i /\ AboutIssue(i).kind = "issue"
      /\ AboutIssue(i).seen = FALSE
  BY <1>1 DEF AboutIssue, Delivery, Deliveries, Kinds, PullStates
<1>3. QED
  BY <1>2 DEF GoodDelivery, IsNews

LEMMA APull ==
  ASSUME NEW last \in 0..MaxPulls, NEW n \in 1..last, NEW state \in {"open", "closed", "merged"}
  PROVE  /\ GoodDelivery(AboutPull(n, state), last)
         /\ AboutPull(n, state).pr = n /\ AboutPull(n, state).pr_state = state
         /\ IsNews(AboutPull(n, state), "pull") /\ ~IsNews(AboutPull(n, state), "issue")
<1>1. Missing \in Issues
  BY DEF Missing, Issues, IssueStates, Labels
<1>2. n \in 0..MaxPulls /\ state \in PullStates
  BY MirrorAssumption DEF PullStates
<1>3. /\ AboutPull(n, state) \in Deliveries /\ AboutPull(n, state).pr = n
      /\ AboutPull(n, state).pr_state = state /\ AboutPull(n, state).kind = "pull"
      /\ AboutPull(n, state).seen = FALSE
  BY <1>1, <1>2 DEF AboutPull, Delivery, Deliveries, Kinds
<1>4. QED
  BY <1>3 DEF GoodDelivery, IsNews

LEMMA AnInstallation ==
  ASSUME NEW kind \in {"suspend", "deleted", "unsuspend"}, NEW last
  PROVE  /\ GoodDelivery(AboutInstallation(kind), last)
         /\ AboutInstallation(kind).kind = kind
         /\ ~IsNews(AboutInstallation(kind), "issue") /\ ~IsNews(AboutInstallation(kind), "pull")
<1>1. Missing \in Issues /\ 0 \in 0..MaxPulls
  BY MirrorAssumption DEF Missing, Issues, IssueStates, Labels
<1>2. AboutInstallation(kind) \in Deliveries /\ AboutInstallation(kind).kind = kind
  BY <1>1 DEF AboutInstallation, Delivery, Deliveries, Kinds, PullStates
<1>3. QED
  BY <1>2 DEF GoodDelivery, IsNews

\* The issue is created or changed, and announced.
MovesIssue == \E i : GoodIssue(i) /\ i.state # "none" /\ SetIssue(i)

\* A pull request is opened, when no other is, or changed, or touched.
MovesPull ==
  \E n \in 1..MaxPulls, state \in {"open", "closed", "merged"} :
    /\ row # NoRow /\ n <= Len(pulls) + 1
    /\ n = Len(pulls) + 1 => state = "open"
    /\ state = "open" => OpenPulls \subseteq {n}
    /\ SetPull(n, state)

Moves == MovesIssue \/ MovesPull \/ UNCHANGED <<issue, pulls, deliveries>>

LEMMA PeopleMove ==
  ASSUME DataInv, People
  PROVE  Moves
<1>1. PICK N \in Nat : N = Len(pulls)
  BY DEF DataInv, GoodPulls
<1>2. /\ N \in 0..MaxPulls /\ DOMAIN pulls = 1..N
      /\ \A n \in 1..N : pulls[n] \in {"open", "closed", "merged"}
      /\ OpenPulls = {n \in 1..N : pulls[n] = "open"}
      /\ N = 0 <=> pulls = <<>>
      /\ \A m, n \in OpenPulls : m = n
  BY <1>1, PullNumbers DEF DataInv, GoodPulls
<1>3. GoodIssue(issue) /\ issue \in Issues
  BY DEF DataInv, GoodIssue
<1>4. ASSUME ChangeIssue PROVE MovesIssue
  <2>1. ASSUME NEW ls \in SUBSET Labels, SetIssue([state |-> "open", labels |-> ls]) PROVE MovesIssue
    <3>1. PICK i : i = [state |-> "open", labels |-> ls]
      OBVIOUS
    <3>2. GoodIssue(i) /\ i.state # "none"
      BY <3>1 DEF GoodIssue, Issues, IssueStates
    <3>3. QED
      BY <2>1, <3>1, <3>2 DEF MovesIssue
  <2>2. ASSUME issue.state \in {"open", "closed"},
               SetIssue([issue EXCEPT !.state = IF @ = "open" THEN "closed" ELSE "open"])
        PROVE  MovesIssue
    <3>1. PICK i : i = [issue EXCEPT !.state = IF @ = "open" THEN "closed" ELSE "open"]
      OBVIOUS
    <3>2. i \in Issues /\ i.state \in {"open", "closed"}
      BY <1>3, <3>1 DEF Issues, IssueStates
    <3>3. QED
      BY <2>2, <3>1, <3>2 DEF MovesIssue, GoodIssue
  <2>3. ASSUME issue.state \in {"open", "closed"}, NEW l \in Labels,
               SetIssue([issue EXCEPT !.labels = IF l \in @ THEN @ \ {l} ELSE @ \union {l}])
        PROVE  MovesIssue
    <3>1. PICK ls \in SUBSET Labels : ls = IF l \in issue.labels THEN issue.labels \ {l} ELSE issue.labels \union {l}
      BY <1>3 DEF Issues
    <3>2. PICK i : i = [issue EXCEPT !.labels = ls]
      OBVIOUS
    <3>3. i \in Issues /\ i.state \in {"open", "closed"}
      BY <1>3, <2>3, <3>2 DEF Issues
    <3>4. QED
      BY <2>3, <3>1, <3>2, <3>3 DEF MovesIssue, GoodIssue
  <2>4. ASSUME SetIssue([issue EXCEPT !.state = "gone", !.labels = {}]) PROVE MovesIssue
    <3>1. PICK i : i = [issue EXCEPT !.state = "gone", !.labels = {}]
      OBVIOUS
    <3>2. i \in Issues /\ i.state = "gone" /\ i.labels = {}
      BY <1>3, <3>1 DEF Issues, IssueStates
    <3>3. QED
      BY <2>4, <3>1, <3>2 DEF MovesIssue, GoodIssue
  <2>5. QED
    BY <1>4, <2>1, <2>2, <2>3, <2>4 DEF ChangeIssue
<1>5. ASSUME ChangePull PROVE MovesPull
  <2>1. row = NoRow => N = 0
    BY <1>2 DEF DataInv
  <2>2. \A n \in 1..N : n \in 1..MaxPulls /\ n <= Len(pulls) + 1 /\ n # Len(pulls) + 1 /\ N # 0
    BY <1>1, <1>2, MirrorAssumption
  <2>3. ASSUME NEW n \in OpenPulls, NEW state \in {"closed", "merged"}, SetPull(n, state) PROVE MovesPull
    <3>1. n \in 1..N /\ state \in {"open", "closed", "merged"} /\ state # "open"
      BY <1>2, <2>3
    <3>2. QED
      BY <2>1, <2>2, <2>3, <3>1 DEF MovesPull
  <2>4. ASSUME NEW n \in DOMAIN pulls, OpenPulls = {}, SetPull(n, "open") PROVE MovesPull
    BY <1>2, <2>1, <2>2, <2>4 DEF MovesPull
  <2>5. ASSUME NEW n \in DOMAIN pulls, SetPull(n, pulls[n]) PROVE MovesPull
    <3>1. PICK state \in {"open", "closed", "merged"} : state = pulls[n]
      BY <1>2
    <3>2. state = "open" => OpenPulls \subseteq {n}
      BY <1>2, <3>1
    <3>3. QED
      BY <1>2, <2>1, <2>2, <2>5, <3>1, <3>2 DEF MovesPull
  <2>6. ASSUME pulls # <<>>, Len(pulls) < MaxPulls, OpenPulls = {}, SetPull(Len(pulls) + 1, "open")
        PROVE  MovesPull
    <3>1. PICK n \in 1..MaxPulls : n = Len(pulls) + 1
      BY <1>1, <2>6, MirrorAssumption
    <3>2. n <= Len(pulls) + 1
      BY <1>1, <3>1
    <3>3. QED
      BY <1>2, <2>1, <2>6, <3>1, <3>2 DEF MovesPull
  <2>7. QED
    BY <1>5, <2>3, <2>4, <2>5, <2>6 DEF ChangePull
<1>6. QED
  BY <1>4, <1>5 DEF People, Moves

LEMMA WritersMove ==
  ASSUME DataInv, WriterCalls \/ RemoveLabel
  PROVE  Moves
<1>1. PICK N \in Nat : N = Len(pulls)
  BY DEF DataInv, GoodPulls
<1>2. /\ N \in 0..MaxPulls /\ OpenPulls = {n \in 1..N : pulls[n] = "open"}
      /\ \A m, n \in OpenPulls : m = n
  BY <1>1, PullNumbers DEF DataInv, GoodPulls
<1>3. GoodIssue(issue) /\ issue \in Issues
  BY DEF DataInv, GoodIssue
<1>4. ASSUME CreateIssue PROVE MovesIssue
  <2>1. PICK i : i = [state |-> "open", labels |-> {NEXTIX}]
    OBVIOUS
  <2>2. GoodIssue(i) /\ i.state # "none"
    BY <2>1 DEF GoodIssue, Issues, IssueStates, Labels
  <2>3. QED
    BY <1>4, <2>1, <2>2 DEF CreateIssue, MovesIssue
<1>5. ASSUME AddLabel PROVE Moves
  <2>1. CASE NEEDS \in issue.labels
    BY <1>5, <2>1 DEF AddLabel, Moves
  <2>2. CASE NEEDS \notin issue.labels
    <3>1. PICK ls \in SUBSET Labels : ls = issue.labels \union {NEEDS}
      BY <1>3 DEF Issues, Labels
    <3>2. PICK i : i = [issue EXCEPT !.labels = ls]
      OBVIOUS
    <3>3. i \in Issues /\ i.state \in {"open", "closed"}
      BY <1>3, <1>5, <3>2 DEF AddLabel, Issues
    <3>4. QED
      BY <1>5, <2>2, <3>1, <3>2, <3>3 DEF AddLabel, MovesIssue, GoodIssue, Moves
  <2>3. QED
    BY <2>1, <2>2
<1>6. ASSUME OpenOrUpdate PROVE MovesPull
  <2>1. ASSUME NEW n \in OpenPulls, SetPull(n, "open") PROVE MovesPull
    <3>1. n \in 1..MaxPulls /\ n <= Len(pulls) + 1 /\ n # Len(pulls) + 1
      BY <1>1, <1>2, MirrorAssumption
    <3>2. OpenPulls \subseteq {n}
      BY <1>2, <2>1
    <3>3. QED
      BY <1>6, <2>1, <3>1, <3>2 DEF OpenOrUpdate, MovesPull
  <2>2. ASSUME OpenPulls = {}, Len(pulls) < MaxPulls, SetPull(Len(pulls) + 1, "open") PROVE MovesPull
    <3>1. PICK n \in 1..MaxPulls : n = Len(pulls) + 1
      BY <1>1, <2>2, MirrorAssumption
    <3>2. n <= Len(pulls) + 1
      BY <1>1, <3>1
    <3>3. QED
      BY <1>6, <2>2, <3>1, <3>2 DEF OpenOrUpdate, MovesPull
  <2>3. QED
    BY <1>6, <2>1, <2>2 DEF OpenOrUpdate
<1>7. ASSUME RemoveLabel PROVE Moves
  <2>1. CASE NEEDS \in issue.labels /\ ~suspended
    <3>1. issue.state \notin {"none", "gone"}
      BY <1>3, <2>1 DEF GoodIssue
    <3>2. PICK ls \in SUBSET Labels : ls = issue.labels \ {NEEDS}
      BY <1>3 DEF Issues
    <3>3. PICK i : i = [issue EXCEPT !.labels = ls]
      OBVIOUS
    <3>4. i \in Issues /\ i.state \notin {"none", "gone"}
      BY <1>3, <3>1, <3>3 DEF Issues
    <3>5. QED
      BY <1>7, <2>1, <3>2, <3>3, <3>4 DEF RemoveLabel, MovesIssue, GoodIssue, Moves
  <2>2. CASE ~(NEEDS \in issue.labels /\ ~suspended)
    BY <1>7, <2>2 DEF RemoveLabel, Moves
  <2>3. QED
    BY <2>1, <2>2
<1>8. LoadTicket => Moves
  BY DEF LoadTicket, Moves
<1>9. QED
  BY <1>4, <1>5, <1>6, <1>7, <1>8 DEF WriterCalls, Moves

LEMMA PullSet ==
  ASSUME GoodPulls, NEW n \in 1..MaxPulls, NEW state \in {"open", "closed", "merged"},
         n <= Len(pulls) + 1, state = "open" => OpenPulls \subseteq {n}, SetPull(n, state)
  PROVE  /\ GoodPulls' /\ n \in 1..Len(pulls') /\ pulls'[n] = state
         /\ Len(pulls) <= Len(pulls')
         /\ \A k \in 1..Len(pulls) : k \in 1..Len(pulls') /\ (k # n => pulls'[k] = pulls[k])
         /\ OpenPulls' = IF state = "open" THEN {n} ELSE OpenPulls \ {n}
<1>1. PICK N \in Nat : N = Len(pulls)
  BY DEF GoodPulls
<1>2. /\ N \in 0..MaxPulls /\ DOMAIN pulls = 1..N /\ OpenPulls = {k \in 1..N : pulls[k] = "open"}
      /\ \A k, m \in OpenPulls : k = m
      /\ pulls \in Seq({"open", "closed", "merged"})
  BY <1>1, PullNumbers DEF GoodPulls
<1>3. PICK M \in Nat :
        /\ pulls' \in Seq({"open", "closed", "merged"}) /\ Len(pulls') = M /\ M <= MaxPulls
        /\ n \in 1..M /\ pulls'[n] = state /\ N <= M /\ \A k \in 1..M : k = n \/ k \in 1..N
        /\ \A k \in 1..N : k # n => pulls'[k] = pulls[k]
  <2>1. CASE n \in 1..N
    <3>1. pulls' = [pulls EXCEPT ![n] = state]
      BY <1>2, <2>1 DEF SetPull
    <3>2. /\ pulls' \in Seq({"open", "closed", "merged"}) /\ Len(pulls') = N
          /\ pulls'[n] = state /\ \A k \in 1..N : k # n => pulls'[k] = pulls[k]
      BY <1>1, <1>2, <2>1, <3>1
    <3>3. QED
      BY <1>1, <1>2, <2>1, <3>2, MirrorAssumption
  <2>2. CASE n \notin 1..N
    <3>1. n = N + 1
      BY <1>1, <2>2
    <3>2. pulls' = Append(pulls, state)
      BY <1>2, <2>2 DEF SetPull
    <3>3. /\ pulls' \in Seq({"open", "closed", "merged"}) /\ Len(pulls') = N + 1
          /\ pulls'[N + 1] = state /\ \A k \in 1..N : pulls'[k] = pulls[k]
      BY <1>1, <1>2, <3>2
    <3>4. N + 1 <= MaxPulls /\ \A k \in 1..N + 1 : k = n \/ k \in 1..N
      BY <1>1, <3>1, MirrorAssumption
    <3>5. QED
      BY <1>1, <3>1, <3>3, <3>4
  <2>3. QED
    BY <2>1, <2>2
<1>4. \A k \in 1..N : k \in 1..M
  BY <1>1, <1>3
<1>5. DOMAIN pulls' = 1..M
  BY <1>3
<1>6. OpenPulls' = {k \in 1..M : pulls'[k] = "open"}
  BY <1>5 DEF OpenPulls
<1>7. \A k \in 1..M : k # n => (k \in OpenPulls' <=> k \in OpenPulls)
  BY <1>2, <1>3, <1>6
<1>8. n \in OpenPulls' <=> state = "open"
  BY <1>3, <1>6
<1>9. OpenPulls' = IF state = "open" THEN {n} ELSE OpenPulls \ {n}
  <2>1. CASE state = "open"
    <3>1. \A k \in OpenPulls' : k = n
      BY <1>6, <1>7, <2>1
    <3>2. QED
      BY <1>8, <2>1, <3>1
  <2>2. CASE state # "open"
    <3>1. \A k \in OpenPulls : k \in 1..M
      BY <1>2, <1>4
    <3>2. \A k : k \in OpenPulls' <=> k \in OpenPulls \ {n}
      BY <1>6, <1>7, <1>8, <2>2, <3>1
    <3>3. QED
      BY <2>2, <3>2
  <2>3. QED
    BY <2>1, <2>2
<1>10. \A k, m \in OpenPulls' : k = m
  BY <1>2, <1>9
<1>11. GoodPulls'
  BY <1>3, <1>10 DEF GoodPulls
<1>12. QED
  BY <1>1, <1>3, <1>4, <1>9, <1>11

LEMMA MovesKeepData ==
  ASSUME DataInv, Moves, row' = row
  PROVE  /\ GoodIssue(issue)' /\ GoodPulls' /\ GoodDeliveries(deliveries, Len(pulls))'
         /\ Len(pulls) <= Len(pulls') /\ (row' = NoRow => pulls' = <<>>)
         /\ GoodRow(row, Len(pulls))'
<1>0. PICK last \in 0..MaxPulls : last = Len(pulls)
  BY PullNumbers DEF DataInv
<1>1. last = Len(pulls) /\ last \in Nat /\ last <= last
  BY <1>0, MirrorAssumption
<1>2. GoodIssue(issue) /\ GoodPulls /\ GoodDeliveries(deliveries, last) /\ GoodRow(row, last)
  BY <1>1 DEF DataInv
<1>3. CASE MovesIssue
  <2>1. PICK i : GoodIssue(i) /\ i.state # "none" /\ SetIssue(i)
    BY <1>3 DEF MovesIssue
  <2>2. issue' = i /\ pulls' = pulls
    BY <2>1 DEF SetIssue
  <2>3. deliveries' = deliveries \/ deliveries' = Append(deliveries, AboutIssue(i))
    BY <2>1 DEF SetIssue, Emit
  <2>4. GoodDelivery(AboutIssue(i), last)
    BY <2>1, AnIssue
  <2>5. GoodDeliveries(deliveries', last)
    <3>1. GoodDeliveries(Append(deliveries, AboutIssue(i)), last)
      BY <1>1, <1>2, <2>4, DeliveriesAppend
    <3>2. QED
      BY <1>2, <2>3, <3>1
  <2>6. GoodIssue(issue') /\ GoodPulls'
    BY <1>2, <2>1, <2>2 DEF GoodPulls, OpenPulls
  <2>7. QED
    BY <1>1, <1>2, <2>2, <2>5, <2>6 DEF DataInv
<1>4. CASE MovesPull
  <2>1. PICK n \in 1..MaxPulls, state \in {"open", "closed", "merged"} :
          /\ row # NoRow /\ n <= Len(pulls) + 1
          /\ n = Len(pulls) + 1 => state = "open"
          /\ state = "open" => OpenPulls \subseteq {n}
          /\ SetPull(n, state)
    BY <1>4 DEF MovesPull
  <2>2. GoodPulls' /\ n \in 1..Len(pulls') /\ Len(pulls) <= Len(pulls')
    BY <1>2, <2>1, PullSet
  <2>3. PICK more \in Nat : more = Len(pulls') /\ more \in 0..MaxPulls
    BY <2>2, MirrorAssumption DEF GoodPulls
  <2>4. deliveries' = deliveries \/ deliveries' = Append(deliveries, AboutPull(n, state))
    BY <2>1 DEF SetPull, Emit
  <2>5. GoodDelivery(AboutPull(n, state), more)
    BY <2>2, <2>3, APull
  <2>6. last <= more
    BY <1>1, <2>2, <2>3
  <2>7. GoodDeliveries(deliveries', more)
    <3>1. GoodDeliveries(deliveries, more)
      BY <1>1, <1>2, <2>3, <2>6, MorePulls DEF GoodDeliveries
    <3>2. GoodDeliveries(Append(deliveries, AboutPull(n, state)), more)
      BY <1>1, <1>2, <2>3, <2>5, <2>6, DeliveriesAppend
    <3>3. QED
      BY <2>4, <3>1, <3>2
  <2>8. GoodRow(row', more)
    BY <1>1, <1>2, <2>3, <2>6, MorePulls
  <2>9. issue' = issue
    BY <2>1 DEF SetPull
  <2>10. QED
    BY <1>1, <1>2, <2>1, <2>2, <2>3, <2>7, <2>8, <2>9
<1>5. CASE UNCHANGED <<issue, pulls, deliveries>>
  BY <1>1, <1>2, <1>5 DEF DataInv, GoodPulls, OpenPulls
<1>6. QED
  BY <1>3, <1>4, <1>5 DEF Moves

\* Every change is announced last.
LEMMA MovesKeepOrder ==
  ASSUME DataInv, Moves, ~suspended \/ UNCHANGED <<issue, pulls, deliveries>>,
         IssueInOrder(deliveries), PullsInOrder(deliveries)
  PROVE  /\ IssueInOrder(deliveries)' /\ PullsInOrder(deliveries)'
         /\ issue' = issue \/ LaterIssue(deliveries', 0)
         /\ LaterIssue(deliveries, 0) => LaterIssue(deliveries', 0)
<1>1. PICK ds \in Seq(Deliveries) : ds = deliveries /\ GoodDeliveries(ds, Len(pulls))
  BY DEF DataInv, GoodDeliveries
<1>2. PICK N \in Nat : N = Len(ds)
  BY <1>1
<1>3. IssueInOrder(ds) /\ PullsInOrder(ds)
  BY <1>1
<1>4. 0 \in 0..N /\ (\A k \in 1..N : k \in 0..N) /\ (\A k \in 1..N + 1 : k = N + 1 \/ k \in 1..N)
  BY <1>2
<1>5. CASE UNCHANGED <<issue, pulls, deliveries>>
  BY <1>5 DEF IssueInOrder, PullsInOrder, OpenPulls
<1>6. CASE MovesIssue /\ ~suspended
  <2>1. PICK i : GoodIssue(i) /\ i.state # "none" /\ SetIssue(i)
    BY <1>6 DEF MovesIssue
  <2>2. PICK d \in Deliveries : d = AboutIssue(i)
    BY <2>1, AnIssue DEF GoodDelivery
  <2>3. d.issue = i /\ IsNews(d, "issue") /\ ~IsNews(d, "pull")
    BY <2>1, <2>2, AnIssue
  <2>4. issue' = i /\ pulls' = pulls /\ deliveries' = Append(ds, d)
    BY <1>1, <1>6, <2>1, <2>2 DEF SetIssue, Emit
  <2>5. /\ Len(Append(ds, d)) = N + 1 /\ Append(ds, d)[N + 1] = d
    BY <1>2
  <2>6. \A k \in 0..N : LaterIssue(Append(ds, d), k)
    BY <1>2, <2>3, LaterAppend
  <2>7. IssueInOrder(deliveries)'
    BY <1>4, <2>3, <2>4, <2>5, <2>6 DEF IssueInOrder
  <2>8. PullsInOrder(Append(ds, d))
    BY <1>3, <2>3, OrderAppend
  <2>9. PullsInOrder(deliveries)'
    BY <2>4, <2>8 DEF PullsInOrder, OpenPulls
  <2>10. QED
    BY <1>4, <2>4, <2>6, <2>7, <2>9
<1>7. CASE MovesPull /\ ~suspended
  <2>1. PICK n \in 1..MaxPulls, state \in {"open", "closed", "merged"} :
          /\ n <= Len(pulls) + 1
          /\ state = "open" => OpenPulls \subseteq {n}
          /\ SetPull(n, state)
    BY <1>7 DEF MovesPull
  <2>2. /\ GoodPulls' /\ n \in 1..Len(pulls') /\ pulls'[n] = state
        /\ \A k \in 1..Len(pulls) : k # n => pulls'[k] = pulls[k]
        /\ OpenPulls' = IF state = "open" THEN {n} ELSE OpenPulls \ {n}
    BY <2>1, PullSet DEF DataInv
  <2>3. PICK more \in 0..MaxPulls : more = Len(pulls')
    BY <2>2, MirrorAssumption DEF GoodPulls
  <2>4. /\ GoodDelivery(AboutPull(n, state), more)
        /\ AboutPull(n, state).pr = n /\ AboutPull(n, state).pr_state = state
        /\ IsNews(AboutPull(n, state), "pull") /\ ~IsNews(AboutPull(n, state), "issue")
    BY <2>2, <2>3, APull
  <2>5. PICK d \in Deliveries : d = AboutPull(n, state)
    BY <2>4 DEF GoodDelivery
  <2>6. d.pr = n /\ d.pr_state = state /\ IsNews(d, "pull") /\ ~IsNews(d, "issue")
    BY <2>4, <2>5
  <2>7. issue' = issue /\ deliveries' = Append(ds, d)
    BY <1>1, <1>7, <2>1, <2>5 DEF SetPull, Emit
  <2>8. /\ Len(Append(ds, d)) = N + 1 /\ Append(ds, d)[N + 1] = d
        /\ \A k \in 1..N : Append(ds, d)[k] = ds[k]
    BY <1>2
  <2>9. IssueInOrder(Append(ds, d))
    BY <1>3, <2>6, OrderAppend
  <2>10. IssueInOrder(deliveries)'
    BY <2>7, <2>9 DEF IssueInOrder
  <2>11. \A k \in 1..N : /\ LaterPull(Append(ds, d), k, n)
                         /\ \A m : LaterPull(ds, k, m) => LaterPull(Append(ds, d), k, m)
    BY <1>2, <1>4, <2>6, LaterAppend
  <2>12. ASSUME NEW k \in 1..N, IsNews(ds[k], "pull")
         PROVE  /\ ds[k].pr_state = pulls'[ds[k].pr] \/ LaterPull(Append(ds, d), k, ds[k].pr)
                /\ ds[k].pr_state = "open" =>
                     \A m \in OpenPulls' \ {ds[k].pr} : LaterPull(Append(ds, d), k, m)
    <3>1. ds[k].pr \in 1..Len(pulls)
      BY <1>1, <1>2, <2>12 DEF GoodDeliveries, GoodDelivery, IsNews
    <3>2. /\ ds[k].pr_state = pulls[ds[k].pr] \/ LaterPull(ds, k, ds[k].pr)
          /\ ds[k].pr_state = "open" => \A m \in OpenPulls \ {ds[k].pr} : LaterPull(ds, k, m)
      BY <1>2, <1>3, <2>12 DEF PullsInOrder
    <3>3. ds[k].pr_state = pulls'[ds[k].pr] \/ LaterPull(Append(ds, d), k, ds[k].pr)
      <4>1. CASE ds[k].pr = n
        BY <2>11, <2>12, <4>1
      <4>2. CASE ds[k].pr # n
        BY <2>2, <2>11, <2>12, <3>1, <3>2, <4>2
      <4>3. QED
        BY <4>1, <4>2
    <3>4. ASSUME ds[k].pr_state = "open", NEW m \in OpenPulls' \ {ds[k].pr}
          PROVE  LaterPull(Append(ds, d), k, m)
      <4>1. CASE m = n
        BY <2>11, <2>12, <4>1
      <4>2. CASE m # n
        <5>1. m \in OpenPulls
          BY <2>2, <3>4, <4>2
        <5>2. QED
          BY <2>11, <2>12, <3>2, <3>4, <5>1
      <4>3. QED
        BY <4>1, <4>2
    <3>5. QED
      BY <3>3, <3>4
  <2>13. d.pr_state = "open" => OpenPulls' \ {d.pr} = {}
    BY <2>2, <2>6
  <2>14. ASSUME NEW k \in 1..N + 1, IsNews(Append(ds, d)[k], "pull")
         PROVE  LET e == Append(ds, d)[k]
                IN  /\ e.pr_state = pulls'[e.pr] \/ LaterPull(Append(ds, d), k, e.pr)
                    /\ e.pr_state = "open" =>
                         \A m \in OpenPulls' \ {e.pr} : LaterPull(Append(ds, d), k, m)
    <3>1. CASE k = N + 1
      BY <2>2, <2>6, <2>8, <2>13, <3>1
    <3>2. CASE k \in 1..N
      BY <2>8, <2>12, <2>14, <3>2
    <3>3. QED
      BY <1>4, <3>1, <3>2
  <2>15. PullsInOrder(deliveries)'
    BY <2>7, <2>8, <2>14 DEF PullsInOrder
  <2>16. LaterIssue(ds, 0) => LaterIssue(Append(ds, d), 0)
    BY <1>2, <1>4, LaterAppend
  <2>17. QED
    BY <1>1, <2>7, <2>10, <2>15, <2>16
<1>8. QED
  BY <1>5, <1>6, <1>7 DEF Moves

\* So it is mirrored after the others.
LEMMA MovesKeepMirror ==
  ASSUME DataInv, Moves, ~suspended \/ UNCHANGED <<issue, pulls, deliveries>>, row' = row,
         Settles(row)
  PROVE  Settles(row)'
<1>1. PICK last \in 0..MaxPulls : last = Len(pulls)
  BY PullNumbers DEF DataInv
<1>2. PICK f : Traces(f, row, deliveries, last) /\ Mirrors(f[Len(deliveries)])
  BY <1>1 DEF Settles
<1>3. GoodDeliveries(deliveries, last) /\ GoodPulls
  BY <1>1 DEF DataInv
<1>4. PICK N \in Nat : N = Len(deliveries)
  BY <1>3 DEF GoodDeliveries
<1>5. PICK r : r = f[N]
  OBVIOUS
<1>6. GoodRow(r, last)
  <2>1. N \in 0..N
    OBVIOUS
  <2>2. QED
    BY <1>2, <1>3, <1>4, <1>5, <2>1, TraceKeeps
<1>7. MirrorsIssue(r) /\ MirrorsPull(r)
  BY <1>2, <1>4, <1>5 DEF Mirrors
<1>8. r = NoRow => pulls = <<>>
  BY <1>2, <1>3, <1>4, <1>5, TicketStays DEF DataInv
<1>9. CASE UNCHANGED <<issue, pulls, deliveries>>
  BY <1>9 DEF Settles, Traces, Mirrors, MirrorsIssue, MirrorsPull, OpenPulls
<1>10. CASE MovesIssue /\ ~suspended
  <2>1. PICK i : GoodIssue(i) /\ i.state # "none" /\ SetIssue(i)
    BY <1>10 DEF MovesIssue
  <2>2. PICK d : d = AboutIssue(i) /\ GoodDelivery(d, last) /\ d.issue = i /\ IsNews(d, "issue")
    BY <2>1, AnIssue
  <2>3. issue' = i /\ pulls' = pulls /\ deliveries' = Append(deliveries, d)
    BY <1>10, <2>1, <2>2 DEF SetIssue, Emit
  <2>4. PICK new : new = MirrorOne(r, d)
    OBVIOUS
  <2>5. /\ GoodRow(new, last) /\ new.pr = r.pr /\ new.pr_state = r.pr_state
        /\ r # NoRow => new # NoRow
        /\ new = NoRow => NEXTIX \notin d.issue.labels
        /\ new # NoRow => new.state = d.issue.state
                          /\ (d.issue.state = "gone" \/ new.labels = d.issue.labels)
    BY <1>6, <2>2, <2>4, IssueNews
  <2>6. MirrorsIssue(new)'
    BY <2>2, <2>3, <2>5 DEF MirrorsIssue
  <2>7. MirrorsPull(new)'
    <3>1. MirrorsPull(new)
      <4>1. r = NoRow => r.pr = 0
        BY DEF NoRow
      <4>2. CASE r = NoRow
        <5>1. new.pr = 0 /\ pulls = <<>>
          BY <1>8, <2>5, <4>1, <4>2
        <5>2. QED
          BY <5>1 DEF MirrorsPull
      <4>3. CASE r # NoRow
        BY <1>7, <2>5, <4>3 DEF MirrorsPull
      <4>4. QED
        BY <4>2, <4>3
    <3>2. QED
      BY <2>3, <3>1 DEF MirrorsPull, OpenPulls
  <2>8. PICK h : /\ Traces(h, row, Append(deliveries, d), last)
                 /\ h[Len(Append(deliveries, d))] = new
    <3>1. last <= last
      BY MirrorAssumption
    <3>2. QED
      BY <1>2, <1>3, <1>4, <1>5, <2>2, <2>4, <3>1, TraceAppends
  <2>9. Traces(h, row', deliveries', Len(pulls')) /\ h[Len(deliveries')] = new
    BY <1>1, <2>3, <2>8
  <2>10. QED
    BY <2>6, <2>7, <2>9 DEF Settles, Mirrors
<1>11. CASE MovesPull /\ ~suspended
  <2>1. PICK n \in 1..MaxPulls, state \in {"open", "closed", "merged"} :
          /\ row # NoRow /\ n <= Len(pulls) + 1
          /\ n = Len(pulls) + 1 => state = "open"
          /\ state = "open" => OpenPulls \subseteq {n}
          /\ SetPull(n, state)
    BY <1>11 DEF MovesPull
  <2>2. /\ GoodPulls' /\ n \in 1..Len(pulls') /\ pulls'[n] = state
        /\ Len(pulls) <= Len(pulls')
        /\ \A k \in 1..Len(pulls) : k \in 1..Len(pulls') /\ (k # n => pulls'[k] = pulls[k])
        /\ OpenPulls' = IF state = "open" THEN {n} ELSE OpenPulls \ {n}
    BY <1>3, <2>1, PullSet
  <2>3. PICK more \in 0..MaxPulls : more = Len(pulls')
    BY <2>2, MirrorAssumption DEF GoodPulls
  <2>4. /\ GoodDelivery(AboutPull(n, state), more)
        /\ AboutPull(n, state).pr = n /\ AboutPull(n, state).pr_state = state
        /\ IsNews(AboutPull(n, state), "pull")
    BY <2>2, <2>3, APull
  <2>5. PICK d : d = AboutPull(n, state) /\ GoodDelivery(d, more) /\ d.pr = n /\ d.pr_state = state
                 /\ IsNews(d, "pull")
    BY <2>4
  <2>6. issue' = issue /\ deliveries' = Append(deliveries, d)
    BY <1>11, <2>1, <2>5 DEF SetPull, Emit
  <2>7. last <= more /\ GoodRow(r, more)
    <3>1. last <= more /\ last \in Nat /\ more \in Nat
      BY <1>1, <2>2, <2>3, MirrorAssumption
    <3>2. QED
      BY <1>6, <3>1, MorePulls
  <2>8. PICK new : new = MirrorOne(r, d)
    OBVIOUS
  <2>9. /\ new = NoRow <=> r = NoRow
        /\ new.state = r.state /\ new.labels = r.labels
        /\ LinksTo(r, new, n, state) \/ (SparesOpen(r, n, state) /\ new = r)
    BY <2>5, <2>7, <2>8, PullNews
  <2>10. r # NoRow
    BY <1>2, <1>3, <1>4, <1>5, <2>1, TicketStays
  <2>11. MirrorsIssue(new)'
    BY <1>7, <2>6, <2>9 DEF MirrorsIssue
  <2>12. DOMAIN pulls = 1..Len(pulls) /\ DOMAIN pulls' = 1..Len(pulls')
         /\ (pulls = <<>> => Len(pulls) = 0)
         /\ OpenPulls = {k \in 1..Len(pulls) : pulls[k] = "open"}
    <3>1. DOMAIN pulls' = 1..Len(pulls')
      BY <2>2 DEF GoodPulls
    <3>2. QED
      BY <1>3, <3>1, PullNumbers
  <2>13. MirrorsPull(new)'
    <3>1. CASE SparesOpen(r, n, state) /\ new = r
      <4>1. r.pr \notin {0, n} /\ r.pr_state = "open" /\ state # "open"
        BY <2>10, <3>1 DEF SparesOpen
      <4>2. r.pr \in 1..Len(pulls) /\ pulls[r.pr] = "open"
        BY <1>7, <2>10, <2>12, <4>1 DEF MirrorsPull
      <4>3. r.pr \in DOMAIN pulls' /\ pulls'[r.pr] = "open"
        BY <2>2, <2>12, <4>1, <4>2
      <4>4. QED
        BY <3>1, <4>1, <4>3 DEF MirrorsPull
    <3>2. CASE LinksTo(r, new, n, state)
      <4>1. new.pr = n /\ new.pr_state = state /\ ~SparesOpen(r, n, state)
        BY <3>2 DEF LinksTo
      <4>2. new.pr \in DOMAIN pulls' /\ pulls'[new.pr] = new.pr_state
        BY <2>2, <2>12, <4>1
      <4>3. CASE state = "open"
        BY <4>1, <4>2, <4>3 DEF MirrorsPull
      <4>4. CASE state # "open"
        <5>1. r.pr \in {0, n} \/ r.pr_state # "open"
          BY <4>1, <4>4 DEF SparesOpen
        <5>2. r.pr # 0
          <6>1. n # Len(pulls) + 1
            BY <2>1, <4>4
          <6>2. pulls # <<>>
            BY <2>1, <2>12, <6>1
          <6>3. QED
            BY <1>7, <2>10, <2>12, <6>2 DEF MirrorsPull
        <5>3. r.pr \in 1..Len(pulls) /\ pulls[r.pr] = r.pr_state /\ (r.pr_state = "open" \/ OpenPulls = {})
          BY <1>7, <2>10, <2>12, <5>2 DEF MirrorsPull
        <5>4. OpenPulls \subseteq {n}
          <6>1. CASE r.pr_state = "open"
            <7>1. r.pr = n /\ n \in OpenPulls
              BY <2>12, <5>1, <5>2, <5>3, <6>1
            <7>2. QED
              BY <1>3, <7>1 DEF GoodPulls
          <6>2. CASE OpenPulls = {}
            BY <6>2
          <6>3. QED
            BY <5>3, <6>1, <6>2
        <5>5. OpenPulls' = {}
          BY <2>2, <4>4, <5>4
        <5>6. QED
          BY <4>2, <5>5 DEF MirrorsPull
      <4>5. QED
        BY <4>3, <4>4
    <3>3. QED
      BY <2>9, <3>1, <3>2
  <2>14. PICK h : /\ Traces(h, row, Append(deliveries, d), more)
                  /\ h[Len(Append(deliveries, d))] = new
    BY <1>2, <1>3, <1>4, <1>5, <2>5, <2>7, <2>8, TraceAppends
  <2>15. Traces(h, row', deliveries', Len(pulls')) /\ h[Len(deliveries')] = new
    BY <2>3, <2>6, <2>14
  <2>16. QED
    BY <2>11, <2>13, <2>15 DEF Settles, Mirrors
<1>12. QED
  BY <1>9, <1>10, <1>11 DEF Moves

-----------------------------------------------------------------------------
(* Steps that move. *)

LEMMA Calms ==
  ASSUME DataInv, SyncInv, Calm
  PROVE  /\ sync' \in AnySync /\ sync'.at = sync.at /\ sync'.row = sync.row
         /\ sync'.calm = FALSE /\ (sync'.clean => sync.clean /\ ~suspended)
BY DEF DataInv, SyncInv, Calm, AnySync

\* A writer's row and the sync's were good when there were fewer pull requests.
LEMMA RowsStayGood ==
  ASSUME DataInv, WriterInv, SyncInv, Len(pulls) <= Len(pulls'), GoodPulls'
  PROVE  GoodRow(writer.row, Len(pulls')) /\ GoodRow(sync.row, Len(pulls'))
<1>1. PICK last \in Nat : last = Len(pulls)
  BY DEF DataInv, GoodPulls
<1>2. PICK more \in Nat : more = Len(pulls')
  BY DEF GoodPulls
<1>3. GoodRow(writer.row, last) /\ GoodRow(sync.row, last) /\ last <= more
  BY <1>1, <1>2 DEF WriterInv, SyncInv
<1>4. QED
  BY <1>2, <1>3, MorePulls

Quietly == ~suspended \/ UNCHANGED <<issue, pulls, deliveries>>

LEMMA MovesKeep ==
  ASSUME Inv, Moves, Calm, row' = row, ~disturbed' => ~disturbed /\ Quietly
  PROVE  /\ SyncInv' /\ OrderInv' /\ MirrorInv'
         /\ (issue.state = "none" => writer' = NoWriter) => MissingInv'
<1>1. DataInv /\ WriterInv /\ SyncInv /\ MissingInv /\ OrderInv /\ MirrorInv
  BY DEF Inv
<1>2. /\ sync' \in AnySync /\ sync'.at = sync.at /\ sync'.row = sync.row
      /\ sync'.calm = FALSE /\ (sync'.clean => sync.clean /\ ~suspended)
  BY <1>1, Calms
<1>3. GoodPulls' /\ Len(pulls) <= Len(pulls')
  BY <1>1, MovesKeepData
<1>4. SyncInv'
  <2>1. GoodRow(sync'.row, Len(pulls'))
    BY <1>1, <1>2, <1>3, RowsStayGood
  <2>2. QED
    BY <1>1, <1>2, <2>1 DEF SyncInv
<1>5. OrderInv'
  <2>1. SUFFICES ASSUME ~disturbed' \/ sync'.clean
                 PROVE  /\ IssueInOrder(deliveries)' /\ PullsInOrder(deliveries)'
                        /\ sync'.at = "pulls" => MirrorsIssue(sync.row)' \/ LaterIssue(deliveries', 0)
    BY DEF OrderInv
  <2>2. Quietly /\ (~disturbed \/ sync.clean)
    BY <1>2, <2>1 DEF Quietly
  <2>3. /\ IssueInOrder(deliveries) /\ PullsInOrder(deliveries)
        /\ sync.at = "pulls" => MirrorsIssue(sync.row) \/ LaterIssue(deliveries, 0)
    BY <1>1, <2>2 DEF OrderInv
  <2>4. /\ IssueInOrder(deliveries)' /\ PullsInOrder(deliveries)'
        /\ issue' = issue \/ LaterIssue(deliveries', 0)
        /\ LaterIssue(deliveries, 0) => LaterIssue(deliveries', 0)
    BY <1>1, <2>2, <2>3, MovesKeepOrder DEF Quietly
  <2>5. issue' = issue /\ MirrorsIssue(sync.row) => MirrorsIssue(sync.row)'
    BY <1>2 DEF MirrorsIssue
  <2>6. QED
    BY <1>2, <2>3, <2>4, <2>5
<1>6. MirrorInv'
  <2>1. ~disturbed' => Settles(row) /\ Quietly
    BY <1>1 DEF MirrorInv
  <2>2. QED
    BY <1>1, <2>1, MovesKeepMirror DEF Quietly, MirrorInv
<1>7. ASSUME issue.state = "none" => writer' = NoWriter PROVE MissingInv'
  <2>1. SUFFICES ASSUME issue'.state = "none"
                 PROVE  /\ row' = NoRow /\ sync'.row = NoRow /\ writer' = NoWriter
                        /\ \A n \in 1..Len(deliveries') : deliveries'[n].kind # "issue"
    BY DEF MissingInv
  <2>2. ~MovesIssue
    BY <2>1 DEF MovesIssue, SetIssue
  <2>3. issue' = issue
    BY <2>2 DEF Moves, MovesPull, SetPull
  <2>4. row = NoRow /\ sync.row = NoRow /\ \A n \in 1..Len(deliveries) : deliveries[n].kind # "issue"
    BY <1>1, <2>1, <2>3 DEF MissingInv
  <2>5. deliveries' = deliveries
    BY <2>2, <2>4 DEF Moves, MovesPull
  <2>6. QED
    BY <1>2, <1>7, <2>1, <2>3, <2>4, <2>5
<1>8. QED
  BY <1>4, <1>5, <1>6, <1>7

LEMMA PeopleKeep ==
  ASSUME Inv, People
  PROVE  Inv'
<1>1. DataInv /\ WriterInv /\ SyncInv /\ MissingInv /\ OrderInv /\ MirrorInv
  BY DEF Inv
<1>2. /\ Calm /\ row' = row /\ writer' = writer /\ disturbed' = (disturbed \/ suspended)
      /\ suspended' = suspended /\ enabled' = enabled /\ faults' = faults
      /\ changes' = changes + 1 /\ changes < MaxChanges
  BY DEF People, Unseen, MayChange
<1>3. Moves
  BY <1>1, PeopleMove
<1>4. ~disturbed' => ~disturbed /\ Quietly
  BY <1>1, <1>2 DEF DataInv, Quietly
<1>5. /\ GoodIssue(issue)' /\ GoodPulls' /\ GoodDeliveries(deliveries, Len(pulls))'
      /\ Len(pulls) <= Len(pulls') /\ (row' = NoRow => pulls' = <<>>)
      /\ GoodRow(row, Len(pulls))'
  BY <1>1, <1>2, <1>3, MovesKeepData
<1>6. DataInv'
  <2>1. changes' \in 0..MaxChanges
    BY <1>1, <1>2, MirrorAssumption DEF DataInv
  <2>2. disturbed' \in BOOLEAN
    BY <1>1, <1>2 DEF DataInv
  <2>3. QED
    BY <1>1, <1>2, <1>5, <2>1, <2>2 DEF DataInv
<1>7. WriterInv'
  <2>1. GoodRow(writer.row, Len(pulls'))
    BY <1>1, <1>5, RowsStayGood
  <2>2. writer.kind = "conclude" => writer.pr \in 1..Len(pulls')
    <3>1. PICK last \in Nat, more \in Nat : last = Len(pulls) /\ more = Len(pulls')
      BY <1>1, <1>5 DEF DataInv, GoodPulls
    <3>2. 1..last \subseteq 1..more
      BY <1>5, <3>1
    <3>3. QED
      BY <1>1, <3>1, <3>2 DEF WriterInv
  <2>3. QED
    BY <1>1, <1>2, <2>1, <2>2 DEF WriterInv
<1>8. issue.state = "none" => writer' = NoWriter
  BY <1>1, <1>2 DEF MissingInv
<1>9. QED
  BY <1>2, <1>3, <1>4, <1>6, <1>7, <1>8, MovesKeep DEF Inv

LEMMA NoWriterIsGood ==
  ASSUME NEW last \in Nat
  PROVE  NoWriter \in AnyWriter /\ NoWriter.row = NoRow /\ GoodRow(NoWriter.row, last)
         /\ NoWriter.kind = "none" /\ NoWriter.at = "idle"
<1>1. NoRow \in Rows /\ GoodRow(NoRow, last) /\ 0 \in 0..MaxPulls
  BY NoRowIsGood, MirrorAssumption DEF GoodRow
<1>2. QED
  BY <1>1 DEF NoWriter, AnyWriter

LEMMA BeginIsGood ==
  ASSUME NEW kind \in {"create", "clear", "ask", "conclude"}, NEW r \in Rows, NEW n \in 0..MaxPulls,
         Begin(kind, r, n)
  PROVE  /\ writer' \in AnyWriter /\ writer'.kind = kind /\ writer'.at = "called"
         /\ writer'.row = r /\ writer'.pr = n
BY DEF Begin, AnyWriter

LEMMA WriterCallsKeep ==
  ASSUME Inv, WriterCalls
  PROVE  Inv'
<1>1. DataInv /\ WriterInv /\ SyncInv /\ MissingInv /\ OrderInv /\ MirrorInv
  BY DEF Inv
<1>2. /\ Calm /\ row' = row /\ disturbed' = disturbed
      /\ suspended' = suspended /\ enabled' = enabled /\ faults' = faults
      /\ changes' = changes + 1 /\ changes < MaxChanges /\ ~suspended
      /\ CreateIssue \/ LoadTicket \/ AddLabel \/ OpenOrUpdate
  BY DEF WriterCalls, MayChange
<1>3. Moves
  BY <1>1, WritersMove
<1>4. ~disturbed' => ~disturbed /\ Quietly
  BY <1>2 DEF Quietly
<1>5. /\ GoodIssue(issue)' /\ GoodPulls' /\ GoodDeliveries(deliveries, Len(pulls))'
      /\ Len(pulls) <= Len(pulls') /\ (row' = NoRow => pulls' = <<>>)
      /\ GoodRow(row, Len(pulls))'
  BY <1>1, <1>2, <1>3, MovesKeepData
<1>6. DataInv'
  <2>1. changes' \in 0..MaxChanges
    BY <1>1, <1>2, MirrorAssumption DEF DataInv
  <2>2. QED
    BY <1>1, <1>2, <1>5, <2>1 DEF DataInv
<1>7. PICK more \in 0..MaxPulls : more = Len(pulls') /\ GoodRow(NoRow, more)
  <2>1. PICK m \in 0..MaxPulls : m = Len(pulls')
    BY <1>5, MirrorAssumption DEF GoodPulls
  <2>2. m \in Nat
    BY MirrorAssumption
  <2>3. QED
    BY <2>1, <2>2, NoRowIsGood
<1>8. NoRow \in Rows /\ 0 \in 0..MaxPulls
  BY <1>7, MirrorAssumption DEF GoodRow
<1>9. (WriterInv' /\ (issue.state = "none" => writer' = NoWriter)) \/ CreateIssue
  <2>1. CASE CreateIssue
    BY <2>1
  <2>2. CASE LoadTicket
    <3>1. row # NoRow
      BY <2>2 DEF LoadTicket, NoRow
    <3>2. row \in Rows
      BY <1>1 DEF DataInv, GoodRow
    <3>3. /\ writer' \in AnyWriter /\ writer'.kind = "clear" /\ writer'.at = "loaded"
          /\ writer'.row = row
      BY <1>8, <2>2, <3>2 DEF LoadTicket, AnyWriter
    <3>4. QED
      BY <1>1, <1>2, <1>5, <3>1, <3>3 DEF WriterInv, MissingInv
  <2>3. CASE AddLabel
    <3>1. row # NoRow /\ Begin("ask", NoRow, 0)
      BY <2>3 DEF AddLabel
    <3>2. /\ writer' \in AnyWriter /\ writer'.kind = "ask" /\ writer'.at = "called"
          /\ writer'.row = NoRow
      BY <1>8, <3>1, BeginIsGood
    <3>3. QED
      BY <1>1, <1>2, <1>7, <3>1, <3>2 DEF WriterInv, MissingInv
  <2>4. CASE OpenOrUpdate
    <3>1. PICK n \in 1..more : Begin("conclude", NoRow, n)
      <4>1. ASSUME NEW n \in OpenPulls, SetPull(n, "open"), Begin("conclude", NoRow, n)
            PROVE  \E k \in 1..more : Begin("conclude", NoRow, k)
        <5>1. PICK last \in 0..MaxPulls : last = Len(pulls) /\ n \in 1..last
          BY <1>1, <4>1, PullNumbers DEF DataInv
        <5>2. n \in 1..more
          BY <1>5, <1>7, <5>1
        <5>3. QED
          BY <4>1, <5>2
      <4>2. ASSUME Len(pulls) < MaxPulls, OpenPulls = {}, SetPull(Len(pulls) + 1, "open"),
                   Begin("conclude", NoRow, Len(pulls) + 1)
            PROVE  \E k \in 1..more : Begin("conclude", NoRow, k)
        <5>1. PICK last \in 0..MaxPulls : last = Len(pulls)
          BY <1>1, PullNumbers DEF DataInv
        <5>2. PICK n \in 1..MaxPulls : n = last + 1 /\ n <= Len(pulls) + 1
          BY <4>2, <5>1, MirrorAssumption
        <5>3. OpenPulls \subseteq {n} /\ SetPull(n, "open")
          BY <4>2, <5>1, <5>2
        <5>4. n \in 1..more
          BY <1>1, <1>7, <5>2, <5>3, PullSet DEF DataInv
        <5>5. QED
          BY <4>2, <5>1, <5>2, <5>4
      <4>3. QED
        BY <2>4, <4>1, <4>2 DEF OpenOrUpdate
    <3>2. row # NoRow /\ n \in 0..MaxPulls
      BY <1>7, <2>4, MirrorAssumption DEF OpenOrUpdate
    <3>3. /\ writer' \in AnyWriter /\ writer'.kind = "conclude" /\ writer'.at = "called"
          /\ writer'.row = NoRow /\ writer'.pr = n
      BY <1>8, <3>1, <3>2, BeginIsGood
    <3>4. QED
      BY <1>1, <1>2, <1>7, <3>1, <3>2, <3>3 DEF WriterInv, MissingInv
  <2>5. QED
    BY <1>2, <2>1, <2>2, <2>3, <2>4
<1>10. CASE CreateIssue
  <2>1. Begin("create", NoRow, 0) /\ issue'.state = "open"
    BY <1>10 DEF CreateIssue, SetIssue
  <2>2. /\ writer' \in AnyWriter /\ writer'.kind = "create" /\ writer'.at = "called"
        /\ writer'.row = NoRow
    BY <1>8, <2>1, BeginIsGood
  <2>3. WriterInv'
    BY <1>7, <2>2 DEF WriterInv
  <2>4. MissingInv'
    BY <2>1 DEF MissingInv
  <2>5. QED
    BY <1>2, <1>3, <1>4, <1>6, <2>3, <2>4, MovesKeep DEF Inv
<1>11. CASE WriterInv' /\ (issue.state = "none" => writer' = NoWriter)
  BY <1>2, <1>3, <1>4, <1>6, <1>11, MovesKeep DEF Inv
<1>12. QED
  BY <1>9, <1>10, <1>11

LEMMA RemoveLabelKeeps ==
  ASSUME Inv, RemoveLabel
  PROVE  Inv'
<1>1. DataInv /\ WriterInv /\ SyncInv /\ MissingInv /\ OrderInv /\ MirrorInv
  BY DEF Inv
<1>2. /\ Calm /\ row' = row /\ disturbed' = disturbed
      /\ suspended' = suspended /\ enabled' = enabled /\ faults' = faults /\ changes' = changes
      /\ writer.at = "loaded"
      /\ writer' = NoWriter \/ Begin("clear", writer.row, 0)
  BY DEF RemoveLabel
<1>3. Moves
  BY <1>1, WritersMove
<1>4. ~disturbed' => ~disturbed /\ Quietly
  BY <1>2 DEF Quietly, RemoveLabel
<1>5. /\ GoodIssue(issue)' /\ GoodPulls' /\ GoodDeliveries(deliveries, Len(pulls))'
      /\ Len(pulls) <= Len(pulls') /\ (row' = NoRow => pulls' = <<>>)
      /\ GoodRow(row, Len(pulls))'
  BY <1>1, <1>2, <1>3, MovesKeepData
<1>6. DataInv'
  BY <1>1, <1>2, <1>5 DEF DataInv
<1>7. PICK more \in Nat : more = Len(pulls')
  BY <1>5 DEF GoodPulls
<1>8. GoodRow(writer.row, more) /\ writer.row \in Rows
  BY <1>1, <1>5, <1>7, RowsStayGood DEF GoodRow
<1>9. WriterInv'
  <2>1. CASE writer' = NoWriter
    BY <1>7, <2>1, NoWriterIsGood DEF WriterInv
  <2>2. CASE Begin("clear", writer.row, 0)
    <3>1. 0 \in 0..MaxPulls
      BY MirrorAssumption
    <3>2. /\ writer' \in AnyWriter /\ writer'.kind = "clear" /\ writer'.at = "called"
          /\ writer'.row = writer.row
      BY <1>8, <2>2, <3>1, BeginIsGood
    <3>3. row' # NoRow
      BY <1>1, <1>2 DEF WriterInv
    <3>4. QED
      BY <1>7, <1>8, <3>2, <3>3 DEF WriterInv
  <2>3. QED
    BY <1>2, <2>1, <2>2
<1>10. issue.state = "none" => writer' = NoWriter
  BY <1>1, <1>2 DEF MissingInv, NoWriter
<1>11. QED
  BY <1>2, <1>3, <1>4, <1>6, <1>9, <1>10, MovesKeep DEF Inv

-----------------------------------------------------------------------------
(* Steps of the deliveries. *)

\* A delivery is lost or overtaken.
LEMMA FaultsKeep ==
  ASSUME Inv, Lose \/ Overtake
  PROVE  Inv'
<1>1. DataInv /\ WriterInv /\ SyncInv /\ MissingInv
  BY DEF Inv
<1>2. /\ UNCHANGED <<issue, pulls, suspended, row, enabled, writer, changes>>
      /\ disturbed' = TRUE /\ sync' = [sync EXCEPT !.clean = FALSE]
      /\ faults < MaxFaults /\ faults' = faults + 1
  BY DEF Lose, Overtake, Disturb, Fault
<1>3. PICK last \in Nat : last = Len(pulls)
  BY <1>1 DEF DataInv, GoodPulls
<1>4. PICK N \in Nat : N = Len(deliveries)
  BY <1>1 DEF DataInv, GoodDeliveries
<1>5. GoodDeliveries(deliveries, last) /\ deliveries \in Seq(Deliveries)
  BY <1>1, <1>3 DEF DataInv, GoodDeliveries
<1>6. /\ GoodDeliveries(deliveries', last)
      /\ \A n \in 1..Len(deliveries') : \E m \in 1..N : deliveries'[n] = deliveries[m]
  <2>1. CASE Lose
    <3>1. deliveries # <<>> /\ deliveries' = Tail(deliveries)
      BY <2>1 DEF Lose
    <3>2. GoodDeliveries(deliveries', last)
      BY <1>5, <3>1, DeliveriesTail
    <3>3. PICK M \in Nat : M = N - 1 /\ Len(deliveries') = M /\ \A n \in 1..M : deliveries'[n] = deliveries[n + 1]
      BY <1>4, <1>5, <3>1
    <3>4. \A n \in 1..M : n + 1 \in 1..N
      BY <1>4, <3>3
    <3>5. QED
      BY <3>2, <3>3, <3>4
  <2>2. CASE Overtake
    <3>1. PICK n \in 1..N - 1 :
            deliveries' = [deliveries EXCEPT ![n] = deliveries[n + 1], ![n + 1] = deliveries[n]]
      BY <1>4, <2>2 DEF Overtake
    <3>2. n \in 1..N /\ n + 1 \in 1..N /\ n # n + 1
      BY <1>4
    <3>3. /\ Len(deliveries') = N /\ deliveries' \in Seq(Deliveries)
          /\ deliveries'[n] = deliveries[n + 1] /\ deliveries'[n + 1] = deliveries[n]
          /\ \A k \in 1..N : k # n /\ k # n + 1 => deliveries'[k] = deliveries[k]
      BY <1>4, <1>5, <3>1, <3>2
    <3>4. \A k \in 1..N : \E m \in 1..N : deliveries'[k] = deliveries[m]
      BY <3>2, <3>3
    <3>5. \A m \in 1..N : GoodDelivery(deliveries[m], last)
      BY <1>4, <1>5 DEF GoodDeliveries
    <3>6. QED
      BY <3>3, <3>4, <3>5 DEF GoodDeliveries
  <2>3. QED
    BY <2>1, <2>2
<1>7. DataInv'
  <2>1. faults' \in 0..MaxFaults
    BY <1>1, <1>2, MirrorAssumption DEF DataInv
  <2>2. GoodIssue(issue)' /\ GoodPulls'
    BY <1>1, <1>2 DEF DataInv, GoodPulls, OpenPulls
  <2>3. QED
    BY <1>1, <1>2, <1>3, <1>6, <2>1, <2>2 DEF DataInv
<1>8. /\ sync' \in AnySync /\ sync'.at = sync.at /\ sync'.row = sync.row
      /\ sync'.calm = sync.calm /\ sync'.clean = FALSE
  BY <1>1, <1>2 DEF SyncInv, AnySync
<1>9. SyncInv'
  BY <1>1, <1>2, <1>8 DEF SyncInv, MirrorsIssue
<1>10. WriterInv'
  BY <1>1, <1>2 DEF WriterInv
<1>11. MissingInv'
  BY <1>1, <1>2, <1>4, <1>6, <1>8 DEF MissingInv
<1>12. OrderInv' /\ MirrorInv'
  BY <1>2, <1>8 DEF OrderInv, MirrorInv
<1>13. QED
  BY <1>7, <1>9, <1>10, <1>11, <1>12 DEF Inv

\* A delivery that changes no ticket is added.
LEMMA NoNewsKeeps ==
  ASSUME DataInv, NEW ds, GoodDeliveries(ds, Len(pulls)), NEW d, GoodDelivery(d, Len(pulls)),
         ~IsNews(d, "issue"), ~IsNews(d, "pull")
  PROVE  /\ GoodDeliveries(Append(ds, d), Len(pulls))
         /\ IssueInOrder(ds) => IssueInOrder(Append(ds, d))
         /\ PullsInOrder(ds) => PullsInOrder(Append(ds, d))
         /\ LaterIssue(ds, 0) => LaterIssue(Append(ds, d), 0)
         /\ \A r, f : Traces(f, r, ds, Len(pulls)) =>
              \E h : /\ Traces(h, r, Append(ds, d), Len(pulls))
                     /\ h[Len(Append(ds, d))] = f[Len(ds)]
<1>1. PICK last \in 0..MaxPulls : last = Len(pulls)
  BY PullNumbers DEF DataInv
<1>2. last \in Nat /\ last <= last
  BY MirrorAssumption
<1>3. GoodDeliveries(ds, last) /\ GoodDelivery(d, last) /\ ds \in Seq(Deliveries) /\ d \in Deliveries
  BY <1>1 DEF GoodDeliveries, GoodDelivery
<1>4. GoodDeliveries(Append(ds, d), last)
  BY <1>2, <1>3, DeliveriesAppend
<1>5. /\ IssueInOrder(ds) => IssueInOrder(Append(ds, d))
      /\ PullsInOrder(ds) => PullsInOrder(Append(ds, d))
  BY <1>3, OrderAppend
<1>6. LaterIssue(ds, 0) => LaterIssue(Append(ds, d), 0)
  <2>1. 0 \in 0..Len(ds)
    BY <1>3
  <2>2. QED
    BY <1>3, <2>1, LaterAppend
<1>7. ASSUME NEW r, NEW f, Traces(f, r, ds, last)
      PROVE  \E h : Traces(h, r, Append(ds, d), last) /\ h[Len(Append(ds, d))] = f[Len(ds)]
  <2>1. PICK h : Traces(h, r, Append(ds, d), last) /\ h[Len(Append(ds, d))] = MirrorOne(f[Len(ds)], d)
    BY <1>2, <1>3, <1>7, TraceAppends
  <2>2. QED
    BY <2>1, NoNews
<1>8. QED
  BY <1>1, <1>4, <1>5, <1>6, <1>7

LEMMA SuspensionKeeps ==
  ASSUME Inv, Suspend \/ Unsuspend
  PROVE  Inv'
<1>1. DataInv /\ WriterInv /\ SyncInv /\ MissingInv /\ OrderInv /\ MirrorInv
  BY DEF Inv
<1>2. PICK kind \in {"suspend", "deleted", "unsuspend"} : deliveries' = Append(deliveries, AboutInstallation(kind))
  BY DEF Suspend, Unsuspend
<1>3. /\ UNCHANGED <<issue, pulls, row, enabled, writer, sync, disturbed, changes>>
      /\ suspended' \in BOOLEAN
      /\ faults' = faults \/ (faults < MaxFaults /\ faults' = faults + 1)
  BY DEF Suspend, Unsuspend, Fault
<1>4. PICK d : d = AboutInstallation(kind)
  OBVIOUS
<1>5. /\ GoodDelivery(d, Len(pulls)) /\ d.kind # "issue"
      /\ ~IsNews(d, "issue") /\ ~IsNews(d, "pull")
  BY <1>4, AnInstallation
<1>6. GoodDeliveries(deliveries, Len(pulls)) /\ deliveries' = Append(deliveries, d)
  BY <1>1, <1>2, <1>4 DEF DataInv
<1>7. /\ GoodDeliveries(deliveries', Len(pulls))
      /\ IssueInOrder(deliveries) => IssueInOrder(deliveries')
      /\ PullsInOrder(deliveries) => PullsInOrder(deliveries')
      /\ LaterIssue(deliveries, 0) => LaterIssue(deliveries', 0)
      /\ \A f : Traces(f, row, deliveries, Len(pulls)) =>
           \E h : Traces(h, row, deliveries', Len(pulls)) /\ h[Len(deliveries')] = f[Len(deliveries)]
  BY <1>1, <1>5, <1>6, NoNewsKeeps
<1>8. DataInv'
  <2>1. faults' \in 0..MaxFaults
    BY <1>1, <1>3, MirrorAssumption DEF DataInv
  <2>2. GoodIssue(issue)' /\ GoodPulls'
    BY <1>1, <1>3 DEF DataInv, GoodPulls, OpenPulls
  <2>3. QED
    BY <1>1, <1>3, <1>7, <2>1, <2>2 DEF DataInv
<1>9. WriterInv' /\ SyncInv'
  BY <1>1, <1>3 DEF WriterInv, SyncInv, MirrorsIssue
<1>10. MissingInv'
  <2>1. PICK N \in Nat : N = Len(deliveries) /\ deliveries \in Seq(Deliveries)
    BY <1>6 DEF GoodDeliveries
  <2>2. d \in Deliveries
    BY <1>5 DEF GoodDelivery
  <2>3. /\ Len(deliveries') = N + 1 /\ deliveries'[N + 1] = d
        /\ \A n \in 1..N : deliveries'[n] = deliveries[n]
    BY <1>6, <2>1, <2>2
  <2>4. \A n \in 1..N + 1 : n = N + 1 \/ n \in 1..N
    BY <2>1
  <2>5. QED
    BY <1>1, <1>3, <1>5, <2>1, <2>3, <2>4 DEF MissingInv
<1>11. OrderInv'
  <2>1. /\ IssueInOrder(deliveries') => IssueInOrder(deliveries)'
        /\ PullsInOrder(deliveries') => PullsInOrder(deliveries)'
        /\ MirrorsIssue(sync.row) => MirrorsIssue(sync.row)'
    BY <1>3 DEF IssueInOrder, PullsInOrder, OpenPulls, MirrorsIssue
  <2>2. QED
    BY <1>1, <1>3, <1>7, <2>1 DEF OrderInv
<1>12. MirrorInv'
  <2>1. SUFFICES ASSUME ~disturbed PROVE Settles(row)'
    BY <1>3 DEF MirrorInv
  <2>2. PICK f : Traces(f, row, deliveries, Len(pulls)) /\ Mirrors(f[Len(deliveries)])
    BY <1>1, <2>1 DEF MirrorInv, Settles
  <2>3. PICK h : Traces(h, row, deliveries', Len(pulls)) /\ h[Len(deliveries')] = f[Len(deliveries)]
    BY <1>7, <2>2
  <2>4. PICK r : r = h[Len(deliveries')] /\ Mirrors(r)
    BY <2>2, <2>3
  <2>5. Mirrors(r)'
    BY <1>3, <2>4 DEF Mirrors, MirrorsIssue, MirrorsPull, OpenPulls
  <2>6. Traces(h, row', deliveries', Len(pulls'))
    BY <1>3, <2>3
  <2>7. QED
    BY <2>4, <2>5, <2>6 DEF Settles
<1>13. QED
  BY <1>8, <1>9, <1>10, <1>11, <1>12 DEF Inv

\* What a handler makes of the row.
LEMMA Handled ==
  ASSUME Inv, HandleDelivery
  PROVE  LET d == Head(deliveries)
             new == MirrorOne(row, d)
         IN  /\ row' = row \/ row' = new
             /\ ~disturbed' => ~disturbed /\ row' = new
             /\ enabled' \in BOOLEAN /\ disturbed' \in BOOLEAN
             /\ issue.state = "none" => row' = NoRow
<1>1. DataInv /\ MissingInv
  BY DEF Inv
<1>2. PICK d, new : d = Head(deliveries) /\ new = MirrorOne(row, d)
  OBVIOUS
<1>3. deliveries # <<>> /\ GoodDeliveries(deliveries, Len(pulls))
  BY <1>1 DEF HandleDelivery, DataInv
<1>4. GoodDelivery(d, Len(pulls)) /\ d = deliveries[1] /\ 1 \in 1..Len(deliveries)
  <2>1. GoodDelivery(d, Len(pulls)) /\ d = deliveries[1]
    BY <1>2, <1>3, DeliveriesTail
  <2>2. PICK N \in Nat : N = Len(deliveries) /\ N # 0
    BY <1>3 DEF GoodDeliveries
  <2>3. QED
    BY <2>1, <2>2
<1>5. /\ IF record_delivery(d) /\ Listed(d) THEN Dispatch(d) ELSE UNCHANGED <<row, enabled>>
      /\ disturbed' = (disturbed \/ (~enabled /\ d.kind \in {"issue", "pull"} /\ ~d.seen))
  BY <1>2 DEF HandleDelivery
<1>6. d.seen \in BOOLEAN /\ d.kind \in Kinds /\ enabled \in BOOLEAN /\ disturbed \in BOOLEAN
  BY <1>1, <1>4 DEF GoodDelivery, Deliveries, DataInv
<1>7. CASE ~(record_delivery(d) /\ Listed(d))
  <2>1. row' = row /\ enabled' = enabled
    BY <1>5, <1>7
  <2>2. new = row
    BY <1>2, <1>7 DEF record_delivery, Listed, MirrorOne
  <2>3. QED
    BY <1>1, <1>2, <1>5, <1>6, <2>1, <2>2 DEF MissingInv
<1>8. CASE record_delivery(d) /\ Listed(d)
  <2>1. ~d.seen /\ Dispatch(d)
    BY <1>5, <1>8 DEF record_delivery
  <2>2. CASE d.kind = "issue" /\ handle_repo_event(MirrorIssue(row, d.issue))
    <3>1. new = MirrorIssue(row, d.issue)
      BY <1>2, <2>1, <2>2 DEF MirrorOne
    <3>2. row' = (IF enabled THEN new ELSE row) /\ enabled' = enabled
      BY <2>2, <3>1 DEF handle_repo_event
    <3>3. issue.state # "none"
      BY <1>1, <1>4, <2>2 DEF MissingInv
    <3>4. QED
      BY <1>2, <1>5, <1>6, <2>1, <2>2, <3>2, <3>3
  <2>3. CASE d.kind = "pull" /\ handle_repo_event(link_pull_request(row, d.pr, d.pr_state))
    <3>1. new = link_pull_request(row, d.pr, d.pr_state)
      BY <1>2, <2>1, <2>3 DEF MirrorOne
    <3>2. row' = (IF enabled THEN new ELSE row) /\ enabled' = enabled
      BY <2>3, <3>1 DEF handle_repo_event
    <3>3. row = NoRow => new = NoRow
      BY <3>1 DEF link_pull_request
    <3>4. issue.state = "none" => row = NoRow
      BY <1>1 DEF MissingInv
    <3>5. QED
      BY <1>2, <1>5, <1>6, <2>1, <2>3, <3>2, <3>3, <3>4
  <2>4. CASE handle_installation(d.kind)
    <3>1. row' = row /\ d.kind \in {"suspend", "deleted", "unsuspend"}
      BY <2>4 DEF handle_installation
    <3>2. enabled' \in BOOLEAN
      BY <2>4 DEF handle_installation, set_repos_enabled, retire_repos, reconcile_installation_repos
    <3>3. new = row
      BY <1>2, <3>1 DEF MirrorOne
    <3>4. QED
      BY <1>1, <1>2, <1>5, <1>6, <3>1, <3>2, <3>3 DEF MissingInv
  <2>5. QED
    BY <2>1, <2>2, <2>3, <2>4 DEF Dispatch
<1>9. QED
  BY <1>7, <1>8

\* A delivery that may be redelivered was handled, or failed before it changed anything.
LEMMA Redelivered ==
  ASSUME NEW last, NEW d, GoodDelivery(d, last)
  PROVE  LET again == [d EXCEPT !.seen = @ \/ Listed(d)]
         IN  /\ GoodDelivery(again, last) /\ again.kind = d.kind
             /\ ~IsNews(again, "issue") /\ ~IsNews(again, "pull")
<1>1. d \in Deliveries /\ d.seen \in BOOLEAN
  BY DEF GoodDelivery, Deliveries
<1>2. PICK seen \in BOOLEAN : seen = (d.seen \/ Listed(d))
  BY DEF Listed
<1>3. PICK again : again = [d EXCEPT !.seen = seen]
  OBVIOUS
<1>4. /\ again \in Deliveries /\ again.kind = d.kind /\ again.issue = d.issue /\ again.pr = d.pr
      /\ again.pr_state = d.pr_state /\ again.seen = seen
  BY <1>1, <1>3 DEF Deliveries
<1>5. GoodDelivery(again, last)
  BY <1>4 DEF GoodDelivery
<1>6. d.kind # "unsuspend" => seen = TRUE
  BY <1>2 DEF Listed
<1>7. ~IsNews(again, "issue") /\ ~IsNews(again, "pull")
  BY <1>4, <1>6 DEF IsNews
<1>8. again = [d EXCEPT !.seen = @ \/ Listed(d)]
  BY <1>2, <1>3
<1>9. QED
  BY <1>4, <1>5, <1>7, <1>8

LEMMA HandlersKeep ==
  ASSUME Inv, HandleDelivery
  PROVE  Inv'
<1>1. DataInv /\ WriterInv /\ SyncInv /\ MissingInv /\ OrderInv /\ MirrorInv
  BY DEF Inv
<1>2. PICK d, new : d = Head(deliveries) /\ new = MirrorOne(row, d)
  OBVIOUS
<1>3. /\ row' = row \/ row' = new
      /\ ~disturbed' => ~disturbed /\ row' = new
      /\ enabled' \in BOOLEAN /\ disturbed' \in BOOLEAN
      /\ issue.state = "none" => row' = NoRow
  BY <1>2, Handled
<1>4. /\ deliveries # <<>> /\ sync.at = "idle"
      /\ UNCHANGED <<issue, pulls, suspended, writer, sync, changes>>
      /\ \/ deliveries' = Tail(deliveries) /\ faults' = faults
         \/ /\ faults < MaxFaults /\ faults' = faults + 1
            /\ deliveries' = Append(Tail(deliveries), [d EXCEPT !.seen = @ \/ Listed(d)])
  BY <1>2 DEF HandleDelivery, upsert_repo, Fault
<1>5. PICK last \in 0..MaxPulls : last = Len(pulls)
  BY <1>1, PullNumbers DEF DataInv
<1>6. PICK ds : ds = Tail(deliveries)
  OBVIOUS
<1>7. /\ GoodDeliveries(deliveries, last) /\ GoodDeliveries(ds, last) /\ GoodDelivery(d, last)
      /\ deliveries \in Seq(Deliveries) /\ ds \in Seq(Deliveries)
  <2>1. GoodDeliveries(deliveries, last)
    BY <1>1, <1>5 DEF DataInv
  <2>2. GoodDeliveries(ds, last) /\ GoodDelivery(d, last)
    BY <1>2, <1>4, <1>6, <2>1, DeliveriesTail
  <2>3. QED
    BY <2>1, <2>2 DEF GoodDeliveries
<1>8. PICK again : /\ again = [d EXCEPT !.seen = @ \/ Listed(d)]
                   /\ GoodDelivery(again, last) /\ again.kind = d.kind
                   /\ ~IsNews(again, "issue") /\ ~IsNews(again, "pull")
  BY <1>7, Redelivered
<1>9. /\ GoodDeliveries(Append(ds, again), last)
      /\ IssueInOrder(ds) => IssueInOrder(Append(ds, again))
      /\ PullsInOrder(ds) => PullsInOrder(Append(ds, again))
      /\ \A r, f : Traces(f, r, ds, last) =>
           \E h : /\ Traces(h, r, Append(ds, again), last)
                  /\ h[Len(Append(ds, again))] = f[Len(ds)]
  <2>1. GoodDeliveries(ds, Len(pulls)) /\ GoodDelivery(again, Len(pulls))
    BY <1>5, <1>7, <1>8
  <2>2. /\ GoodDeliveries(Append(ds, again), Len(pulls))
        /\ IssueInOrder(ds) => IssueInOrder(Append(ds, again))
        /\ PullsInOrder(ds) => PullsInOrder(Append(ds, again))
        /\ \A r, f : Traces(f, r, ds, Len(pulls)) =>
             \E h : /\ Traces(h, r, Append(ds, again), Len(pulls))
                    /\ h[Len(Append(ds, again))] = f[Len(ds)]
    BY <1>1, <1>8, <2>1, NoNewsKeeps
  <2>3. QED
    BY <1>5, <2>2
<1>10. deliveries' = ds \/ deliveries' = Append(ds, again)
  BY <1>4, <1>6, <1>8
<1>11. /\ GoodDeliveries(deliveries', last)
       /\ IssueInOrder(deliveries) => IssueInOrder(deliveries')
       /\ PullsInOrder(deliveries) => PullsInOrder(deliveries')
  <2>1. /\ IssueInOrder(deliveries) => IssueInOrder(ds)
        /\ PullsInOrder(deliveries) => PullsInOrder(ds)
    BY <1>4, <1>6, <1>7, OrderTail
  <2>2. QED
    BY <1>7, <1>9, <1>10, <2>1
<1>12. /\ GoodRow(row, last)
       /\ GoodRow(row', last) /\ (row # NoRow => row' # NoRow) /\ (row.pr # 0 => row'.pr # 0)
  <2>1. GoodRow(row, last)
    BY <1>1, <1>5 DEF DataInv
  <2>2. GoodRow(new, last) /\ (row # NoRow => new # NoRow) /\ (row.pr # 0 => new.pr # 0)
    BY <1>2, <1>7, <2>1, MirrorOneKeeps
  <2>3. QED
    BY <1>3, <2>1, <2>2
<1>13. DataInv'
  <2>1. faults' \in 0..MaxFaults
    BY <1>1, <1>4, MirrorAssumption DEF DataInv
  <2>2. GoodIssue(issue)' /\ GoodPulls'
    BY <1>1, <1>4 DEF DataInv, GoodPulls, OpenPulls
  <2>3. row' = NoRow => pulls' = <<>>
    BY <1>1, <1>4, <1>12 DEF DataInv
  <2>4. QED
    BY <1>1, <1>3, <1>4, <1>5, <1>11, <1>12, <2>1, <2>2, <2>3 DEF DataInv
<1>14. WriterInv'
  BY <1>1, <1>4, <1>12 DEF WriterInv
<1>15. SyncInv'
  BY <1>1, <1>4 DEF SyncInv
<1>16. MissingInv'
  <2>1. SUFFICES ASSUME issue.state = "none"
                 PROVE  \A n \in 1..Len(deliveries') : deliveries'[n].kind # "issue"
    BY <1>1, <1>3, <1>4 DEF MissingInv
  <2>2. PICK N \in Nat : N = Len(deliveries)
    BY <1>7
  <2>3. \A n \in 1..N : deliveries[n].kind # "issue"
    BY <1>1, <2>1, <2>2 DEF MissingInv
  <2>4. PICK M \in Nat : /\ M = N - 1 /\ Len(ds) = M /\ \A n \in 1..M : ds[n] = deliveries[n + 1]
                         /\ 1 \in 1..N /\ d = deliveries[1]
    <3>1. PICK M \in Nat : M = Len(ds)
      BY <1>7
    <3>2. N # 0 /\ M = N - 1 /\ \A n \in 1..M : ds[n] = deliveries[n + 1]
      BY <1>4, <1>6, <1>7, <2>2, <3>1
    <3>3. d = deliveries[1]
      BY <1>2, <1>4, <1>7, DeliveriesTail
    <3>4. 1 \in 1..N
      BY <3>2
    <3>5. QED
      BY <3>1, <3>2, <3>3, <3>4
  <2>5. \A n \in 1..M : ds[n].kind # "issue"
    <3>1. \A n \in 1..M : n + 1 \in 1..N
      BY <2>4
    <3>2. QED
      BY <2>3, <2>4, <3>1
  <2>6. again \in Deliveries /\ again.kind # "issue"
    BY <1>8, <2>3, <2>4 DEF GoodDelivery
  <2>7. /\ Len(Append(ds, again)) = M + 1 /\ Append(ds, again)[M + 1] = again
        /\ \A n \in 1..M : Append(ds, again)[n] = ds[n]
    BY <1>7, <2>4, <2>6
  <2>8. \A n \in 1..M + 1 : n = M + 1 \/ n \in 1..M
    BY <2>4
  <2>9. QED
    BY <1>10, <2>4, <2>5, <2>6, <2>7, <2>8
<1>17. OrderInv'
  <2>1. ~disturbed' \/ sync'.clean => ~disturbed \/ sync.clean
    BY <1>3, <1>4
  <2>2. /\ IssueInOrder(deliveries') => IssueInOrder(deliveries)'
        /\ PullsInOrder(deliveries') => PullsInOrder(deliveries)'
    BY <1>4 DEF IssueInOrder, PullsInOrder, OpenPulls
  <2>3. QED
    BY <1>1, <1>4, <1>11, <2>1, <2>2 DEF OrderInv
<1>18. MirrorInv'
  <2>1. SUFFICES ASSUME ~disturbed' PROVE Settles(row)'
    BY DEF MirrorInv
  <2>2. ~disturbed /\ row' = new
    BY <1>3, <2>1
  <2>3. PICK f : Traces(f, row, deliveries, last) /\ Mirrors(f[Len(deliveries)])
    BY <1>1, <1>5, <2>2 DEF MirrorInv, Settles
  <2>4. PICK g : Traces(g, new, ds, last) /\ g[Len(ds)] = f[Len(deliveries)]
    BY <1>2, <1>4, <1>6, <1>7, <2>3, TraceTail
  <2>5. PICK h : Traces(h, new, deliveries', last) /\ h[Len(deliveries')] = f[Len(deliveries)]
    BY <1>9, <1>10, <2>4
  <2>6. PICK r : r = h[Len(deliveries')] /\ Mirrors(r)
    BY <2>3, <2>5
  <2>7. Mirrors(r)'
    BY <1>4, <2>6 DEF Mirrors, MirrorsIssue, MirrorsPull, OpenPulls
  <2>8. Traces(h, row', deliveries', Len(pulls'))
    BY <1>4, <1>5, <2>2, <2>5
  <2>9. QED
    BY <2>6, <2>7, <2>8 DEF Settles
<1>19. QED
  BY <1>13, <1>14, <1>15, <1>16, <1>17, <1>18 DEF Inv

-----------------------------------------------------------------------------
(* Steps of the sync. *)

LEMMA NoSyncIsGood ==
  ASSUME NEW last \in Nat
  PROVE  /\ NoSync \in AnySync /\ NoSync.row = NoRow /\ GoodRow(NoSync.row, last)
         /\ NoSync.at = "idle" /\ NoSync.clean = FALSE
<1>1. NoRow \in Rows /\ GoodRow(NoRow, last)
  BY NoRowIsGood DEF GoodRow
<1>2. QED
  BY <1>1 DEF NoSync, AnySync

\* The lists and the single reads of GitHub agree with the webhooks.
LEMMA IssuesRead ==
  ASSUME DataInv, MissingInv,
         NEW new, new = IF list_issues = {} THEN Recheck(row) ELSE upsert_ticket_from_issue(row, issue)
  PROVE  /\ GoodRow(new, Len(pulls)) /\ MirrorsIssue(new) /\ new.pr = row.pr
         /\ row # NoRow => new # NoRow
         /\ issue.state = "none" => new = NoRow
<1>1. PICK last \in 0..MaxPulls : last = Len(pulls)
  BY PullNumbers DEF DataInv
<1>2. GoodRow(row, last) /\ GoodIssue(issue)
  BY <1>1 DEF DataInv
<1>3. list_issues = {} <=> NEXTIX \notin issue.labels
  BY DEF list_issues
<1>4. CASE issue.state = "none"
  <2>1. row = NoRow /\ NEXTIX \notin issue.labels
    BY <1>2, <1>4 DEF MissingInv, GoodIssue
  <2>2. new = NoRow
    BY <1>3, <2>1 DEF Recheck
  <2>3. QED
    BY <1>1, <1>2, <2>1, <2>2 DEF MirrorsIssue
<1>5. CASE issue.state # "none"
  <2>1. new = MirrorIssue(row, issue)
    <3>1. CASE list_issues = {}
      BY <1>3, <3>1 DEF Recheck, MirrorIssue, mark_issue_gone
    <3>2. CASE list_issues # {}
      <4>1. issue.state # "gone"
        BY <1>2, <1>3, <3>2 DEF GoodIssue
      <4>2. QED
        BY <1>3, <3>2, <4>1 DEF MirrorIssue
    <3>3. QED
      BY <3>1, <3>2
  <2>2. /\ GoodRow(new, last) /\ new.pr = row.pr /\ new.pr_state = row.pr_state
        /\ row # NoRow => new # NoRow
        /\ new = NoRow => NEXTIX \notin issue.labels
        /\ new # NoRow => new.state = issue.state /\ (issue.state = "gone" \/ new.labels = issue.labels)
    BY <1>2, <1>5, <2>1, MirrorsOneIssue
  <2>3. MirrorsIssue(new)
    BY <2>2 DEF MirrorsIssue
  <2>4. QED
    BY <1>1, <1>5, <2>2, <2>3
<1>6. QED
  BY <1>4, <1>5

\* A sync starts, reads or fails: nothing of GitHub or of the ticket changes.
LEMMA SyncReadsKeep ==
  ASSUME Inv, SyncStart \/ SyncIssues \/ SyncFails
  PROVE  Inv'
<1>1. DataInv /\ WriterInv /\ SyncInv /\ MissingInv /\ OrderInv /\ MirrorInv
  BY DEF Inv
<1>2. UNCHANGED <<issue, pulls, suspended, deliveries, row, enabled, writer, disturbed, changes, faults>>
  BY DEF SyncStart, SyncIssues, SyncFails
<1>3. DataInv'
  BY <1>1, <1>2 DEF DataInv, GoodPulls, OpenPulls
<1>4. WriterInv'
  BY <1>1, <1>2 DEF WriterInv
<1>5. MirrorInv'
  BY <1>1, <1>2 DEF MirrorInv, Settles, Traces, Mirrors, MirrorsIssue, MirrorsPull, OpenPulls
<1>6. PICK last \in Nat : last = Len(pulls)
  BY <1>1 DEF DataInv, GoodPulls
<1>7. /\ IssueInOrder(deliveries) => IssueInOrder(deliveries)'
      /\ PullsInOrder(deliveries) => PullsInOrder(deliveries)'
  BY <1>2 DEF IssueInOrder, PullsInOrder, OpenPulls
<1>8. CASE SyncStart
  <2>1. sync' = [NoSync EXCEPT !.at = "issues", !.clean = (deliveries = <<>> /\ enabled)]
    BY <1>8 DEF SyncStart
  <2>2. NoSync \in AnySync /\ NoSync.row = NoRow /\ GoodRow(NoRow, last)
    BY <1>6, NoSyncIsGood, NoRowIsGood
  <2>3. /\ sync' \in AnySync /\ sync'.at = "issues" /\ sync'.row = NoRow
        /\ sync'.clean => deliveries = <<>>
    BY <1>1, <2>1, <2>2 DEF AnySync, DataInv
  <2>4. SyncInv'
    BY <1>2, <1>6, <2>2, <2>3 DEF SyncInv
  <2>5. MissingInv'
    BY <1>1, <1>2, <2>3 DEF MissingInv
  <2>6. deliveries = <<>> => IssueInOrder(deliveries) /\ PullsInOrder(deliveries)
    BY DEF IssueInOrder, PullsInOrder
  <2>7. OrderInv'
    BY <1>1, <1>2, <1>7, <2>3, <2>6 DEF OrderInv
  <2>8. QED
    BY <1>3, <1>4, <1>5, <2>4, <2>5, <2>7 DEF Inv
<1>9. CASE SyncIssues
  <2>1. PICK new : new = IF list_issues = {} THEN Recheck(row) ELSE upsert_ticket_from_issue(row, issue)
    OBVIOUS
  <2>2. /\ GoodRow(new, Len(pulls)) /\ MirrorsIssue(new) /\ new.pr = row.pr
        /\ row # NoRow => new # NoRow
        /\ issue.state = "none" => new = NoRow
    BY <1>1, <2>1, IssuesRead
  <2>3. sync' = [sync EXCEPT !.at = "pulls", !.calm = TRUE, !.row = new]
    BY <1>9, <2>1 DEF SyncIssues
  <2>4. new \in Rows
    BY <2>2 DEF GoodRow
  <2>5. /\ sync' \in AnySync /\ sync'.at = "pulls" /\ sync'.row = new /\ sync'.clean = sync.clean
    BY <1>1, <2>3, <2>4 DEF AnySync, SyncInv
  <2>6. MirrorsIssue(sync.row)'
    BY <1>2, <2>2, <2>5 DEF MirrorsIssue
  <2>7. SyncInv'
    BY <1>2, <2>2, <2>5, <2>6 DEF SyncInv
  <2>8. MissingInv'
    BY <1>1, <1>2, <2>2, <2>5 DEF MissingInv
  <2>9. OrderInv'
    BY <1>1, <1>2, <1>7, <2>5, <2>6 DEF OrderInv
  <2>10. QED
    BY <1>3, <1>4, <1>5, <2>7, <2>8, <2>9 DEF Inv
<1>10. CASE SyncFails
  <2>1. /\ sync' \in AnySync /\ sync'.row = NoRow /\ GoodRow(sync'.row, last)
        /\ sync'.at = "idle" /\ sync'.clean = FALSE
    BY <1>6, <1>10, NoSyncIsGood DEF SyncFails
  <2>2. SyncInv'
    BY <1>2, <1>6, <2>1 DEF SyncInv
  <2>3. MissingInv'
    BY <1>1, <1>2, <2>1 DEF MissingInv
  <2>4. OrderInv'
    BY <1>1, <1>2, <1>7, <2>1 DEF OrderInv
  <2>5. QED
    BY <1>3, <1>4, <1>5, <2>2, <2>3, <2>4 DEF Inv
<1>11. QED
  BY <1>8, <1>9, <1>10

\* The row that a sync leaves, when the deliveries that were on their way have arrived.
LEMMA SyncPullsKeeps ==
  ASSUME Inv, SyncPulls
  PROVE  Inv'
<1>1. DataInv /\ WriterInv /\ SyncInv /\ MissingInv /\ OrderInv
  BY DEF Inv
<1>2. /\ sync.at = "pulls" /\ row' = LinkPulls(sync.row, pulls)
      /\ disturbed' = (disturbed /\ ~sync.clean) /\ sync' = NoSync
      /\ UNCHANGED <<issue, pulls, suspended, deliveries, enabled, writer, changes, faults>>
  BY DEF SyncPulls
<1>3. PICK last \in 0..MaxPulls : last = Len(pulls)
  BY <1>1, PullNumbers DEF DataInv
<1>4. last \in Nat
  BY MirrorAssumption
<1>5. /\ GoodPulls /\ GoodRow(sync.row, Len(pulls)) /\ GoodDeliveries(deliveries, last)
      /\ sync.row = NoRow => row = NoRow
      /\ row.pr # 0 => sync.row.pr # 0
      /\ disturbed \in BOOLEAN /\ sync.clean \in BOOLEAN
  BY <1>1, <1>2, <1>3 DEF DataInv, SyncInv, AnySync
<1>6. PICK new : new = LinkPulls(sync.row, pulls)
  OBVIOUS
<1>7. /\ GoodRow(new, last) /\ (new = NoRow <=> sync.row = NoRow)
      /\ new.state = sync.row.state /\ new.labels = sync.row.labels
      /\ sync.row.pr # 0 => new.pr # 0
      /\ MirrorsPull(new)
  BY <1>3, <1>5, <1>6, LinksMirror
<1>8. row' = new
  BY <1>2, <1>6
<1>9. disturbed' \in BOOLEAN /\ (~disturbed' => ~disturbed \/ sync.clean)
  BY <1>2, <1>5
<1>10. new = NoRow => pulls = <<>>
  BY <1>1, <1>5, <1>7 DEF DataInv
<1>11. DataInv'
  <2>1. GoodIssue(issue)' /\ GoodPulls'
    BY <1>1, <1>2 DEF DataInv, GoodPulls, OpenPulls
  <2>2. QED
    BY <1>1, <1>2, <1>3, <1>7, <1>8, <1>9, <1>10, <2>1 DEF DataInv
<1>12. WriterInv'
  BY <1>1, <1>2, <1>5, <1>7, <1>8 DEF WriterInv
<1>13. /\ sync' \in AnySync /\ sync'.row = NoRow /\ GoodRow(sync'.row, last)
       /\ sync'.at = "idle" /\ sync'.clean = FALSE
  BY <1>2, <1>4, NoSyncIsGood
<1>14. SyncInv'
  BY <1>2, <1>3, <1>13 DEF SyncInv
<1>15. MissingInv'
  BY <1>1, <1>2, <1>7, <1>8, <1>13 DEF MissingInv
<1>16. OrderInv'
  <2>1. /\ IssueInOrder(deliveries) => IssueInOrder(deliveries)'
        /\ PullsInOrder(deliveries) => PullsInOrder(deliveries)'
    BY <1>2 DEF IssueInOrder, PullsInOrder, OpenPulls
  <2>2. QED
    BY <1>1, <1>9, <1>13, <2>1 DEF OrderInv
<1>17. MirrorInv'
  <2>1. SUFFICES ASSUME ~disturbed' PROVE Settles(row)'
    BY DEF MirrorInv
  <2>2. /\ IssueInOrder(deliveries) /\ PullsInOrder(deliveries)
        /\ MirrorsIssue(sync.row) \/ LaterIssue(deliveries, 0)
    BY <1>1, <1>2, <1>9, <2>1 DEF OrderInv
  <2>3. MirrorsIssue(new) \/ LaterIssue(deliveries, 0)
    BY <1>7, <2>2 DEF MirrorsIssue
  <2>4. new \in GoodRows(last)
    BY <1>7 DEF GoodRows, GoodRow
  <2>5. PICK f : Traces(f, new, deliveries, last)
    BY <1>5, <2>4, MirrorTrace
  <2>6. MirrorsIssue(f[Len(deliveries)])
    BY <1>5, <2>2, <2>3, <2>5, IssueSettles
  <2>7. MirrorsPull(f[Len(deliveries)])
    BY <1>3, <1>5, <1>7, <1>10, <2>2, <2>5, PullSettles
  <2>8. PICK r : r = f[Len(deliveries)] /\ Mirrors(r)
    BY <2>6, <2>7 DEF Mirrors
  <2>9. Mirrors(r)'
    BY <1>2, <2>8 DEF Mirrors, MirrorsIssue, MirrorsPull, OpenPulls
  <2>10. QED
    BY <1>2, <1>3, <1>8, <2>5, <2>8, <2>9 DEF Settles
<1>18. QED
  BY <1>11, <1>12, <1>14, <1>15, <1>16, <1>17 DEF Inv

-----------------------------------------------------------------------------
(* Steps of the writers. *)

LEMMA WriterReadsKeeps ==
  ASSUME Inv, WriterReads
  PROVE  Inv'
<1>1. DataInv /\ WriterInv /\ SyncInv /\ MissingInv /\ OrderInv /\ MirrorInv
  BY DEF Inv
<1>2. /\ UNCHANGED <<issue, pulls, suspended, deliveries, row, enabled, sync, disturbed, changes, faults>>
      /\ writer.at = "called" /\ writer.kind \in {"ask", "conclude"}
      /\ writer' = [writer EXCEPT !.at = "read", !.row = row]
  BY DEF WriterReads
<1>3. DataInv' /\ SyncInv' /\ OrderInv' /\ MirrorInv'
  BY <1>1, <1>2 DEF DataInv, GoodPulls, SyncInv, OrderInv, IssueInOrder, PullsInOrder, MirrorInv,
       Settles, Traces, Mirrors, MirrorsIssue, MirrorsPull, OpenPulls
<1>4. row \in Rows /\ GoodRow(row, Len(pulls))
  BY <1>1 DEF DataInv, GoodRow
<1>5. /\ writer' \in AnyWriter /\ writer'.kind = writer.kind /\ writer'.at = "read"
      /\ writer'.row = row /\ writer'.pr = writer.pr
  BY <1>1, <1>2, <1>4 DEF WriterInv, AnyWriter
<1>6. WriterInv'
  BY <1>1, <1>2, <1>4, <1>5 DEF WriterInv
<1>7. MissingInv'
  BY <1>1, <1>2 DEF MissingInv, NoWriter
<1>8. QED
  BY <1>1, <1>3, <1>6, <1>7 DEF Inv

\* What a writer writes is a ticket with a pull request if it had one.
LEMMA AWriterWrites ==
  ASSUME Inv, WriterWrites
  PROVE  GoodRow(row', Len(pulls)) /\ row' # NoRow /\ issue.state # "none"
<1>1. DataInv /\ WriterInv /\ MissingInv
  BY DEF Inv
<1>2. PICK last \in 0..MaxPulls : last = Len(pulls)
  BY <1>1, PullNumbers DEF DataInv
<1>3. last \in Nat /\ 1..last \subseteq 0..MaxPulls
  BY MirrorAssumption
<1>4. /\ GoodRow(row, last) /\ GoodRow(writer.row, last) /\ row \in Rows /\ writer.row \in Rows
      /\ writer \in AnyWriter
  BY <1>1, <1>2 DEF DataInv, WriterInv, GoodRow
<1>5. /\ row' = Written
      /\ \/ writer.at = "called" /\ writer.kind \in {"create", "clear"}
         \/ writer.at = "read"
  BY DEF WriterWrites
<1>6. issue.state # "none"
  BY <1>1, <1>5 DEF MissingInv, NoWriter
<1>7. writer.at = "read" => writer.kind \in {"ask", "conclude"} /\ (writer.row.pr # 0 => row.pr # 0)
  BY <1>1 DEF WriterInv
<1>8. writer.kind # "create" => row # NoRow /\ row.state # "none"
  BY <1>1, <1>4, <1>5, <1>7 DEF WriterInv, GoodRow
<1>9. CASE writer.kind = "create"
  <2>1. row' = [row EXCEPT !.state = "open", !.labels = {NEXTIX}]
    BY <1>5, <1>9 DEF Written, upsert_ticket_from_issue
  <2>2. /\ row' \in Rows /\ row'.state = "open" /\ row'.pr = row.pr /\ row'.pr_state = row.pr_state
    BY <1>4, <2>1 DEF Rows, IssueStates, Labels
  <2>3. row' # NoRow
    BY <2>2 DEF NoRow
  <2>4. QED
    BY <1>2, <1>4, <1>6, <2>2, <2>3 DEF GoodRow
<1>10. ASSUME NEW ls \in SUBSET Labels, row' = [row EXCEPT !.labels = ls], writer.kind # "create"
       PROVE  GoodRow(row', last) /\ row' # NoRow
  <2>1. /\ row' \in Rows /\ row'.state = row.state /\ row'.pr = row.pr /\ row'.pr_state = row.pr_state
    BY <1>4, <1>10 DEF Rows
  <2>2. row' # NoRow
    BY <1>8, <1>10, <2>1 DEF NoRow
  <2>3. QED
    BY <1>4, <1>8, <1>10, <2>1, <2>2 DEF GoodRow
<1>11. row.labels \in SUBSET Labels /\ writer.row.labels \in SUBSET Labels
  BY <1>4 DEF Rows
<1>12. CASE writer.kind = "clear"
  <2>1. PICK ls \in SUBSET Labels : ls = writer.row.labels \ {NEEDS}
    BY <1>11
  <2>2. row' = [row EXCEPT !.labels = ls]
    BY <1>5, <1>12, <2>1 DEF Written
  <2>3. QED
    BY <1>2, <1>6, <1>10, <1>12, <2>2
<1>13. CASE writer.kind = "ask"
  <2>1. PICK ls \in SUBSET Labels :
          ls = Changed(writer.row.labels \union {NEEDS}, writer.row.labels, row.labels)
    BY <1>11 DEF Changed, Labels
  <2>2. row' = [row EXCEPT !.labels = ls]
    BY <1>5, <1>13, <2>1 DEF Written
  <2>3. QED
    BY <1>2, <1>6, <1>10, <1>13, <2>2
<1>14. CASE writer.kind = "conclude"
  <2>1. writer.pr \in 1..last /\ (writer.row.pr # 0 => row.pr # 0)
    BY <1>1, <1>2, <1>5, <1>7, <1>14 DEF WriterInv
  <2>2. row.pr \in 0..MaxPulls /\ row.pr <= last /\ row.pr_state \in PullStates
    BY <1>4 DEF GoodRow, Rows
  <2>3. PICK n : n = Changed(writer.pr, writer.row.pr, row.pr)
    OBVIOUS
  <2>4. n \in 0..MaxPulls /\ n <= last /\ n # 0
    <3>1. CASE writer.pr = writer.row.pr
      <4>1. n = row.pr /\ row.pr # 0
        BY <2>1, <2>3, <3>1 DEF Changed
      <4>2. QED
        BY <2>2, <4>1
    <3>2. CASE writer.pr # writer.row.pr
      <4>1. n = writer.pr
        BY <2>3, <3>2 DEF Changed
      <4>2. QED
        BY <1>3, <2>1, <4>1
    <3>3. QED
      BY <3>1, <3>2
  <2>5. PICK state : state = Changed("open", writer.row.pr_state, row.pr_state)
    OBVIOUS
  <2>6. state \in PullStates /\ state # "none"
    <3>1. CASE writer.row.pr_state = "open"
      <4>1. state = row.pr_state /\ writer.row.pr # 0
        BY <1>4, <2>5, <3>1 DEF Changed, GoodRow
      <4>2. row.pr_state # "none"
        BY <1>4, <2>1, <4>1 DEF GoodRow
      <4>3. QED
        BY <2>2, <4>1, <4>2
    <3>2. CASE writer.row.pr_state # "open"
      BY <2>5, <3>2 DEF Changed, PullStates
    <3>3. QED
      BY <3>1, <3>2
  <2>7. row' = [row EXCEPT !.pr = n, !.pr_state = state]
    BY <1>5, <1>14, <2>3, <2>5 DEF Written
  <2>8. row' \in Rows /\ row'.state = row.state /\ row'.pr = n /\ row'.pr_state = state
    BY <1>4, <2>4, <2>6, <2>7 DEF Rows
  <2>9. row' # NoRow
    BY <1>8, <1>14, <2>8 DEF NoRow
  <2>10. GoodRow(row', last)
    BY <1>8, <1>14, <2>4, <2>6, <2>8 DEF GoodRow
  <2>11. QED
    BY <1>2, <1>6, <2>9, <2>10
<1>15. QED
  BY <1>5, <1>7, <1>9, <1>12, <1>13, <1>14

LEMMA WriterWritesKeeps ==
  ASSUME Inv, WriterWrites
  PROVE  Inv'
<1>1. DataInv /\ WriterInv /\ SyncInv /\ MissingInv /\ OrderInv /\ MirrorInv
  BY DEF Inv
<1>2. GoodRow(row', Len(pulls)) /\ row' # NoRow /\ issue.state # "none"
  BY AWriterWrites
<1>3. /\ sync.at # "pulls" /\ writer' = NoWriter
      /\ IF ~Mirrors(Settled(row')) THEN Disturb ELSE UNCHANGED <<disturbed, sync>>
      /\ UNCHANGED <<issue, pulls, suspended, deliveries, enabled, changes, faults>>
  BY DEF WriterWrites
<1>4. PICK last \in 0..MaxPulls : last = Len(pulls)
  BY <1>1, PullNumbers DEF DataInv
<1>5. last \in Nat
  BY MirrorAssumption
<1>6. /\ sync' \in AnySync /\ sync'.at = sync.at /\ sync'.row = sync.row
      /\ sync'.clean => sync.clean
      /\ disturbed' = TRUE \/ disturbed' = disturbed
      /\ \/ disturbed' = TRUE /\ sync'.clean = FALSE
         \/ disturbed' = disturbed /\ sync' = sync /\ Mirrors(Settled(row'))
  <2>1. CASE Mirrors(Settled(row'))
    BY <1>1, <1>3, <2>1 DEF SyncInv
  <2>2. CASE ~Mirrors(Settled(row'))
    <3>1. disturbed' = TRUE /\ sync' = [sync EXCEPT !.clean = FALSE]
      BY <1>3, <2>2 DEF Disturb
    <3>2. /\ sync' \in AnySync /\ sync'.at = sync.at /\ sync'.row = sync.row /\ sync'.clean = FALSE
      BY <1>1, <3>1 DEF SyncInv, AnySync
    <3>3. QED
      BY <3>1, <3>2
  <2>3. QED
    BY <2>1, <2>2
<1>7. DataInv'
  <2>1. GoodIssue(issue)' /\ GoodPulls'
    BY <1>1, <1>3 DEF DataInv, GoodPulls, OpenPulls
  <2>2. disturbed' \in BOOLEAN
    BY <1>1, <1>6 DEF DataInv
  <2>3. QED
    BY <1>1, <1>2, <1>3, <2>1, <2>2 DEF DataInv
<1>8. WriterInv'
  BY <1>3, <1>4, <1>5, NoWriterIsGood DEF WriterInv
<1>9. SyncInv'
  BY <1>1, <1>3, <1>6 DEF SyncInv
<1>10. MissingInv'
  BY <1>2, <1>3 DEF MissingInv
<1>11. OrderInv'
  <2>1. /\ IssueInOrder(deliveries) => IssueInOrder(deliveries)'
        /\ PullsInOrder(deliveries) => PullsInOrder(deliveries)'
    BY <1>3 DEF IssueInOrder, PullsInOrder, OpenPulls
  <2>2. QED
    BY <1>1, <1>3, <1>6, <2>1 DEF OrderInv
<1>12. MirrorInv'
  <2>1. SUFFICES ASSUME ~disturbed' PROVE Settles(row)'
    BY DEF MirrorInv
  <2>2. Mirrors(MirrorAll(row', deliveries))
    BY <1>6, <2>1 DEF Settled
  <2>3. row' \in GoodRows(last) /\ GoodDeliveries(deliveries, last)
    BY <1>1, <1>2, <1>4 DEF GoodRows, GoodRow, DataInv
  <2>4. PICK f : Traces(f, row', deliveries, last) /\ MirrorAll(row', deliveries) = f[Len(deliveries)]
    BY <2>3, MirrorTrace
  <2>5. PICK r : r = f[Len(deliveries)] /\ Mirrors(r)
    BY <2>2, <2>4
  <2>6. Mirrors(r)'
    BY <1>3, <2>5 DEF Mirrors, MirrorsIssue, MirrorsPull, OpenPulls
  <2>7. QED
    BY <1>3, <1>4, <2>4, <2>5, <2>6 DEF Settles
<1>13. QED
  BY <1>7, <1>8, <1>9, <1>10, <1>11, <1>12 DEF Inv

-----------------------------------------------------------------------------
(* Theorems. *)

LEMMA InitIsGood ==
  ASSUME Init
  PROVE  Inv
<1>1. /\ pulls = <<>> /\ suspended = FALSE /\ deliveries = <<>> /\ enabled = TRUE
      /\ writer = NoWriter /\ sync = NoSync /\ disturbed = FALSE /\ changes = 0 /\ faults = 0
  BY DEF Init
<1>2. Len(pulls) = 0 /\ Len(deliveries) = 0 /\ OpenPulls = {}
  BY <1>1 DEF OpenPulls
<1>3. 0 \in 0..MaxPulls /\ 0 \in Nat /\ GoodRow(NoRow, 0)
  BY NoRowIsGood, MirrorAssumption
<1>4. GoodIssue(issue) /\ GoodRow(row, 0) /\ MirrorsIssue(row) /\ row.pr = 0
      /\ (issue.state = "none" => row = NoRow)
  <2>1. CASE issue = Missing /\ row = NoRow
    <3>1. issue \in Issues /\ issue.labels = {} /\ NEXTIX \notin issue.labels
      BY <2>1 DEF Missing, Issues, IssueStates, Labels
    <3>2. row.pr = 0
      BY <2>1 DEF NoRow
    <3>3. QED
      BY <1>3, <2>1, <3>1, <3>2 DEF GoodIssue, MirrorsIssue
  <2>2. CASE /\ issue = [state |-> "open", labels |-> {NEXTIX}]
             /\ row = [NoRow EXCEPT !.state = "open", !.labels = {NEXTIX}]
    <3>1. issue \in Issues /\ issue.state = "open" /\ issue.labels = {NEXTIX}
      BY <2>2 DEF Issues, IssueStates, Labels
    <3>2. /\ row.state = "open" /\ row.labels = {NEXTIX} /\ row.pr = 0 /\ row.pr_state = "none"
          /\ row \in Rows
      BY <1>3, <2>2 DEF NoRow, Rows, IssueStates, PullStates, Labels
    <3>3. row # NoRow
      BY <3>2 DEF NoRow
    <3>4. QED
      BY <3>1, <3>2, <3>3 DEF GoodIssue, GoodRow, MirrorsIssue
  <2>3. QED
    BY <2>1, <2>2 DEF Init
<1>5. GoodPulls
  BY <1>1, <1>2, <1>3 DEF GoodPulls
<1>6. GoodDeliveries(deliveries, 0)
  BY <1>1, <1>2 DEF GoodDeliveries
<1>7. DataInv
  <2>1. GoodDeliveries(deliveries, Len(pulls)) /\ GoodRow(row, Len(pulls))
    BY <1>2, <1>4, <1>6
  <2>2. suspended \in BOOLEAN /\ enabled \in BOOLEAN /\ disturbed \in BOOLEAN
    BY <1>1
  <2>3. changes \in 0..MaxChanges /\ faults \in 0..MaxFaults
    BY <1>1, MirrorAssumption
  <2>4. QED
    BY <1>1, <1>4, <1>5, <2>1, <2>2, <2>3 DEF DataInv
<1>8. WriterInv
  BY <1>1, <1>2, <1>3, NoWriterIsGood DEF WriterInv
<1>9. SyncInv
  BY <1>1, <1>2, <1>3, NoSyncIsGood DEF SyncInv
<1>10. sync.at = "idle" /\ sync.row = NoRow /\ 1..Len(deliveries) = {}
  BY <1>1, <1>2 DEF NoSync
<1>11. MissingInv
  BY <1>1, <1>4, <1>10 DEF MissingInv
<1>12. OrderInv
  BY <1>10 DEF OrderInv, IssueInOrder, PullsInOrder
<1>13. MirrorInv
  <2>1. PICK f : f = [n \in 0..0 |-> row]
    OBVIOUS
  <2>2. f[0] = row /\ f \in [0..0 -> GoodRows(0)]
    BY <1>4, <2>1 DEF GoodRows, GoodRow
  <2>3. Traces(f, row, deliveries, Len(pulls))
    BY <1>2, <2>2 DEF Traces
  <2>4. MirrorsPull(row)
    BY <1>1, <1>4 DEF MirrorsPull
  <2>5. QED
    BY <1>2, <1>4, <2>2, <2>3, <2>4 DEF MirrorInv, Settles, Mirrors
<1>14. QED
  BY <1>7, <1>8, <1>9, <1>11, <1>12, <1>13 DEF Inv

LEMMA StutterKeeps ==
  ASSUME Inv, UNCHANGED vars
  PROVE  Inv'
BY DEF vars, Inv, DataInv, GoodPulls, WriterInv, SyncInv, MissingInv, OrderInv, IssueInOrder,
   PullsInOrder, MirrorInv, Settles, Traces, Mirrors, MirrorsIssue, MirrorsPull, OpenPulls

LEMMA Invariance == Spec => []Inv
<1>1. Init => Inv
  BY InitIsGood
<1>2. Inv /\ [Next]_vars => Inv'
  <2> SUFFICES ASSUME Inv, [Next]_vars PROVE Inv'
    OBVIOUS
  <2>1. CASE People
    BY <2>1, PeopleKeep
  <2>2. CASE Lose \/ Overtake
    BY <2>2, FaultsKeep
  <2>3. CASE Suspend \/ Unsuspend
    BY <2>3, SuspensionKeeps
  <2>4. CASE HandleDelivery
    BY <2>4, HandlersKeep
  <2>5. CASE SyncStart \/ SyncIssues \/ SyncFails
    BY <2>5, SyncReadsKeep
  <2>6. CASE SyncPulls
    BY <2>6, SyncPullsKeeps
  <2>7. CASE WriterCalls
    BY <2>7, WriterCallsKeep
  <2>8. CASE RemoveLabel
    BY <2>8, RemoveLabelKeeps
  <2>9. CASE WriterReads
    BY <2>9, WriterReadsKeeps
  <2>10. CASE WriterWrites
    BY <2>10, WriterWritesKeeps
  <2>11. CASE UNCHANGED vars
    BY <2>11, StutterKeeps
  <2>12. QED
    BY <2>1, <2>2, <2>3, <2>4, <2>5, <2>6, <2>7, <2>8, <2>9, <2>10, <2>11 DEF Next
<1>3. QED
  BY <1>1, <1>2, PTL DEF Spec

\* Every variable of the mirror stays in its range, and a ticket without a pull request has no
\* state of one, whoever writes it (tickets/service.py, sync.py, executor.py).
THEOREM TypeCorrect == Spec => []TypeOK
<1>1. Inv => TypeOK
  <2> SUFFICES ASSUME Inv PROVE TypeOK
    OBVIOUS
  <2>1. DataInv /\ WriterInv /\ SyncInv
    BY DEF Inv
  <2>2. issue \in [state: IssueStates, labels: SUBSET Labels]
    BY <2>1 DEF DataInv, GoodIssue, Issues
  <2>3. pulls \in Seq({"open", "closed", "merged"}) /\ Len(pulls) <= MaxPulls
    BY <2>1 DEF DataInv, GoodPulls
  <2>4. \A n \in DOMAIN deliveries : deliveries[n].kind \in {"issue", "pull", "suspend", "deleted", "unsuspend"}
    <3>1. PICK N \in Nat : N = Len(deliveries) /\ DOMAIN deliveries = 1..N
      BY <2>1 DEF DataInv, GoodDeliveries
    <3>2. \A n \in 1..N : deliveries[n] \in Deliveries
      BY <2>1, <3>1 DEF DataInv, GoodDeliveries, GoodDelivery
    <3>3. QED
      BY <3>1, <3>2 DEF Deliveries, Kinds
  <2>5. row \in Rows /\ (row.pr = 0 <=> row.pr_state = "none")
    BY <2>1 DEF DataInv, GoodRow
  <2>6. writer.at \in {"idle", "loaded", "called", "read"} /\ writer.row \in Rows /\ writer.pr \in 0..MaxPulls
    BY <2>1 DEF WriterInv, AnyWriter
  <2>7. sync.at \in {"idle", "issues", "pulls"} /\ sync.row \in Rows
    BY <2>1 DEF SyncInv, AnySync
  <2>8. QED
    BY <2>1, <2>2, <2>3, <2>4, <2>5, <2>6, <2>7 DEF TypeOK, DataInv
<1>2. QED
  BY <1>1, Invariance, PTL

\* When every delivery has been handled the ticket shows the issue and its pull request, unless a
\* delivery was lost or overtaken, the app was suspended, or a writer was overtaken, and no sync
\* has met an undisturbed GitHub since (tickets/service.py, webhooks.py, sync.py).
THEOREM QuietIsTrue == Spec => []QuietMirrorIsTrue
<1>1. Inv => QuietMirrorIsTrue
  <2> SUFFICES ASSUME Inv, Quiet, ~disturbed PROVE Mirrors(row)
    BY DEF QuietMirrorIsTrue
  <2>1. PICK f : Traces(f, row, deliveries, Len(pulls)) /\ Mirrors(f[Len(deliveries)])
    BY DEF Inv, MirrorInv, Settles
  <2>2. Len(deliveries) = 0
    BY DEF Quiet
  <2>3. QED
    BY <2>1, <2>2 DEF Traces
<1>2. QED
  BY <1>1, Invariance, PTL

\* Whatever the ticket was, a sync that GitHub does not overtake leaves it as GitHub has it, with
\* the open pull request or else the newest (sync_repo).
THEOREM SyncsRepair == Spec => SyncRepairs
<1>1. Inv /\ [Next]_vars
        => [sync.at = "pulls" /\ sync'.at = "idle" /\ sync.calm /\ ~suspended
              => Mirrors(row') /\ Newest(row')]_vars
  <2> SUFFICES ASSUME Inv, Next, sync.at = "pulls", sync'.at = "idle", sync.calm, ~suspended
               PROVE  Mirrors(row') /\ Newest(row')
    OBVIOUS
  <2>1. DataInv /\ SyncInv
    BY DEF Inv
  <2>2. SyncPulls
    <3>1. CASE People \/ WriterCalls \/ RemoveLabel
      <4>1. Calm
        BY <3>1 DEF People, WriterCalls, RemoveLabel
      <4>2. sync'.at = sync.at
        BY <2>1, <4>1, Calms
      <4>3. QED
        BY <4>2
    <3>2. CASE Lose \/ Overtake \/ WriterWrites
      <4>1. Disturb \/ sync' = sync
        BY <3>2 DEF Lose, Overtake, WriterWrites
      <4>2. sync'.at = sync.at
        BY <2>1, <4>1 DEF Disturb, SyncInv, AnySync
      <4>3. QED
        BY <4>2
    <3>3. CASE Suspend \/ Unsuspend \/ HandleDelivery \/ WriterReads
      BY <3>3 DEF Suspend, Unsuspend, HandleDelivery, WriterReads
    <3>4. CASE SyncStart \/ SyncIssues \/ SyncFails
      BY <3>4 DEF SyncStart, upsert_repo, SyncIssues, SyncFails
    <3>5. QED
      BY <3>1, <3>2, <3>3, <3>4 DEF Next
  <2>3. PICK new : new = LinkPulls(sync.row, pulls) /\ row' = new
    BY <2>2 DEF SyncPulls
  <2>4. /\ new = NoRow <=> sync.row = NoRow
        /\ new.state = sync.row.state /\ new.labels = sync.row.labels
        /\ MirrorsPull(new) /\ Newest(new)
    BY <2>1, <2>3, LinksMirror DEF DataInv, SyncInv
  <2>5. MirrorsIssue(sync.row)
    BY <2>1 DEF SyncInv
  <2>6. MirrorsIssue(new)
    BY <2>4, <2>5 DEF MirrorsIssue
  <2>7. QED
    BY <2>3, <2>4, <2>6 DEF Mirrors
<1>2. QED
  BY <1>1, Invariance, PTL DEF Spec, SyncRepairs
=============================================================================
