-------------------------- MODULE WebClientProofs ---------------------------
(***************************************************************************)
(* Proofs about WebClient, for every set of page sizes and of lists and    *)
(* every bound.                                                            *)
(***************************************************************************)
EXTENDS WebClient, TLAPS

USE WebClientAssumption

DialogRecord == [id : Instances, kind : Kinds]

-----------------------------------------------------------------------------
(***************************************************************************)
(* Sequences and arithmetic.                                               *)
(***************************************************************************)
LEMMA LastOfConcatenation ==
  ASSUME NEW S, NEW a \in Seq(S), NEW b \in Seq(S), b # << >>
  PROVE  a \o b # << >> /\ (a \o b)[Len(a \o b)] = b[Len(b)]
  OBVIOUS

LEMMA Removed ==
  ASSUME NEW S, NEW s \in Seq(S), NEW k \in DOMAIN s
  PROVE  /\ Without(s, k) \in Seq(S)
         /\ k # Len(s) => Without(s, k) # << >> /\ Without(s, k)[Len(Without(s, k))] = s[Len(s)]
  <1> DEFINE a == SubSeq(s, 1, k - 1)
             b == SubSeq(s, k + 1, Len(s))
  <1>1. k \in 1..Len(s) /\ Len(s) \in Nat
    OBVIOUS
  <1>2. a \in Seq(S) /\ Len(a) = k - 1
    BY <1>1
  <1>3. /\ b \in Seq(S) /\ Len(b) = Len(s) - k
        /\ \A i \in 1..(Len(s) - k) : b[i] = s[k + i]
    BY <1>1
  <1>4. Without(s, k) = a \o b
    BY DEF Without
  <1> HIDE DEF a, b
  <1>5. a \o b \in Seq(S) /\ Len(a \o b) = Len(s) - 1
    BY <1>1, <1>2, <1>3
  <1>6. ASSUME k # Len(s)
        PROVE  a \o b # << >> /\ (a \o b)[Len(a \o b)] = s[Len(s)]
    <2>1. PICK i \in Nat : i = Len(s) - k /\ k + i = Len(s) /\ i \in 1..i
      <3>1. /\ Len(s) - k \in Nat /\ k + (Len(s) - k) = Len(s)
            /\ Len(s) - k \in 1..(Len(s) - k)
        BY <1>1, <1>6
      <3> QED
        BY <3>1
    <2>2. Len(b) = i /\ b # << >>
      BY <1>3, <2>1
    <2>3. b[i] = s[Len(s)]
      BY <1>3, <2>1
    <2> QED
      BY <1>2, <1>3, <2>2, <2>3, LastOfConcatenation
  <1> QED
    BY <1>4, <1>5, <1>6

LEMMA Prefix ==
  ASSUME NEW S, NEW s \in Seq(S), NEW n \in 0..Len(s)
  PROVE  /\ SubSeq(s, 1, n) \in Seq(S) /\ Len(SubSeq(s, 1, n)) = n
         /\ \A k \in 1..n : SubSeq(s, 1, n)[k] = s[k]
  OBVIOUS

LEMMA Division ==
  ASSUME NEW x \in Nat, NEW d \in Nat \ {0}, NEW q \in Nat
  PROVE  x \div d = q <=> q * d <= x /\ x < q * d + d
  OBVIOUS

LEMMA DivisionType ==
  ASSUME NEW x \in Nat, NEW d \in Nat \ {0}
  PROVE  x \div d \in Nat
  OBVIOUS

LEMMA ProductType ==
  ASSUME NEW x \in Nat, NEW y \in Nat
  PROVE  x * y \in Nat
  OBVIOUS

LEMMA ProductOrder ==
  ASSUME NEW x \in Nat, NEW y \in Nat, x <= y, NEW z \in Nat
  PROVE  x * z <= y * z
  OBVIOUS

-----------------------------------------------------------------------------
(***************************************************************************)
(* The two halves of the page: the list, and the dialogs.                  *)
(***************************************************************************)
ListType ==
  /\ pageSize \in Sizes
  /\ requests \in Seq(Requests) /\ latest \in Requests
  /\ fate \in {"waiting", "answered", "failed", "overtaken"}
  /\ list \in [page : Nat, size : Sizes, asked : Sizes,
               rows : Seq(Nat), total : Nat, of : Nat]
  /\ buttons \in SUBSET [index : Nat, number : BOOLEAN]

DialogType ==
  /\ opening \in SUBSET DialogRecord
  /\ dialogs \in Seq(DialogRecord)
  /\ calls \in [Calls -> Nat]
  /\ overlay \in BOOLEAN /\ covers \in SUBSET Nat /\ hasty \in BOOLEAN

LEMMA TypesAreTwo == TypeOK <=> ListType /\ DialogType
  BY DEF TypeOK, ListType, DialogType, DialogRecord

\* A request that follows the latest is appended to it.
LatestIsLast ==
  fate = "waiting" => requests # << >> /\ requests[Len(requests)] = latest

\* The size asked for last is the one chosen, until the first page is there.
LatestFits ==
  latest.size = pageSize \/ (latest.page = 0 /\ latest.size >= pageSize)

ListInv ==
  /\ ListType /\ LatestIsLast /\ LatestFits
  /\ LatestAnswerIsShown /\ PagesTile /\ ButtonsLeadToRows

Load == \E page \in Nat : LoadData(page, pageSize) /\ UNCHANGED << pageSize, list, buttons >>

ListAction ==
  \/ UNCHANGED listVars
  \/ Load
  \/ \E size \in Sizes : ChangeSize(size)
  \/ \E k \in DOMAIN requests : ListFailed(k) \/ \E n \in RowCounts : ListAnswered(k, n)

\* What a step does to the list is one of these.
LEMMA ListActions == ListType /\ [Next]_vars => ListAction
  <1> SUFFICES ASSUME ListType, [Next]_vars PROVE ListAction
    OBVIOUS
  <1>1. CASE Search
    <2>1. 0 \in Nat
      OBVIOUS
    <2> QED
      BY <1>1, <2>1 DEF Search, Load, ListAction
  <1>2. ASSUME NEW b \in buttons, Press(b) PROVE ListAction
    <2>1. b.index \in Nat
      BY DEF ListType
    <2> QED
      BY <1>2, <2>1 DEF Press, Load, ListAction
  <1>3. ASSUME NEW p \in BOOLEAN, Callback(p) PROVE ListAction
    <2>1. 0 \in Nat
      OBVIOUS
    <2> QED
      BY <1>3, <2>1 DEF Callback, Load, ListAction
  <1>4. CASE AddNew \/ EditDetail \/ AddNewInPane \/ ViewDetail \/ Delete \/ Save \/ Dismiss
    BY <1>4 DEF AddNew, EditDetail, AddNewInPane, ViewDetail, OpenModal, Delete, Save, Dismiss,
                ListAction
  <1>5. CASE \E d \in opening : TemplateArrives(d) \/ TemplateLost(d)
    BY <1>5 DEF TemplateArrives, TemplateLost, ListAction
  <1>6. CASE Cross
    <2>1. 0 \in Nat
      OBVIOUS
    <2> QED
      BY <1>6, <2>1 DEF Cross, Callback, Load, ListAction
  <1>7. CASE \E result \in BOOLEAN : Confirm(result)
    BY <1>7 DEF Confirm, ListAction
  <1>8. CASE \E c \in Calls : Saved(c) \/ DetailFailed(c) \/ Deleted(c) \/ OtherAnswer(c)
    BY <1>3, <1>8 DEF Saved, DetailFailed, Deleted, OtherAnswer, ListAction
  <1>9. CASE UNCHANGED vars
    BY <1>9 DEF vars, ListAction
  <1>10. CASE \/ \E size \in Sizes : ChangeSize(size)
              \/ \E k \in DOMAIN requests : ListFailed(k) \/ \E n \in RowCounts : ListAnswered(k, n)
    BY <1>10 DEF ListAction
  <1> QED
    BY <1>1, <1>2, <1>4, <1>5, <1>6, <1>7, <1>8, <1>9, <1>10 DEF Next

-----------------------------------------------------------------------------
(***************************************************************************)
(* What the server answers, and what the page makes of it.                 *)
(***************************************************************************)
LEMMA PartOf ==
  ASSUME NEW S, NEW s \in Seq(S), NEW m \in Nat \ {0}, NEW n \in 0..Len(s)
  PROVE  /\ SubSeq(s, m, n) \in Seq(S)
         /\ Len(SubSeq(s, m, n)) = IF m <= n THEN n - m + 1 ELSE 0
         /\ \A k \in 1..Len(SubSeq(s, m, n)) : SubSeq(s, m, n)[k] = s[m + k - 1]
  OBVIOUS

\* What the server answers: p rows and one more are skipped.
IsAnswer(a, n, p, size) ==
  /\ a \in Seq(Nat)
  /\ n - p - 1 <= 0 => Len(a) = 0
  /\ n - p - 1 > 0 => Len(a) = Min2(size + 2, n - p - 1)
  /\ \A k \in 1..Len(a) : a[k] = p + 1 + k

LEMMA AnswerIs ==
  ASSUME NEW n \in Nat, NEW page \in Nat, NEW size \in Nat \ {0}
  PROVE  IsAnswer(Answer(n, page, size), n, page * size, size)
  <1> DEFINE p == page * size
  <1> DEFINE all == [i \in 1..n |-> i]
             from == p + 2
             skipped == SubSeq(all, from, Len(all))
             last == Min2(size + 2, Len(skipped))
  <1>1. p \in Nat /\ from \in Nat \ {0}
    BY ProductType
  <1>2. all \in Seq(Nat) /\ Len(all) = n /\ \A i \in 1..n : all[i] = i
    OBVIOUS
  <1>3. /\ skipped \in Seq(Nat)
        /\ Len(skipped) = IF from <= n THEN n - from + 1 ELSE 0
        /\ \A k \in 1..Len(skipped) : skipped[k] = all[from + k - 1]
    <2> HIDE DEF all, from
    <2>1. n \in 0..Len(all)
      BY <1>2
    <2>2. skipped = SubSeq(all, from, n)
      BY <1>2
    <2>3. PICK s \in Seq(Nat), f \in Nat \ {0} : s = all /\ f = from
      BY <1>1, <1>2
    <2>4. /\ SubSeq(s, f, n) \in Seq(Nat)
          /\ Len(SubSeq(s, f, n)) = IF f <= n THEN n - f + 1 ELSE 0
          /\ \A k \in 1..Len(SubSeq(s, f, n)) : SubSeq(s, f, n)[k] = s[f + k - 1]
      <3>1. n \in 0..Len(s)
        BY <2>1, <2>3
      <3> QED
        BY <3>1, PartOf
    <2>5. skipped = SubSeq(s, f, n)
      BY <2>2, <2>3
    <2> HIDE DEF skipped
    <2> QED
      BY <2>3, <2>4, <2>5
  <1>4. Answer(n, page, size) = SubSeq(skipped, 1, last)
    <2>1. DoSkip(all, page * size) = skipped
      BY DEF DoSkip
    <2>2. (size + 1) + 1 = size + 2
      OBVIOUS
    <2> QED
      BY <2>1, <2>2 DEF Answer, DoTake
  <1> HIDE DEF skipped
  <1>5. last \in 0..Len(skipped)
    <2>1. PICK n1 \in Nat : n1 = Len(skipped)
      BY <1>3
    <2>2. Min2(size + 2, n1) \in 0..n1
      BY DEF Min2
    <2> QED
      BY <2>1, <2>2
  <1> HIDE DEF last
  <1>6. /\ SubSeq(skipped, 1, last) \in Seq(Nat) /\ Len(SubSeq(skipped, 1, last)) = last
        /\ \A k \in 1..last : SubSeq(skipped, 1, last)[k] = skipped[k]
    <2>1. PICK r \in Seq(Nat) : r = skipped
      BY <1>3
    <2>2. PICK l \in 0..Len(r) : l = last
      BY <1>5, <2>1
    <2>3. /\ SubSeq(r, 1, l) \in Seq(Nat) /\ Len(SubSeq(r, 1, l)) = l
          /\ \A k \in 1..l : SubSeq(r, 1, l)[k] = r[k]
      BY Prefix
    <2> QED
      BY <2>1, <2>2, <2>3
  <1>7. \A k \in 1..last : skipped[k] = p + 1 + k
    <2> SUFFICES ASSUME NEW k \in 1..last PROVE skipped[k] = p + 1 + k
      OBVIOUS
    <2>1. k \in 1..Len(skipped)
      BY <1>3, <1>5
    <2>2. from + k - 1 \in 1..n /\ from + k - 1 = p + 1 + k
      BY <1>1, <1>3, <2>1
    <2> HIDE DEF from, all
    <2>3. skipped[k] = all[from + k - 1]
      BY <1>3, <2>1
    <2> QED
      BY <1>2, <2>2, <2>3
  <1>8. /\ n - p - 1 <= 0 => last = 0
        /\ n - p - 1 > 0 => last = Min2(size + 2, n - p - 1)
    BY <1>1, <1>3 DEF last, Min2
  <1> QED
    BY <1>4, <1>6, <1>7, <1>8 DEF IsAnswer

-----------------------------------------------------------------------------
(***************************************************************************)
(* The list.                                                               *)
(***************************************************************************)
LEMMA InitList == Init => ListInv
  <1> SUFFICES ASSUME Init PROVE ListInv
    OBVIOUS
  <1>1. latest \in Requests /\ latest.page = 0 /\ latest.size = DefaultSize
    BY DEF Init, Request, Requests
  <1>2. requests \in Seq(Requests) /\ requests # << >> /\ requests[Len(requests)] = latest
    BY <1>1 DEF Init
  <1>3. pageSize \in Sizes /\ pageSize <= DefaultSize
    BY DEF Init
  <1>4. /\ list = [page |-> 0, size |-> pageSize, asked |-> DefaultSize,
                   rows |-> << >>, total |-> 0, of |-> 0]
        /\ buttons = {} /\ fate = "waiting"
    BY DEF Init
  <1>5. ListType
    BY <1>1, <1>2, <1>3, <1>4 DEF ListType
  <1>6. LatestIsLast /\ LatestAnswerIsShown /\ ButtonsLeadToRows
    BY <1>2, <1>4 DEF LatestIsLast, LatestAnswerIsShown, ButtonsLeadToRows
  <1>7. LatestFits
    BY <1>1, <1>3 DEF LatestFits
  <1>8. PagesTile
    <2>1. list.of = 0 /\ list.rows = << >>
      BY <1>4
    <2> QED
      BY <2>1 DEF PagesTile
  <1> QED
    BY <1>5, <1>6, <1>7, <1>8 DEF ListInv

LEMMA LoadList ==
  ASSUME ListInv, NEW page \in Nat, NEW size \in Sizes, LoadData(page, size),
         pageSize' = size, UNCHANGED << list, buttons >>
  PROVE  ListInv'
  <1>1. /\ latest' = Request(page, size) /\ requests' = Append(requests, latest')
        /\ fate' = "waiting"
    BY DEF LoadData
  <1>2. latest' \in Requests /\ latest'.page = page /\ latest'.size = size
    BY <1>1 DEF Request, Requests
  <1>3. PICK r \in Requests : r = latest'
    BY <1>2
  <1>4. requests' = Append(requests, r) /\ requests \in Seq(Requests)
    BY <1>1, <1>3 DEF ListInv, ListType
  <1>5. /\ requests' \in Seq(Requests) /\ requests' # << >>
        /\ requests'[Len(requests')] = r
    BY <1>4
  <1>6. ListType'
    BY <1>1, <1>2, <1>5 DEF ListInv, ListType, Requests
  <1>7. LatestIsLast' /\ LatestFits' /\ LatestAnswerIsShown'
    BY <1>1, <1>2, <1>3, <1>5 DEF LatestIsLast, LatestFits, LatestAnswerIsShown
  <1>8. PagesTile' /\ ButtonsLeadToRows'
    BY DEF ListInv, PagesTile, ButtonsLeadToRows, Fits
  <1> QED
    BY <1>6, <1>7, <1>8 DEF ListInv

\* The fate of the latest request when request k is settled.
LEMMA Settled ==
  ASSUME ListInv, NEW k \in DOMAIN requests, NEW outcome \in {"answered", "failed"},
         Settle(k, outcome), UNCHANGED << pageSize, latest >>
  PROVE  /\ requests' \in Seq(Requests)
         /\ fate' \in {"waiting", "answered", "failed", "overtaken"}
         /\ LatestIsLast' /\ LatestFits'
         /\ fate' = "answered" =>
              \/ outcome = "answered" /\ requests[k] = latest
              \/ outcome = "failed" /\ fate = "answered"
  <1>1. /\ requests' = Without(requests, k)
        /\ fate' = CASE fate = "waiting" /\ k = Len(requests) -> outcome
                     [] fate # "waiting" /\ outcome = "answered" -> "overtaken"
                     [] OTHER -> fate
    BY DEF Settle
  <1>2. requests \in Seq(Requests) /\ fate \in {"waiting", "answered", "failed", "overtaken"}
    BY DEF ListInv, ListType
  <1>3. /\ requests' \in Seq(Requests)
        /\ k # Len(requests) =>
             requests' # << >> /\ requests'[Len(requests')] = requests[Len(requests)]
    BY <1>1, <1>2, Removed
  <1>4. CASE fate = "waiting" /\ k = Len(requests)
    <2>1. fate' = outcome /\ requests[k] = latest
      BY <1>1, <1>4 DEF ListInv, LatestIsLast
    <2> QED
      BY <1>3, <2>1 DEF LatestIsLast, ListInv, LatestFits
  <1>5. CASE fate = "waiting" /\ k # Len(requests)
    <2>1. fate' = "waiting"
      BY <1>1, <1>5
    <2> QED
      BY <1>3, <1>5, <2>1 DEF LatestIsLast, ListInv, LatestFits
  <1>6. CASE fate # "waiting"
    <2>1. fate' = IF outcome = "answered" THEN "overtaken" ELSE fate
      BY <1>1, <1>6
    <2> QED
      BY <1>2, <1>3, <1>6, <2>1 DEF LatestIsLast, ListInv, LatestFits
  <1> QED
    BY <1>4, <1>5, <1>6

LEMMA FailedList ==
  ASSUME ListInv, NEW k \in DOMAIN requests, ListFailed(k)
  PROVE  ListInv'
  <1>1. Settle(k, "failed") /\ UNCHANGED << pageSize, latest, list, buttons >>
    BY DEF ListFailed
  <1>2. /\ requests' \in Seq(Requests)
        /\ fate' \in {"waiting", "answered", "failed", "overtaken"}
        /\ LatestIsLast' /\ LatestFits'
        /\ fate' = "answered" => fate = "answered"
    BY <1>1, Settled
  <1>3. ListType'
    BY <1>1, <1>2 DEF ListInv, ListType
  <1>4. LatestAnswerIsShown' /\ PagesTile' /\ ButtonsLeadToRows'
    BY <1>1, <1>2 DEF ListInv, LatestAnswerIsShown, PagesTile, ButtonsLeadToRows, Fits
  <1> QED
    BY <1>2, <1>3, <1>4 DEF ListInv

\* The rows, when the list was asked for in pages of the size shown.
ArePageOf(rows, n, p, size) ==
  /\ rows \in Seq(Nat)
  /\ Len(rows) = IF n - p - 1 <= 0 THEN 0 ELSE Min2(size, n - p - 1)
  /\ \A k \in 1..Len(rows) : rows[k] = p + 1 + k

AllOfPage(rows, n, page, size) ==
  \A i \in 2..n : (i - 2) \div size = page <=> \E k \in DOMAIN rows : rows[k] = i

LEMMA Tiling ==
  ASSUME NEW n \in Nat, NEW page \in Nat, NEW size \in Nat \ {0}, NEW rows,
         ArePageOf(rows, n, page * size, size)
  PROVE  AllOfPage(rows, n, page, size)
  <1> DEFINE p == page * size
  <1>1. p \in Nat /\ rows \in Seq(Nat) /\ DOMAIN rows = 1..Len(rows) /\ Len(rows) \in Nat
    BY ProductType DEF ArePageOf
  <1>0. /\ Len(rows) = IF n - p - 1 <= 0 THEN 0 ELSE Min2(size, n - p - 1)
        /\ \A k \in 1..Len(rows) : rows[k] = p + 1 + k
    BY DEF ArePageOf
  <1> SUFFICES ASSUME NEW i \in 2..n
               PROVE  (i - 2) \div size = page <=> \E k \in DOMAIN rows : rows[k] = i
    BY DEF AllOfPage
  <1>2. (i - 2) \div size = page <=> p <= i - 2 /\ i - 2 < p + size
    <2>1. i - 2 \in Nat
      OBVIOUS
    <2> QED
      BY <2>1, Division
  <1> HIDE DEF p
  <1>3. ASSUME p <= i - 2, i - 2 < p + size
        PROVE  \E k \in DOMAIN rows : rows[k] = i
    <2>1. i - p - 1 \in 1..Len(rows)
      BY <1>0, <1>1, <1>3 DEF Min2
    <2>2. p + 1 + (i - p - 1) = i
      BY <1>1
    <2>3. rows[i - p - 1] = i
      BY <1>0, <2>1, <2>2
    <2>4. PICK j : j = i - p - 1
      OBVIOUS
    <2>5. j \in DOMAIN rows /\ rows[j] = i
      BY <1>1, <2>1, <2>3, <2>4
    <2> QED
      BY <2>5
  <1>4. ASSUME NEW k \in DOMAIN rows, rows[k] = i
        PROVE  p <= i - 2 /\ i - 2 < p + size
    <2>1. i = p + 1 + k /\ k \in 1..Len(rows)
      BY <1>0, <1>1, <1>4
    <2>2. Len(rows) <= size
      BY <1>0, <1>1 DEF Min2
    <2>3. k \in Nat /\ 1 <= k /\ k <= size
      BY <1>1, <2>1, <2>2
    <2>4. i = p + 1 + k /\ p \in Nat
      BY <1>1, <2>1
    <2> QED
      BY <2>3, <2>4
  <1> QED
    BY <1>2, <1>3, <1>4

\* The buttons of a page that has rows, in pages of the size asked for.
LEMMA PagesOfTotal ==
  ASSUME NEW size \in Nat \ {0}, NEW page \in Nat, NEW e \in {0, 1}
  PROVE  TotalPages(size * (page + 1) + e, size) = page + 1 + e
  <1> DEFINE x == (size * (page + 1) + e) + size - 1
             q == page + 1 + e
  <1>1. size * (page + 1) \in Nat
    BY ProductType
  <1>2. x \in Nat /\ q \in Nat
    BY <1>1
  <1>3. q * size <= x /\ x < q * size + size
    <2>1. CASE e = 0
      BY <1>1, <2>1
    <2>2. CASE e = 1
      BY <1>1, <2>2
    <2> QED
      BY <2>1, <2>2
  <1> HIDE DEF x, q
  <1>4. x \div size = q
    BY <1>2, <1>3, Division
  <1> QED
    BY <1>4 DEF x, q, TotalPages

\* The pages that the buttons under one of several pages ask for.
ArePagesOf(P, page, pages) ==
  /\ \A x \in P : x \in 0..(pages - 1) /\ (x <= page \/ page < pages - 1)
  /\ page > 0 => {0, page - 1} \subseteq P
  /\ page < pages - 1 => page + 1 \in P

LEMMA ButtonPagesOf ==
  ASSUME NEW page \in Nat, NEW total, NEW size, NEW pages \in Nat, page < pages,
         pages = TotalPages(total, size)
  PROVE  /\ Pagination(page, total, size) \in SUBSET [index : Nat, number : BOOLEAN]
         /\ ArePagesOf({b.index : b \in Pagination(page, total, size)}, page, pages)
  <1> DEFINE half == ButtonPages \div 2
             startAt == IF page > half THEN page - half ELSE 0
             numbered == startAt..(Min2(startAt + ButtonPages, pages) - 1)
             more == page < pages - 1
             B == Pagination(page, total, size)
             P == {b.index : b \in B}
  <1>1. half \in Nat
    BY DivisionType
  <1>2. startAt \in 0..page
    <2> HIDE DEF half
    <2> QED
      BY <1>1
  <1> HIDE DEF half, startAt
  <1>3. \A i \in numbered : i \in 0..(pages - 1)
    BY <1>2 DEF Min2
  <1>4. startAt = 0 => 0 \in numbered
    BY <1>2 DEF Min2
  <1>5. \A i, n : Button(i, n).index = i /\ Button(i, n).number = n
    BY DEF Button
  <1>6. \A b : b \in B <=>
               \/ b = Button(0, FALSE) /\ startAt > 0
               \/ b = Button(page - 1, FALSE) /\ page > 0
               \/ \E i \in numbered : b = Button(i, TRUE)
               \/ b = Button(page + 1, FALSE) /\ more
               \/ b = Button(pages - 1, FALSE) /\ more /\ 2 * page < 2 * pages - ButtonPages
    BY DEF Pagination, half, startAt
  <1> HIDE DEF numbered, B
  <1>7. \A b \in B : b \in [index : 0..(pages - 1), number : BOOLEAN]
    <2> SUFFICES ASSUME NEW b \in B PROVE b \in [index : 0..(pages - 1), number : BOOLEAN]
      OBVIOUS
    <2>1. /\ 0 \in 0..(pages - 1) /\ pages - 1 \in 0..(pages - 1)
          /\ page > 0 => page - 1 \in 0..(pages - 1)
          /\ more => page + 1 \in 0..(pages - 1)
      OBVIOUS
    <2> HIDE DEF more
    <2>2. PICK i, n : b = Button(i, n) /\ i \in 0..(pages - 1) /\ n \in BOOLEAN
      BY <1>3, <1>6, <2>1, Zenon
    <2> QED
      BY <2>2 DEF Button
  <1>8. \A p \in P : p <= page \/ more
    <2> SUFFICES ASSUME NEW p \in P, ~more PROVE p <= page
      OBVIOUS
    <2>1. p \in 0..(pages - 1)
      BY <1>7
    <2> QED
      BY <2>1
  <1>9. ASSUME page > 0 PROVE 0 \in P /\ page - 1 \in P
    <2>1. page - 1 \in P
      BY <1>5, <1>6, <1>9
    <2>2. CASE startAt > 0
      BY <1>5, <1>6, <2>1, <2>2
    <2>3. CASE startAt = 0
      <3>1. Button(0, TRUE) \in B
        BY <1>4, <1>6, <2>3
      <3> QED
        BY <1>5, <2>1, <3>1
    <2> QED
      BY <1>2, <2>2, <2>3
  <1>10. ASSUME more PROVE page + 1 \in P
    BY <1>5, <1>6, <1>10
  <1>11. B \in SUBSET [index : Nat, number : BOOLEAN]
    BY <1>7
  <1>12. \A p \in P : p \in 0..(pages - 1)
    BY <1>7
  <1> QED
    BY <1>8, <1>9, <1>10, <1>11, <1>12 DEF B, ArePagesOf

LEMMA AnsweredList ==
  ASSUME ListInv, NEW k \in DOMAIN requests, NEW n \in RowCounts, ListAnswered(k, n)
  PROVE  ListInv'
  <1>1. /\ Settle(k, "answered") /\ UNCHANGED << pageSize, latest >>
        /\ list' = InitializeData(requests[k],
                     Answer(n, requests[k].page, requests[k].size), n)
        /\ buttons' = (IF list'.rows = << >> /\ list.rows = << >> THEN buttons
                       ELSE Pagination(list'.page, list'.total, pageSize))
    BY DEF ListAnswered
  <1>2. /\ requests' \in Seq(Requests)
        /\ fate' \in {"waiting", "answered", "failed", "overtaken"}
        /\ LatestIsLast' /\ LatestFits'
        /\ fate' = "answered" => requests[k] = latest
    BY <1>1, Settled
  <1>3. PICK q \in Requests : q = requests[k]
    BY DEF ListInv, ListType
  <1>4. PICK page \in Nat, asked \in Sizes, size \in Sizes :
          page = q.page /\ asked = q.size /\ size = pageSize
    BY DEF ListInv, ListType, Requests
  <1>5. asked \in Nat \ {0} /\ size \in Nat \ {0} /\ n \in Nat
    OBVIOUS
  <1>6. PICK d, p : d = Answer(n, page, asked) /\ p = page * asked
    OBVIOUS
  <1>7. /\ d \in Seq(Nat)
        /\ n - p - 1 <= 0 => Len(d) = 0
        /\ n - p - 1 > 0 => Len(d) = Min2(asked + 2, n - p - 1)
        /\ \A i \in 1..Len(d) : d[i] = p + 1 + i
        /\ p \in Nat
    <2>1. IsAnswer(d, n, p, asked)
      BY <1>5, <1>6, AnswerIs
    <2> QED
      BY <1>5, <1>6, <2>1, ProductType DEF IsAnswer
  <1> DEFINE rows == SubSeq(d, 1, Min2(size, Len(d)))
             e == IF Len(d) > size THEN 1 ELSE 0
             total == size * (page + 1) + e
  <1>8. /\ list'.page = page /\ list'.size = size /\ list'.asked = asked
        /\ list'.rows = rows /\ list'.total = total /\ list'.of = n
    BY <1>1, <1>3, <1>4, <1>6 DEF InitializeData
  <1>9. Min2(size, Len(d)) \in 0..Len(d)
    BY <1>5, <1>7 DEF Min2
  <1>10. /\ rows \in Seq(Nat) /\ Len(rows) = Min2(size, Len(d))
         /\ \A i \in 1..Len(rows) : rows[i] = p + 1 + i
    <2>1. PICK m \in 0..Len(d) : m = Min2(size, Len(d))
      BY <1>9
    <2>2. /\ SubSeq(d, 1, m) \in Seq(Nat) /\ Len(SubSeq(d, 1, m)) = m
          /\ \A i \in 1..m : SubSeq(d, 1, m)[i] = d[i]
      <3>1. d \in Seq(Nat)
        BY <1>7
      <3> QED
        BY <3>1, Prefix
    <2>3. rows = SubSeq(d, 1, m)
      BY <2>1
    <2>4. \A i \in 1..m : i \in 1..Len(d)
      BY <1>7
    <2> HIDE DEF rows
    <2>5. /\ rows \in Seq(Nat) /\ Len(rows) = m
          /\ \A i \in 1..m : rows[i] = d[i]
      BY <2>2, <2>3
    <2> QED
      BY <1>7, <2>1, <2>4, <2>5
  <1>11. total \in Nat /\ e \in {0, 1}
    <2>1. size * (page + 1) \in Nat
      BY <1>5, ProductType
    <2> QED
      BY <2>1
  <1>12. TotalPages(total, size) = page + 1 + e
    BY <1>5, <1>11, PagesOfTotal
  <1> HIDE DEF rows, total
  <1>13. buttons' \in SUBSET [index : Nat, number : BOOLEAN]
    <2> DEFINE B == Pagination(page, total, size)
    <2>1. B \in SUBSET [index : Nat, number : BOOLEAN]
      <3>1. page + 1 + e \in Nat /\ page < page + 1 + e
        BY <1>11
      <3> QED
        BY <1>12, <3>1, ButtonPagesOf
    <2>2. buttons' = buttons \/ buttons' = B
      BY <1>1, <1>4, <1>8
    <2> HIDE DEF B
    <2> QED
      BY <2>1, <2>2 DEF ListInv, ListType
  <1>14. ListType'
    <2>1. list' = [page |-> page, size |-> size, asked |-> asked, rows |-> rows,
                   total |-> total, of |-> n]
      BY <1>1, <1>3, <1>4, <1>6 DEF InitializeData, rows, total
    <2>2. list' \in [page : Nat, size : Sizes, asked : Sizes,
                     rows : Seq(Nat), total : Nat, of : Nat]
      BY <1>5, <1>10, <1>11, <2>1
    <2> QED
      BY <1>1, <1>2, <1>13, <2>2 DEF ListInv, ListType
  <1>15. LatestAnswerIsShown'
    <2> SUFFICES ASSUME fate' = "answered" PROVE LatestAnswerIsShown'
      BY DEF LatestAnswerIsShown
    <2>1. q = latest
      BY <1>2, <1>3
    <2>2. asked = size \/ (page = 0 /\ asked >= size)
      BY <1>4, <2>1 DEF ListInv, LatestFits
    <2> QED
      BY <1>1, <1>4, <1>8, <2>1, <2>2 DEF LatestAnswerIsShown, Fits
  <1>16. ASSUME Fits'
         PROVE  /\ p = page * size
                /\ Len(rows) = IF n - p - 1 <= 0 THEN 0 ELSE Min2(size, n - p - 1)
                /\ e = 1 <=> n - p - 1 > size
    <2>1. asked = size \/ (page = 0 /\ asked >= size)
      BY <1>8, <1>16 DEF Fits
    <2>2. p = page * size
      <3>1. CASE asked = size
        BY <1>6, <3>1
      <3>2. CASE page = 0
        BY <1>5, <1>6, <3>2
      <3> QED
        BY <2>1, <3>1, <3>2
    <2>3. asked >= size
      BY <1>5, <2>1
    <2>4. /\ Len(rows) = IF n - p - 1 <= 0 THEN 0 ELSE Min2(size, n - p - 1)
          /\ e = 1 <=> n - p - 1 > size
      <3>1. PICK l \in Nat : l = Len(d)
        BY <1>7
      <3>2. PICK m \in Int : m = n - p - 1
        BY <1>5, <1>7
      <3>3. /\ m <= 0 => l = 0
            /\ m > 0 => l = IF asked + 2 <= m THEN asked + 2 ELSE m
        BY <1>7, <3>1, <3>2 DEF Min2
      <3>4. Len(rows) = (IF size <= l THEN size ELSE l) /\ e = IF l > size THEN 1 ELSE 0
        BY <1>10, <3>1 DEF Min2
      <3>5. /\ Len(rows) = IF m <= 0 THEN 0 ELSE IF size <= m THEN size ELSE m
            /\ e = 1 <=> m > size
        <4> HIDE DEF e
        <4> QED
          BY <1>5, <2>3, <3>3, <3>4
      <3> QED
        BY <3>2, <3>5 DEF Min2
    <2> QED
      BY <2>2, <2>4
  <1>17. PagesTile'
    <2> SUFFICES ASSUME Fits' PROVE PagesTile'
      BY DEF PagesTile
    <2>1. \A i \in 1..Len(rows) : rows[i] = p + 1 + i
      BY <1>10, <1>16
    <2>2. \A i \in 2..n : (i - 2) \div size = page <=> \E j \in DOMAIN rows : rows[j] = i
      <3>1. p = page * size /\ ArePageOf(rows, n, p, size)
        BY <1>10, <1>16, <2>1 DEF ArePageOf
      <3>2. ArePageOf(rows, n, page * size, size)
        BY <3>1
      <3>3. AllOfPage(rows, n, page, size)
        BY <1>5, <3>2, Tiling
      <3> QED
        BY <3>3 DEF AllOfPage
    <2>3. DOMAIN rows = 1..Len(rows)
      BY <1>10
    <2> QED
      BY <1>8, <1>16, <2>1, <2>2, <2>3 DEF PagesTile
  <1>18. ButtonsLeadToRows'
    <2> SUFFICES ASSUME Fits', rows # << >> PROVE ButtonsLeadToRows'
      BY <1>8 DEF ButtonsLeadToRows
    <2> DEFINE P == {b.index : b \in Pagination(page, total, size)}
    <2>1. buttons' = Pagination(page, total, size)
      BY <1>1, <1>4, <1>8
    <2>2. PICK pages \in Nat : pages = page + 1 + e /\ ArePagesOf(P, page, pages)
      <3>1. PICK pages \in Nat : pages = page + 1 + e /\ page < pages
        BY <1>11
      <3>2. pages = TotalPages(total, size)
        BY <1>12, <3>1
      <3>3. ArePagesOf(P, page, pages)
        BY <3>1, <3>2, ButtonPagesOf
      <3> HIDE DEF e, P
      <3> QED
        BY <3>1, <3>3
    <2> HIDE DEF P, e
    <2>3. p = page * size /\ n - p - 1 > 0
      <3>1. Len(rows) # 0
        BY <1>10
      <3> QED
        BY <1>16, <3>1
    <2>4. ASSUME NEW x \in P, x # page
          PROVE  x * size + 2 <= n
      <3>1. x \in Nat
        BY <2>2 DEF ArePagesOf
      <3>2. CASE x < page
        <4>1. x * size <= page * size /\ x * size \in Nat
          BY <1>5, <3>1, <3>2, ProductOrder, ProductType
        <4> QED
          BY <1>5, <1>7, <2>3, <4>1
      <3>3. CASE ~(x < page)
        <4>1. e = 1 /\ x = page + 1
          BY <1>11, <2>2, <2>4, <3>3 DEF ArePagesOf
        <4>2. n - p - 1 > size
          BY <1>16, <4>1
        <4>3. x * size = p + size
          BY <1>5, <2>3, <4>1
        <4> QED
          BY <1>5, <1>7, <4>2, <4>3
      <3> QED
        BY <3>2, <3>3
    <2>5. ASSUME n >= (page + 1) * size + 2
          PROVE  page + 1 \in P
      <3>1. (page + 1) * size = p + size
        BY <1>5, <2>3
      <3>2. n - p - 1 > size
        BY <1>5, <1>7, <2>5, <3>1
      <3>3. e = 1
        BY <1>16, <3>2
      <3> QED
        BY <2>2, <3>3 DEF ArePagesOf
    <2>6. {b.index : b \in buttons'} = P
      BY <2>1 DEF P
    <2> QED
      BY <1>8, <2>2, <2>4, <2>5, <2>6 DEF ButtonsLeadToRows, ArePagesOf
  <1> QED
    BY <1>2, <1>14, <1>15, <1>17, <1>18 DEF ListInv

LEMMA NextList == ListInv /\ [Next]_vars => ListInv'
  <1> SUFFICES ASSUME ListInv, [Next]_vars PROVE ListInv'
    OBVIOUS
  <1>1. ListAction
    BY ListActions DEF ListInv
  <1>2. CASE UNCHANGED listVars
    BY <1>2 DEF listVars, ListInv, ListType, LatestIsLast, LatestFits, LatestAnswerIsShown,
                PagesTile, ButtonsLeadToRows, Fits
  <1>3. ASSUME NEW page \in Nat, LoadData(page, pageSize), UNCHANGED << pageSize, list, buttons >>
        PROVE  ListInv'
    <2>1. PICK size \in Sizes : size = pageSize
      BY DEF ListInv, ListType
    <2> QED
      BY <1>3, <2>1, LoadList
  <1>4. ASSUME NEW size \in Sizes, ChangeSize(size) PROVE ListInv'
    <2>1. LoadData(0, size) /\ pageSize' = size /\ UNCHANGED << list, buttons >>
      BY <1>4 DEF ChangeSize
    <2> QED
      BY <2>1, LoadList
  <1>5. ASSUME NEW k \in DOMAIN requests, ListFailed(k) PROVE ListInv'
    BY <1>5, FailedList
  <1>6. ASSUME NEW k \in DOMAIN requests, NEW n \in RowCounts, ListAnswered(k, n) PROVE ListInv'
    BY <1>6, AnsweredList
  <1> QED
    BY <1>1, <1>2, <1>3, <1>4, <1>5, <1>6 DEF ListAction, Load

LEMMA ListIsInvariant == Spec => []ListInv
  BY InitList, NextList, PTL DEF Spec

\* After the latest request was answered, the page shows its answer in pages of
\* the size chosen, whatever the order of the answers before it.
THEOREM LatestIsShown == Spec => []LatestAnswerIsShown
  <1>1. ListInv => LatestAnswerIsShown
    BY DEF ListInv
  <1> QED
    BY <1>1, ListIsInvariant, PTL

\* The pages deal out the rows after the first: none twice and none forgotten,
\* for lists of every length and pages of every size.
THEOREM PagesDealTheRows == Spec => []PagesTile
  <1>1. ListInv => PagesTile
    BY DEF ListInv
  <1> QED
    BY <1>1, ListIsInvariant, PTL

\* No button of a list with rows leads to an empty page, and the neighbours of
\* the page shown have one, for every number of buttons.
THEOREM ButtonsAreUseful == Spec => []ButtonsLeadToRows
  <1>1. ListInv => ButtonsLeadToRows
    BY DEF ListInv
  <1> QED
    BY <1>1, ListIsInvariant, PTL

-----------------------------------------------------------------------------
(***************************************************************************)
(* The dialogs and their overlays.                                         *)
(***************************************************************************)
Shape == dialogs \in Seq(DialogRecord) /\ overlay \in BOOLEAN /\ OverlayIffDialog

CanClose(c) == c.type # "delete" /\ calls[c] > 0

Quiet == \A c \in Calls : ~CanClose(c)

\* As long as no click was hasty, one thing at a time is under way, and it is
\* about the top dialog.
OneAtATime ==
  ~hasty =>
    /\ \A d \in opening : opening = {d} /\ Quiet
    /\ \A c \in Calls : CanClose(c) =>
         /\ dialogs # << >> /\ c.id = Top.id /\ calls[c] = 1
         /\ \A b \in Calls : CanClose(b) => b = c

DialogInv ==
  /\ opening \in SUBSET DialogRecord /\ calls \in [Calls -> Nat] /\ hasty \in BOOLEAN
  /\ Shape /\ OneAtATime

LEMMA CallsOf ==
  ASSUME NEW t \in CallTypes, NEW id \in Instances
  PROVE  Call(t, id) \in Calls /\ Call(t, id).type = t /\ Call(t, id).id = id
  BY DEF Call, Calls

LEMMA CallIs ==
  ASSUME NEW c \in Calls
  PROVE  c.type \in CallTypes /\ c.id \in Instances /\ c = Call(c.type, c.id)
  BY DEF Call, Calls

LEMMA TopType ==
  ASSUME Shape, dialogs # << >>
  PROVE  Top \in DialogRecord /\ Top.id \in Instances
  <1>1. PICK s \in Seq(DialogRecord) : s = dialogs
    BY DEF Shape
  <1>2. s[Len(s)] \in DialogRecord
    BY <1>1
  <1>3. \A d \in DialogRecord : d.id \in Instances
    BY DEF DialogRecord
  <1> QED
    BY <1>1, <1>2, <1>3 DEF Top

LEMMA NewIdType == Free # {} => NewId \in Instances
  BY DEF NewId, Free

LEMMA LastAppended ==
  ASSUME NEW S, NEW s \in Seq(S), NEW e \in S
  PROVE  /\ Append(s, e) \in Seq(S) /\ Len(Append(s, e)) = Len(s) + 1
         /\ Append(s, e) # << >> /\ Append(s, e)[Len(Append(s, e))] = e
  OBVIOUS

LEMMA PushKeepsShape ==
  ASSUME Shape, NEW d \in DialogRecord, PushDialog(d)
  PROVE  Shape' /\ dialogs' # << >> /\ Top' = d
  <1>1. PICK s \in Seq(DialogRecord) : s = dialogs
    BY DEF Shape
  <1>2. PICK t : t = Append(s, d)
    OBVIOUS
  <1>3. t \in Seq(DialogRecord) /\ Len(t) = Len(s) + 1 /\ t # << >> /\ t[Len(t)] = d
    BY <1>2, LastAppended
  <1>4. dialogs' = t
    BY <1>1, <1>2 DEF PushDialog
  <1>5. overlay'
    BY <1>1 DEF PushDialog, Shape, OverlayIffDialog
  <1>6. covers' = 1..(Len(t) - 1)
    <2>1. covers = 1..(Len(s) - 1) /\ covers' = covers \cup (1..Len(s) \cap {Len(s)})
      BY <1>1 DEF PushDialog, Shape, OverlayIffDialog
    <2>2. Len(s) \in Nat
      OBVIOUS
    <2> QED
      BY <1>3, <2>1, <2>2
  <1> QED
    BY <1>3, <1>4, <1>5, <1>6 DEF Shape, OverlayIffDialog, Top

LEMMA PopKeepsShape ==
  ASSUME Shape, PopDialog
  PROVE  Shape' /\ (dialogs' # dialogs => dialogs' = SubSeq(dialogs, 1, Len(dialogs) - 1))
  <1>1. CASE dialogs = << >>
    BY <1>1 DEF PopDialog, Shape, OverlayIffDialog
  <1>2. CASE dialogs # << >>
    <2>1. PICK s \in Seq(DialogRecord) : s = dialogs
      BY DEF Shape
    <2>2. Len(s) \in Nat \ {0} /\ Len(s) - 1 \in 0..Len(s)
      BY <1>2, <2>1
    <2>3. PICK t : t = SubSeq(s, 1, Len(s) - 1)
      OBVIOUS
    <2>4. t \in Seq(DialogRecord) /\ Len(t) = Len(s) - 1
      <3>1. PICK n \in 0..Len(s) : n = Len(s) - 1
        BY <2>2
      <3>2. SubSeq(s, 1, n) \in Seq(DialogRecord) /\ Len(SubSeq(s, 1, n)) = n
        BY Prefix
      <3> QED
        BY <2>3, <3>1, <3>2
    <2>5. /\ dialogs' = t
          /\ overlay' = (IF Len(s) = 1 THEN ~overlay ELSE overlay)
          /\ covers' = covers \ {Len(s) - 1}
      BY <1>2, <2>1, <2>3 DEF PopDialog
    <2>6. overlay /\ covers = 1..(Len(s) - 1)
      BY <1>2, <2>1 DEF Shape, OverlayIffDialog
    <2>7. overlay' \in BOOLEAN /\ (overlay' <=> t # << >>)
      <3>1. CASE Len(s) = 1
        <4>1. overlay' = FALSE
          BY <2>5, <2>6, <3>1, Zenon
        <4>2. t = << >>
          BY <2>4, <3>1
        <4> QED
          BY <4>1, <4>2
      <3>2. CASE Len(s) # 1
        <4>1. overlay' = overlay
          BY <2>5, <3>2, Zenon
        <4>2. t # << >>
          BY <2>2, <2>4, <3>2
        <4> QED
          BY <2>6, <4>1, <4>2 DEF Shape
      <3> QED
        BY <3>1, <3>2
    <2>8. covers' = 1..(Len(t) - 1)
      BY <2>2, <2>4, <2>5, <2>6
    <2> QED
      BY <2>1, <2>3, <2>4, <2>5, <2>7, <2>8 DEF Shape, OverlayIffDialog
  <1> QED
    BY <1>1, <1>2

-----------------------------------------------------------------------------
(***************************************************************************)
(* What a click, a template and an answer find.                            *)
(***************************************************************************)
\* A click that is not hasty finds nothing under way.
LEMMA CalmClick ==
  ASSUME DialogInv, Click, ~hasty'
  PROVE  ~hasty /\ opening = {} /\ Quiet
  <1>1. ~hasty /\ opening = {} /\ ~(dialogs # << >> /\ Waiting(Top.id) > 0)
    BY DEF Click, DialogInv
  <1>2. ASSUME NEW c \in Calls, CanClose(c) PROVE FALSE
    <2>1. dialogs # << >> /\ c.id = Top.id /\ calls[c] = 1
      BY <1>1, <1>2 DEF DialogInv, OneAtATime
    <2>2. c.type \in {"save", "pane", "detail"} /\ c.id \in Instances /\ c = Call(c.type, c.id)
      BY <1>2, CallIs DEF CallTypes, CanClose
    <2>3. /\ calls[Call("save", c.id)] \in Nat /\ calls[Call("pane", c.id)] \in Nat
          /\ calls[Call("detail", c.id)] \in Nat
      <3>1. \A t \in CallTypes : Call(t, c.id) \in Calls
        BY <2>2, CallsOf
      <3> QED
        BY <3>1 DEF DialogInv, CallTypes
    <2>4. Waiting(c.id) > 0
      BY <2>1, <2>2, <2>3 DEF Waiting
    <2> QED
      BY <1>1, <2>1, <2>4
  <1> QED
    BY <1>1, <1>2 DEF Quiet

\* A step of the dialogs that leaves nothing under way.
LEMMA StaysCalm ==
  ASSUME opening' = {}, Quiet'
  PROVE  OneAtATime'
  BY DEF OneAtATime, Quiet

LEMMA SameCalls == ASSUME calls' = calls PROVE Quiet => Quiet'
  BY DEF Quiet, CanClose

\* One more call of an instance.
LEMMA Increased ==
  ASSUME calls \in [Calls -> Nat], NEW t \in CallTypes, NEW id \in Instances,
         calls' = [calls EXCEPT ![Call(t, id)] = @ + 1]
  PROVE  /\ calls' \in [Calls -> Nat]
         /\ \A c \in Calls : c # Call(t, id) => calls'[c] = calls[c]
         /\ calls'[Call(t, id)] = calls[Call(t, id)] + 1
  <1>1. PICK k \in Calls : k = Call(t, id)
    BY CallsOf
  <1>2. calls' = [calls EXCEPT ![k] = @ + 1]
    BY <1>1
  <1> QED
    BY <1>1, <1>2

LEMMA Decreased ==
  ASSUME calls \in [Calls -> Nat], NEW k \in Calls, Answered(k)
  PROVE  /\ calls' \in [Calls -> Nat]
         /\ \A c \in Calls : c # k => calls'[c] = calls[c]
         /\ calls[k] > 0 /\ calls'[k] = calls[k] - 1
  <1>1. calls[k] \in Nat /\ calls[k] > 0 /\ calls' = [calls EXCEPT ![k] = calls[k] - 1]
    BY DEF Answered
  <1>2. calls[k] - 1 \in Nat
    BY <1>1
  <1> QED
    BY <1>1, <1>2

\* The first call about the top dialog.
LEMMA FirstCall ==
  ASSUME calls \in [Calls -> Nat], Quiet, opening' = {}, dialogs' # << >>,
         NEW t \in CallTypes, NEW id \in Instances, t # "delete", id = Top'.id,
         calls' = [calls EXCEPT ![Call(t, id)] = @ + 1]
  PROVE  OneAtATime'
  <1>1. PICK k \in Calls : k = Call(t, id) /\ k.type = t /\ k.id = id
    <2>1. Call(t, id) \in Calls /\ Call(t, id).type = t /\ Call(t, id).id = id
      BY CallsOf
    <2> QED
      BY <2>1
  <1>2. /\ \A c \in Calls : c # k => calls'[c] = calls[c]
        /\ calls'[k] = calls[k] + 1
    BY <1>1, Increased
  <1>3. calls[k] = 0
    BY <1>1 DEF Quiet, CanClose
  <1>4. \A c \in Calls : CanClose(c)' => c = k
    BY <1>2 DEF Quiet, CanClose
  <1> QED
    BY <1>1, <1>2, <1>3, <1>4 DEF OneAtATime

-----------------------------------------------------------------------------
(***************************************************************************)
(* The steps of the dialogs.                                               *)
(***************************************************************************)
LEMMA InitDialogs == Init => DialogInv
  <1> SUFFICES ASSUME Init PROVE DialogInv
    OBVIOUS
  <1>1. /\ opening = {} /\ dialogs = << >> /\ calls = [c \in Calls |-> 0]
        /\ overlay = FALSE /\ covers = {} /\ hasty = FALSE
    BY DEF Init
  <1>2. Shape
    <2>1. Len(dialogs) = 0 /\ dialogs \in Seq(DialogRecord)
      BY <1>1
    <2>2. 1..(0 - 1) = {}
      OBVIOUS
    <2>3. covers = 1..(Len(dialogs) - 1)
      BY <1>1, <2>1, <2>2
    <2>4. ~overlay /\ overlay \in BOOLEAN
      BY <1>1
    <2> QED
      BY <1>1, <2>1, <2>3, <2>4 DEF Shape, OverlayIffDialog
  <1>3. OneAtATime
    BY <1>1 DEF OneAtATime, CanClose
  <1> QED
    BY <1>1, <1>2, <1>3 DEF DialogInv

LEMMA NewDialogType ==
  ASSUME Free # {}, NEW kind \in Kinds
  PROVE  Dialog(NewId, kind) \in DialogRecord
  BY NewIdType DEF Dialog, DialogRecord

LEMMA SameDialogs ==
  ASSUME DialogInv, UNCHANGED dialogVars
  PROVE  DialogInv'
  BY DEF DialogInv, dialogVars, Shape, OverlayIffDialog, OneAtATime, CanClose, Quiet, Top

LEMMA ModalOpens ==
  ASSUME DialogInv, NEW kind \in Kinds, OpenModal(kind)
  PROVE  DialogInv'
  <1>1. PICK d \in DialogRecord : d = Dialog(NewId, kind)
    BY NewDialogType DEF OpenModal
  <1>2. /\ opening' = opening \cup {d} /\ Click
        /\ dialogs' = dialogs /\ calls' = calls /\ overlay' = overlay /\ covers' = covers
    BY <1>1 DEF OpenModal
  <1>3. hasty' \in BOOLEAN /\ Shape'
    BY <1>2 DEF DialogInv, Click, Shape, OverlayIffDialog
  <1>4. ASSUME ~hasty' PROVE opening' = {d} /\ Quiet'
    BY <1>2, <1>4, CalmClick DEF Quiet, CanClose
  <1>5. OneAtATime'
    BY <1>4 DEF OneAtATime, Quiet
  <1> QED
    BY <1>2, <1>3, <1>5 DEF DialogInv

LEMMA DeleteAsks ==
  ASSUME DialogInv, Delete
  PROVE  DialogInv'
  <1>1. PICK d \in DialogRecord : d = Dialog(NewId, "confirm")
    BY NewDialogType DEF Delete, Kinds
  <1>2. PushDialog(d) /\ Click /\ opening' = opening /\ calls' = calls
    BY <1>1 DEF Delete
  <1>3. hasty' \in BOOLEAN /\ Shape'
    BY <1>2, PushKeepsShape DEF DialogInv, Click
  <1>4. OneAtATime'
    <2> SUFFICES ASSUME ~hasty' PROVE OneAtATime'
      BY DEF OneAtATime
    <2> QED
      BY <1>2, CalmClick, SameCalls, StaysCalm
  <1> QED
    BY <1>2, <1>3, <1>4 DEF DialogInv

LEMMA ModalIsShown ==
  ASSUME DialogInv, NEW d \in opening, TemplateArrives(d)
  PROVE  DialogInv'
  <1>1. /\ opening' = opening \ {d} /\ PushDialog(d) /\ hasty' = hasty
        /\ calls' = (IF d.kind = "detail"
                     THEN [calls EXCEPT ![Call("detail", d.id)] = @ + 1] ELSE calls)
    BY DEF TemplateArrives
  <1>2. d \in DialogRecord /\ d.id \in Instances
    BY DEF DialogInv, DialogRecord
  <1>3. Shape' /\ dialogs' # << >> /\ Top' = d
    BY <1>1, <1>2, PushKeepsShape DEF DialogInv
  <1>4. calls' \in [Calls -> Nat]
    BY <1>1, <1>2, Increased DEF DialogInv, CallTypes
  <1>5. OneAtATime'
    <2> SUFFICES ASSUME ~hasty' PROVE OneAtATime'
      BY DEF OneAtATime
    <2>1. opening' = {} /\ Quiet
      BY <1>1 DEF DialogInv, OneAtATime
    <2>2. CASE d.kind = "detail"
      BY <1>1, <1>2, <1>3, <2>1, <2>2, FirstCall DEF DialogInv, CallTypes
    <2>3. CASE d.kind # "detail"
      BY <1>1, <2>1, <2>3, SameCalls, StaysCalm
    <2> QED
      BY <2>2, <2>3
  <1> QED
    BY <1>1, <1>3, <1>4, <1>5 DEF DialogInv

LEMMA ModalIsLost ==
  ASSUME DialogInv, NEW d \in opening, TemplateLost(d)
  PROVE  DialogInv'
  <1>1. /\ opening' = opening \ {d}
        /\ UNCHANGED << dialogs, calls, overlay, covers, hasty >>
    BY DEF TemplateLost
  <1>2. Shape'
    BY <1>1 DEF DialogInv, Shape, OverlayIffDialog
  <1>3. OneAtATime'
    <2> SUFFICES ASSUME ~hasty' PROVE OneAtATime'
      BY DEF OneAtATime
    <2> QED
      BY <1>1, SameCalls, StaysCalm DEF DialogInv, OneAtATime
  <1> QED
    BY <1>1, <1>2, <1>3 DEF DialogInv

LEMMA SaveIsSent ==
  ASSUME DialogInv, Save
  PROVE  DialogInv'
  <1>1. PICK t \in {"save", "pane"} : calls' = [calls EXCEPT ![Call(t, Top.id)] = @ + 1]
    BY DEF Save
  <1>2. /\ dialogs # << >> /\ Click
        /\ UNCHANGED << opening, dialogs, overlay, covers >>
    BY DEF Save
  <1>3. PICK id \in Instances : id = Top.id
    BY <1>2, TopType DEF DialogInv
  <1>4. t \in CallTypes /\ t # "delete" /\ calls' = [calls EXCEPT ![Call(t, id)] = @ + 1]
    BY <1>1, <1>3 DEF CallTypes
  <1>5. calls' \in [Calls -> Nat] /\ hasty' \in BOOLEAN /\ Shape'
    BY <1>2, <1>4, Increased DEF DialogInv, Click, Shape, OverlayIffDialog
  <1>6. OneAtATime'
    <2> SUFFICES ASSUME ~hasty' PROVE OneAtATime'
      BY DEF OneAtATime
    <2>1. opening' = {} /\ Quiet /\ dialogs' # << >> /\ id = Top'.id
      BY <1>2, <1>3, CalmClick DEF Top
    <2> QED
      BY <1>4, <2>1, FirstCall DEF DialogInv
  <1> QED
    BY <1>2, <1>5, <1>6 DEF DialogInv

\* Dismiss, Cross and Confirm: a click that closes the top dialog.
LEMMA ClickCloses ==
  ASSUME DialogInv, Click, PopDialog, UNCHANGED opening,
         calls' \in [Calls -> Nat],
         \A c \in Calls : c.type # "delete" => calls'[c] = calls[c]
  PROVE  DialogInv'
  <1>1. hasty' \in BOOLEAN /\ Shape'
    BY PopKeepsShape DEF DialogInv, Click
  <1>2. OneAtATime'
    <2> SUFFICES ASSUME ~hasty' PROVE OneAtATime'
      BY DEF OneAtATime
    <2>1. opening' = {} /\ Quiet
      BY CalmClick
    <2>2. Quiet'
      BY <2>1 DEF Quiet, CanClose
    <2> QED
      BY <2>1, <2>2, StaysCalm
  <1> QED
    BY <1>1, <1>2 DEF DialogInv

LEMMA Confirmed ==
  ASSUME DialogInv, NEW result \in BOOLEAN, Confirm(result)
  PROVE  DialogInv'
  <1>1. /\ dialogs # << >> /\ Click /\ PopDialog /\ UNCHANGED opening
        /\ calls' = (IF result THEN [calls EXCEPT ![Call("delete", Top.id)] = @ + 1]
                     ELSE calls)
    BY DEF Confirm
  <1>2. PICK id \in Instances : id = Top.id
    BY <1>1, TopType DEF DialogInv
  <1>3. "delete" \in CallTypes /\ Call("delete", id).type = "delete"
    BY DEF CallTypes, Call
  <1>4. /\ calls' \in [Calls -> Nat]
        /\ \A c \in Calls : c # Call("delete", id) => calls'[c] = calls[c]
    BY <1>1, <1>2, <1>3, Increased DEF DialogInv
  <1>5. \A c \in Calls : c.type # "delete" => calls'[c] = calls[c]
    BY <1>3, <1>4
  <1> QED
    BY <1>1, <1>4, <1>5, ClickCloses

\* An answer that closes a dialog: it was the only thing under way.
LEMMA AnswerCloses ==
  ASSUME DialogInv, NEW c \in Calls, c.type # "delete", Answered(c), PopDialog
  PROVE  DialogInv'
  <1>1. /\ calls' \in [Calls -> Nat] /\ calls[c] > 0 /\ calls'[c] = calls[c] - 1
        /\ \A b \in Calls : b # c => calls'[b] = calls[b]
        /\ opening' = opening /\ hasty' = hasty
    BY Decreased DEF DialogInv, Answered
  <1>2. Shape'
    BY PopKeepsShape DEF DialogInv
  <1>3. OneAtATime'
    <2> SUFFICES ASSUME ~hasty' PROVE OneAtATime'
      BY DEF OneAtATime
    <2>1. CanClose(c)
      BY <1>1 DEF CanClose
    <2>2. opening' = {}
      BY <1>1, <2>1 DEF DialogInv, OneAtATime, Quiet
    <2>3. calls[c] = 1 /\ \A b \in Calls : CanClose(b) => b = c
      BY <1>1, <2>1 DEF DialogInv, OneAtATime
    <2>4. Quiet'
      BY <1>1, <2>3 DEF Quiet, CanClose
    <2> QED
      BY <2>2, <2>4, StaysCalm
  <1> QED
    BY <1>1, <1>2, <1>3 DEF DialogInv

LEMMA AnswerLeavesDialogs ==
  ASSUME DialogInv, NEW c \in Calls, Answered(c), UNCHANGED << dialogs, overlay, covers >>
  PROVE  DialogInv'
  <1>1. /\ calls' \in [Calls -> Nat] /\ calls[c] > 0 /\ calls'[c] = calls[c] - 1
        /\ \A b \in Calls : b # c => calls'[b] = calls[b]
        /\ opening' = opening /\ hasty' = hasty
    BY Decreased DEF DialogInv, Answered
  <1>2. Shape'
    BY DEF DialogInv, Shape, OverlayIffDialog
  <1>3. \A b \in Calls : CanClose(b)' => CanClose(b) /\ (calls[b] = 1 => b # c /\ calls'[b] = 1)
    <2>1. \A b \in Calls : calls[b] \in Nat /\ calls'[b] \in Nat
      BY <1>1 DEF DialogInv
    <2> QED
      BY <1>1, <2>1 DEF CanClose
  <1>4. OneAtATime'
    BY <1>1, <1>3 DEF DialogInv, OneAtATime, Quiet, Top
  <1> QED
    BY <1>1, <1>2, <1>4 DEF DialogInv

\* Everything a step can be for the dialogs; Press and the answers to the list
\* leave them alone.
LEMMA NextDialogs == DialogInv /\ [Next]_vars => DialogInv'
  <1> SUFFICES ASSUME DialogInv, [Next]_vars PROVE DialogInv'
    OBVIOUS
  <1>1. CASE \/ Search
             \/ \E b \in buttons : Press(b)
             \/ \E size \in Sizes : ChangeSize(size)
             \/ \E k \in DOMAIN requests :
                  ListFailed(k) \/ \E n \in RowCounts : ListAnswered(k, n)
             \/ UNCHANGED vars
    <2>1. UNCHANGED dialogVars
      BY <1>1 DEF Search, Press, ChangeSize, ListFailed, ListAnswered, vars
    <2> QED
      BY <2>1, SameDialogs
  <1>2. CASE AddNew \/ EditDetail \/ AddNewInPane \/ ViewDetail
    BY <1>2, ModalOpens DEF AddNew, EditDetail, AddNewInPane, ViewDetail, Kinds
  <1>3. CASE Delete
    BY <1>3, DeleteAsks
  <1>4. CASE \E d \in opening : TemplateArrives(d) \/ TemplateLost(d)
    BY <1>4, ModalIsShown, ModalIsLost
  <1>5. CASE Save
    BY <1>5, SaveIsSent
  <1>6. CASE Dismiss \/ Cross
    <2>1. Click /\ PopDialog /\ UNCHANGED << opening, calls >>
      BY <1>6 DEF Dismiss, Cross
    <2>2. calls' \in [Calls -> Nat] /\ \A c \in Calls : calls'[c] = calls[c]
      BY <2>1 DEF DialogInv
    <2> QED
      BY <2>1, <2>2, ClickCloses
  <1>7. CASE \E result \in BOOLEAN : Confirm(result)
    BY <1>7, Confirmed
  <1>8. ASSUME NEW c \in Calls, Saved(c) \/ DetailFailed(c) PROVE DialogInv'
    <2>1. c.type # "delete" /\ Answered(c) /\ PopDialog
      BY <1>8 DEF Saved, DetailFailed
    <2> QED
      BY <2>1, AnswerCloses
  <1>9. ASSUME NEW c \in Calls, Deleted(c) \/ OtherAnswer(c) PROVE DialogInv'
    <2>1. Answered(c) /\ UNCHANGED << dialogs, overlay, covers >>
      BY <1>9 DEF Deleted, OtherAnswer
    <2> QED
      BY <2>1, AnswerLeavesDialogs
  <1> QED
    BY <1>1, <1>2, <1>3, <1>4, <1>5, <1>6, <1>7, <1>8, <1>9 DEF Next

\* A call is answered in one of four ways; two of them close a dialog.
LEMMA AnswersClose ==
  ASSUME DialogInv, [Next]_vars, NEW c \in Calls, calls'[c] < calls[c], dialogs' # dialogs
  PROVE  c.type # "delete" /\ Answered(c) /\ PopDialog
  <1>1. \A b \in Calls : calls[b] \in Nat
    BY DEF DialogInv
  <1>2. calls' # calls
    BY <1>1
  <1>3. ASSUME NEW t \in CallTypes, NEW id \in Instances,
               calls' = [calls EXCEPT ![Call(t, id)] = @ + 1]
        PROVE  FALSE
    <2>1. calls'[c] = calls[c] \/ calls'[c] = calls[c] + 1
      BY <1>3, Increased DEF DialogInv
    <2> QED
      BY <1>1, <2>1
  <1>4. ASSUME NEW d \in opening, TemplateArrives(d) PROVE FALSE
    <2>1. d.id \in Instances /\ "detail" \in CallTypes
      BY DEF DialogInv, DialogRecord, CallTypes
    <2> QED
      BY <1>2, <1>3, <1>4, <2>1 DEF TemplateArrives
  <1>5. ASSUME NEW result \in BOOLEAN, Confirm(result) PROVE FALSE
    <2>1. Top.id \in Instances /\ "delete" \in CallTypes
      BY <1>5, TopType DEF Confirm, DialogInv, CallTypes
    <2> QED
      BY <1>2, <1>3, <1>5, <2>1 DEF Confirm
  <1>6. ASSUME NEW b \in Calls, Answered(b) PROVE b = c
    <2>1. b # c => calls'[c] = calls[c]
      BY <1>6, Decreased DEF DialogInv
    <2> QED
      BY <1>1, <2>1
  <1>7. PICK b \in Calls : Saved(b) \/ DetailFailed(b)
    BY <1>2, <1>4, <1>5 DEF Next, vars, dialogVars, Search, Press, ChangeSize, ListFailed,
       ListAnswered, AddNew, EditDetail, AddNewInPane, ViewDetail, OpenModal, Delete,
       TemplateLost, Save, Dismiss, Cross, Deleted, OtherAnswer
  <1>8. b.type # "delete" /\ Answered(b) /\ PopDialog
    BY <1>7 DEF Saved, DetailFailed
  <1> QED
    BY <1>6, <1>8

LEMMA DialogsAreInvariant == Spec => []DialogInv
  BY InitDialogs, NextDialogs, PTL DEF Spec

\* Every reachable state has the types of WebClient.TypeOK: the page and the
\* dialogs, whatever becomes of the requests.
THEOREM TypeCorrectness == Spec => []TypeOK
  <1>1. ListInv /\ DialogInv => TypeOK
    <2> SUFFICES ASSUME ListInv, DialogInv PROVE TypeOK
      OBVIOUS
    <2>1. Len(dialogs) - 1 \in Int
      BY DEF DialogInv, Shape
    <2>2. covers \in SUBSET Nat
      BY <2>1 DEF DialogInv, Shape, OverlayIffDialog
    <2> QED
      BY <2>2, TypesAreTwo DEF ListInv, DialogInv, DialogType, Shape
  <1> QED
    BY <1>1, ListIsInvariant, DialogsAreInvariant, PTL

\* The overlay is shown exactly while a dialog is, and every dialog but the top
\* one is covered once, in whatever order templates, clicks and answers come.
THEOREM OverlaysAreRight == Spec => []OverlayIffDialog
  <1>1. DialogInv => OverlayIffDialog
    BY DEF DialogInv, Shape
  <1> QED
    BY <1>1, DialogsAreInvariant, PTL

\* popDialog never closes the wrong dialog while no click was hasty: the answer
\* that closes one is about the top one, which is all that is closed.
THEOREM TheRightDialogCloses == Spec => OnlyHasteClosesTheWrongDialog
  <1> DEFINE RightOne ==
        \A c \in Calls :
          calls'[c] < calls[c] /\ ~hasty /\ dialogs' # dialogs =>
            Top.id = c.id /\ dialogs' = SubSeq(dialogs, 1, Len(dialogs) - 1)
  <1>1. DialogInv /\ [Next]_vars => RightOne
    <2> SUFFICES ASSUME DialogInv, [Next]_vars, NEW c \in Calls,
                        calls'[c] < calls[c], ~hasty, dialogs' # dialogs
                 PROVE  Top.id = c.id /\ dialogs' = SubSeq(dialogs, 1, Len(dialogs) - 1)
      OBVIOUS
    <2>1. c.type # "delete" /\ Answered(c) /\ PopDialog
      BY AnswersClose
    <2>2. CanClose(c)
      BY <2>1 DEF CanClose, Answered
    <2>3. Top.id = c.id
      BY <2>2 DEF DialogInv, OneAtATime
    <2> QED
      BY <2>1, <2>3, PopKeepsShape DEF DialogInv
  <1> QED
    BY <1>1, DialogsAreInvariant, PTL DEF Spec, OnlyHasteClosesTheWrongDialog
=============================================================================
