--------------------------- MODULE MailboxProofs ---------------------------
(* Safety of Mailbox for every number of people, envelopes and pages.      *)
EXTENDS Mailbox, FiniteSetTheorems, WellFoundedInduction, TLAPS

(* A set of numbers that is not empty has a least one, and a greatest one  *)
(* if it is bounded.                                                       *)
LEMMA Least ==
    ASSUME NEW S \in SUBSET Nat, S # {}
    PROVE  \E m \in S : \A j \in S : m <= j
<1> DEFINE R == OpToRel(<, Nat)
<1>1. IsWellFoundedOn(R, Nat)
    BY NatLessThanWellFounded
<1>2. \A x, y \in Nat : x < y => <<x, y>> \in R
    BY DEF OpToRel
<1> HIDE DEF R
<1>3. PICK m \in S : \A j \in S : ~ (<<j, m>> \in R)
    BY <1>1, WFMin
<1>4. ASSUME NEW j \in S PROVE m <= j
  <2>1. j \in Nat /\ m \in Nat
      OBVIOUS
  <2>2. ~(j < m)
      BY <1>2, <1>3, <2>1
  <2> QED BY <2>1, <2>2
<1> QED BY <1>4

LEMMA Greatest ==
    ASSUME NEW S \in SUBSET Nat, S # {}, NEW n \in Nat, \A j \in S : j <= n
    PROVE  \E m \in S : \A j \in S : j <= m
<1> DEFINE U == {u \in Nat : \A j \in S : j <= u}
<1>1. PICK m \in U : \A u \in U : m <= u
    BY Least
<1>2. m \in S
  <2> SUFFICES ASSUME m \notin S PROVE FALSE
      OBVIOUS
  <2>1. m \in Nat /\ \A j \in S : j <= m /\ j # m
      BY <1>1
  <2>2. m # 0
    <3>1. PICK j \in S : j \in Nat
        OBVIOUS
    <3>2. j <= m /\ j # m
        BY <2>1
    <3> QED BY <3>1, <3>2
  <2>3. m - 1 \in Nat /\ \A j \in S : j <= m - 1
      BY <2>1, <2>2
  <2>4. m <= m - 1
      BY <1>1, <2>3
  <2> QED BY <2>1, <2>4
<1> QED BY <1>1, <1>2

LEMMA LastOfIs ==
    ASSUME NEW S, NEW m \in S, S \subseteq Nat, \A j \in S : j <= m
    PROVE  LastOf(S) = m
<1>1. LastOf(S) \in S /\ \A j \in S : j <= LastOf(S)
    BY DEF LastOf
<1>2. LastOf(S) \in Nat /\ m \in Nat /\ LastOf(S) <= m /\ m <= LastOf(S)
    BY <1>1
<1> QED BY <1>2

LEMMA LastOfNone == LastOf({}) = 0
BY DEF LastOf

(* A page has no hole: it is the beginning of the rows it is taken from.   *)
LEMMA PageIsBeginning ==
    ASSUME NEW S \in SUBSET Nat, IsFiniteSet(S), NEW n \in Nat,
           NEW i \in Smallest(S, n), NEW j \in S, j <= i
    PROVE  j \in Smallest(S, n)
<1> DEFINE A == {k \in S : k < i}
           B == {k \in S : k < j}
<1>1. i \in S /\ Cardinality(A) < n
    BY DEF Smallest
<1>2. B \in SUBSET A /\ A \in SUBSET S
  <2>1. i \in Nat /\ j \in Nat /\ \A k \in S : k \in Nat
      BY <1>1
  <2>2. \A k \in S : k < j => k < i
      BY <2>1
  <2> QED BY <2>2
<1>3. IsFiniteSet(A)
    BY <1>2, FS_Subset
<1>4. IsFiniteSet(B) /\ Cardinality(B) <= Cardinality(A)
    BY <1>2, <1>3, FS_Subset
<1>5. Cardinality(A) \in Nat /\ Cardinality(B) \in Nat
    BY <1>3, <1>4, FS_CardinalityType
<1>6. Cardinality(B) < n
    BY <1>1, <1>4, <1>5
<1> QED BY <1>6 DEF Smallest

(* The rows of a page, and its next_after.                                 *)
LEMMA PageRows ==
    ASSUME TypeOK, NEW r \in Readers, NEW after \in Nat
    PROVE  LET page == ListAfter(r, after)
           IN  /\ page.todo \subseteq {i \in DOMAIN box : box[i].to = r /\ after < i}
               /\ \A i \in page.todo : \A j \in DOMAIN box :
                     box[j].to = r /\ after < j /\ j <= i => j \in page.todo
               /\ page.next \in Nat
               /\ page.todo # {} /\ page.next # 0 =>
                     /\ page.next \in page.todo
                     /\ \A i \in page.todo : i <= page.next
<1> DEFINE rest == {i \in DOMAIN box : box[i].to = r /\ i > after}
           page == Smallest(rest, Page)
           next == IF Cardinality(rest) > Page THEN LastOf(page) ELSE 0
<1>1. ListAfter(r, after).todo = page /\ ListAfter(r, after).next = next
    BY DEF ListAfter
<1>2. Len(box) \in Nat /\ DOMAIN box = 1..Len(box) /\ Page \in Nat
    BY MailboxAssumption DEF TypeOK
<1>3. rest \in SUBSET Nat /\ rest \in SUBSET (1..Len(box)) /\ page \subseteq rest
    BY <1>2 DEF Smallest
<1>4. IsFiniteSet(rest)
  <2>1. IsFiniteSet(1..Len(box))
      BY <1>2, FS_Interval
  <2> HIDE DEF rest
  <2> QED BY <2>1, <1>3, FS_Subset
<1>5. ASSUME NEW i \in page, NEW j \in DOMAIN box, box[j].to = r, after < j, j <= i
      PROVE  j \in page
  <2>1. j \in rest
      BY <1>2, <1>5
  <2> QED BY <2>1, <1>2, <1>3, <1>4, <1>5, PageIsBeginning
<1>6. CASE page = {}
  <2>1. next = 0
      BY <1>6, LastOfNone
  <2> QED BY <2>1, <1>1, <1>6
<1>7. CASE page # {}
  <2>1. PICK m \in page : \A j \in page : j <= m
    <3>1. page \in SUBSET Nat /\ \A j \in page : j <= Len(box)
        BY <1>2, <1>3
    <3> HIDE DEF page
    <3> QED BY <3>1, <1>2, <1>7, Greatest
  <2>2. page \subseteq Nat /\ m \in Nat
      BY <1>3
  <2>3. LastOf(page) = m
      BY <2>1, <2>2, LastOfIs
  <2>4. next \in Nat /\ (next # 0 => next = m)
      BY <2>2, <2>3
  <2>5. page \subseteq {i \in DOMAIN box : box[i].to = r /\ after < i}
      BY <1>2, <1>3
  <2> QED BY <2>1, <2>4, <2>5, <1>1, <1>5
<1> QED BY <1>6, <1>7

-----------------------------------------------------------------------------
(* What IInv says of one reader.                                           *)
Ends(r) == files[r] # {} => \E m \in files[r] : \A j \in files[r] : j <= m
Complete(r) == files[r] = {i \in DOMAIN box : box[i].to = r /\ i <= LastFile(r)}
GoesOn(r) ==
    pull[r] # NoPull /\ pull[r].mode = "files" =>
        /\ cursor[r]["files"] = 0
        /\ \A i \in pull[r].todo : LastFile(r) < i
        /\ \A i \in pull[r].todo : \A j \in DOMAIN box :
              box[j].to = r /\ LastFile(r) < j /\ j <= i => j \in pull[r].todo
        /\ pull[r].next # 0 =>
              IF pull[r].todo = {} THEN pull[r].next = LastFile(r)
              ELSE pull[r].next \in pull[r].todo /\ \A i \in pull[r].todo : i <= pull[r].next
AtLast(r) == "files" \in Modes => cursor[r]["files"] \in {0, LastFile(r)}
ReaderOk(r) == Ends(r) /\ Complete(r) /\ GoesOn(r) /\ AtLast(r)

LEMMA ByReader == IInv <=> TypeOK /\ \A r \in Readers : ReaderOk(r)
BY DEF IInv, FilesEnd, PagesComplete, PageGoesOn, CursorIsLast, ReaderOk, Ends, Complete,
       GoesOn, AtLast

LEMMA ByReaderNext == IInv' <=> TypeOK' /\ \A r \in Readers : ReaderOk(r)'
BY DEF IInv, FilesEnd, PagesComplete, PageGoesOn, CursorIsLast, ReaderOk, Ends, Complete,
       GoesOn, AtLast

LEMMA LastFileIs ==
    ASSUME TypeOK, NEW r \in Readers, Ends(r)
    PROVE  /\ LastFile(r) \in Nat /\ \A j \in files[r] : j <= LastFile(r)
           /\ files[r] = {} => LastFile(r) = 0
           /\ files[r] # {} => LastFile(r) \in files[r]
           /\ LastFile(r) # 0 => LastFile(r) \in DOMAIN box
           /\ DOMAIN box = 1..Len(box) /\ Len(box) \in Nat
<1>1. DOMAIN box = 1..Len(box) /\ Len(box) \in Nat /\ files[r] \subseteq DOMAIN box
    BY DEF TypeOK
<1>2. CASE files[r] = {}
    BY <1>1, <1>2, LastOfNone DEF LastFile
<1>3. CASE files[r] # {}
  <2>1. PICK m \in files[r] : \A j \in files[r] : j <= m
      BY <1>3 DEF Ends
  <2>2. files[r] \subseteq Nat
      BY <1>1
  <2>3. LastFile(r) = m
      BY <2>1, <2>2, LastOfIs DEF LastFile
  <2> QED BY <2>1, <2>2, <2>3, <1>1, <1>3
<1> QED BY <1>2, <1>3

(* The mailbox only grows, at its end.                                     *)
BoxGrows ==
    /\ box' \in Seq(Envelopes) /\ DOMAIN box \subseteq DOMAIN box'
    /\ \A i \in DOMAIN box : box'[i] = box[i]
    /\ \A i \in DOMAIN box' \ DOMAIN box : i \in Nat /\ i > Len(box)

LEMMA StoreGrows ==
    ASSUME TypeOK, NEW e \in Envelopes, box' = Store(e)
    PROVE  BoxGrows
<1>1. box \in Seq(Envelopes)
    BY DEF TypeOK
<1>2. CASE box' = box
    BY <1>1, <1>2 DEF BoxGrows
<1>3. CASE box' = Append(box, e)
    BY <1>1, <1>3 DEF BoxGrows
<1> QED BY <1>2, <1>3 DEF Store

LEMMA BoxStays ==
    ASSUME TypeOK, box' = box
    PROVE  BoxGrows
BY DEF BoxGrows, TypeOK

(* A reader whose own state is left alone.                                 *)
LEMMA ReaderStays ==
    ASSUME TypeOK, BoxGrows, NEW r \in Readers, ReaderOk(r),
           files'[r] = files[r], pull'[r] = pull[r], cursor'[r] = cursor[r]
    PROVE  ReaderOk(r)'
<1>1. LastFile(r)' = LastFile(r)
    BY DEF LastFile
<1>2. /\ LastFile(r) \in Nat /\ DOMAIN box = 1..Len(box) /\ Len(box) \in Nat
      /\ LastFile(r) # 0 => LastFile(r) \in DOMAIN box
    BY LastFileIs DEF ReaderOk
<1>3. LastFile(r) <= Len(box)
    BY <1>2
<1>4. Ends(r)' /\ AtLast(r)'
    BY <1>1 DEF ReaderOk, Ends, AtLast
<1>5. Complete(r)'
  <2>1. \A i \in DOMAIN box' : i <= LastFile(r) => i \in DOMAIN box
      BY <1>2, <1>3 DEF BoxGrows
  <2> QED BY <1>1, <2>1 DEF ReaderOk, Complete, BoxGrows
<1>6. GoesOn(r)'
  <2> SUFFICES ASSUME pull[r] # NoPull, pull[r].mode = "files",
                      NEW i \in pull[r].todo, NEW j \in DOMAIN box', box'[j].to = r,
                      LastFile(r) < j, j <= i
               PROVE  j \in pull[r].todo
      BY <1>1 DEF ReaderOk, GoesOn
  <2>1. i \in DOMAIN box
      BY DEF TypeOK
  <2>2. j \in DOMAIN box
      BY <2>1, <1>2 DEF BoxGrows
  <2> QED BY <2>2 DEF ReaderOk, GoesOn, BoxGrows
<1> QED BY <1>4, <1>5, <1>6 DEF ReaderOk

(* The types of what a step of a sender leaves alone.                      *)
LEMMA SenderTypes ==
    ASSUME TypeOK, BoxGrows, UNCHANGED <<files, gen, pull, cursor>>,
           push' \in [Senders -> Nat], \A s \in Senders : push'[s] <= Len(Dir[s]),
           late' \subseteq Envelopes
    PROVE  TypeOK'
<1>1. files' \in [Readers -> SUBSET DOMAIN box']
    BY DEF TypeOK, BoxGrows
<1>2. \A r \in Readers : \A i \in files'[r] : box'[i].to = r
    BY DEF TypeOK, BoxGrows
<1>3. \A r \in Readers : pull'[r] # NoPull =>
          \A i \in pull'[r].todo : i \in DOMAIN box' /\ box'[i].to = r
    BY DEF TypeOK, BoxGrows
<1>4. /\ gen' \in [Readers -> [Bridges -> Nat]]
      /\ pull' \in [Readers -> {NoPull} \union Pulls]
      /\ cursor' \in [Readers -> [Modes -> Nat]]
    BY DEF TypeOK
<1> QED BY <1>1, <1>2, <1>3, <1>4 DEF TypeOK, BoxGrows

LEMMA SenderStep ==
    ASSUME IInv, BoxGrows, UNCHANGED <<files, gen, pull, cursor>>,
           push' \in [Senders -> Nat], \A s \in Senders : push'[s] <= Len(Dir[s]),
           late' \subseteq Envelopes
    PROVE  IInv'
<1>1. TypeOK /\ \A r \in Readers : ReaderOk(r)
    BY ByReader
<1>2. TypeOK'
    BY <1>1, SenderTypes
<1>3. ASSUME NEW r \in Readers PROVE ReaderOk(r)'
    BY <1>1, ReaderStays
<1> QED BY <1>2, <1>3, ByReaderNext

LEMMA Directories ==
    ASSUME NEW s \in Senders
    PROVE  /\ Dir[s] \in Seq(Envelopes) /\ Len(Dir[s]) \in Nat
           /\ DOMAIN Dir[s] = 1..Len(Dir[s])
           /\ \A i \in DOMAIN Dir[s] : Dir[s][i] \in Envelopes
BY MailboxAssumption

LEMMA SenderSteps ==
    ASSUME IInv,
           \/ \E s \in Senders : StartPush(s) \/ PushFails(s) \/ PushTimesOut(s)
           \/ \E s \in Senders : \E i \in DOMAIN Dir[s] : PostInbox(s, i)
           \/ \E e \in late : LatePost(e)
    PROVE  IInv'
<1>0. TypeOK
    BY ByReader
<1>1. /\ push \in [Senders -> Nat] /\ late \subseteq Envelopes
      /\ \A s \in Senders : push[s] <= Len(Dir[s])
    BY <1>0 DEF TypeOK
<1>2. ASSUME NEW s \in Senders, NEW n \in Nat, n <= Len(Dir[s]),
             push' = [push EXCEPT ![s] = n]
      PROVE  push' \in [Senders -> Nat] /\ \A t \in Senders : push'[t] <= Len(Dir[t])
    BY <1>1, <1>2
<1>3. ASSUME NEW s \in Senders, StartPush(s) PROVE IInv'
  <2>1. Len(Dir[s]) >= 1
      BY <1>3, Directories DEF StartPush
  <2>2. push' \in [Senders -> Nat] /\ \A t \in Senders : push'[t] <= Len(Dir[t])
      BY <1>2, <1>3, <2>1, Directories DEF StartPush
  <2> QED BY <1>0, <1>1, <1>3, <2>2, BoxStays, SenderStep DEF StartPush
<1>4. ASSUME NEW s \in Senders, PushFails(s) PROVE IInv'
  <2>0. push' = [push EXCEPT ![s] = 0] /\ 0 \in Nat /\ 0 <= Len(Dir[s])
      BY <1>4, Directories DEF PushFails
  <2>1. push' \in [Senders -> Nat] /\ \A t \in Senders : push'[t] <= Len(Dir[t])
      BY <2>0, <1>2
  <2> QED BY <1>0, <1>1, <1>4, <2>1, BoxStays, SenderStep DEF PushFails
<1>5. ASSUME NEW s \in Senders, PushTimesOut(s) PROVE IInv'
  <2>0. push' = [push EXCEPT ![s] = 0] /\ 0 \in Nat /\ 0 <= Len(Dir[s])
      BY <1>5, Directories DEF PushTimesOut
  <2>1. push' \in [Senders -> Nat] /\ \A t \in Senders : push'[t] <= Len(Dir[t])
      BY <2>0, <1>2
  <2>2. push[s] \in DOMAIN Dir[s]
      BY <1>1, <1>5, Directories DEF PushTimesOut
  <2>3. late' \subseteq Envelopes
      BY <1>1, <1>5, <2>2, Directories DEF PushTimesOut
  <2> QED BY <1>0, <1>1, <1>5, <2>1, <2>3, BoxStays, SenderStep DEF PushTimesOut
<1>6. ASSUME NEW s \in Senders, NEW i \in DOMAIN Dir[s], PostInbox(s, i) PROVE IInv'
  <2>1. PICK n \in Nat : n <= Len(Dir[s]) /\ push' = [push EXCEPT ![s] = n]
    <3> DEFINE n == IF i < Len(Dir[s]) THEN i + 1 ELSE 0
    <3>1. n \in Nat /\ n <= Len(Dir[s])
        BY Directories
    <3>2. push' = [push EXCEPT ![s] = n]
        BY <1>6 DEF PostInbox
    <3> HIDE DEF n
    <3> QED BY <3>1, <3>2
  <2>2. push' \in [Senders -> Nat] /\ \A t \in Senders : push'[t] <= Len(Dir[t])
      BY <1>2, <2>1
  <2>3. BoxGrows
      BY <1>0, <1>6, Directories, StoreGrows DEF PostInbox
  <2> QED BY <1>1, <1>6, <2>2, <2>3, SenderStep DEF PostInbox
<1>7. ASSUME NEW e \in late, LatePost(e) PROVE IInv'
  <2>1. BoxGrows /\ late' \subseteq Envelopes
      BY <1>0, <1>1, <1>7, StoreGrows DEF LatePost
  <2> QED BY <1>1, <1>7, <2>1, SenderStep DEF LatePost
<1> QED BY <1>3, <1>4, <1>5, <1>6, <1>7

-----------------------------------------------------------------------------
(* Steps of a reader.                                                      *)

LEMMA PullShapes ==
    ASSUME TypeOK, NEW r \in Readers, pull[r] # NoPull
    PROVE  /\ pull[r] \in Pulls /\ pull[r].mode \in Modes /\ pull[r].next \in Nat
           /\ pull[r].todo \subseteq DOMAIN box /\ \A i \in pull[r].todo : box[i].to = r
BY DEF TypeOK, Pulls

(* A reader's step, by its parts.                                          *)
LEMMA ReaderStep ==
    ASSUME IInv, NEW r \in Readers, TypeOK', ReaderOk(r)', box' = box,
           \A q \in Readers \ {r} : /\ files'[q] = files[q] /\ pull'[q] = pull[q]
                                    /\ cursor'[q] = cursor[q]
    PROVE  IInv'
<1>1. TypeOK /\ \A q \in Readers : ReaderOk(q)
    BY ByReader
<1>2. BoxGrows
    BY <1>1, BoxStays
<1>3. ASSUME NEW q \in Readers PROVE ReaderOk(q)'
  <2>1. CASE q = r
      BY <2>1
  <2>2. CASE q # r
      BY <2>2, <1>1, <1>2, ReaderStays
  <2> QED BY <2>1, <2>2
<1> QED BY <1>3, ByReaderNext

(* What TypeOK says of a reader's state.                                   *)
LEMMA ReaderTypes ==
    ASSUME TypeOK, UNCHANGED <<box, push, late>>, NEW r \in Readers,
           gen' \in [Readers -> [Bridges -> Nat]],
           files' \in [Readers -> SUBSET DOMAIN box], \A i \in files'[r] : box[i].to = r,
           pull' \in [Readers -> {NoPull} \union Pulls],
           pull'[r] # NoPull => \A i \in pull'[r].todo : i \in DOMAIN box /\ box[i].to = r,
           cursor' \in [Readers -> [Modes -> Nat]],
           \A q \in Readers \ {r} : files'[q] = files[q] /\ pull'[q] = pull[q]
    PROVE  TypeOK'
<1>1. \A q \in Readers : \A i \in files'[q] : box'[i].to = q
    BY DEF TypeOK
<1>2. \A q \in Readers : pull'[q] # NoPull =>
          \A i \in pull'[q].todo : i \in DOMAIN box' /\ box'[i].to = q
    BY DEF TypeOK
<1> QED BY <1>1, <1>2 DEF TypeOK

LEMMA GetInboxStep ==
    ASSUME IInv, NEW r \in Readers, NEW mode \in Modes, NEW after \in Nat,
           mode = "files" => after = LastFile(r), GetInbox(r, mode, after)
    PROVE  IInv'
<1> DEFINE page == ListAfter(r, after)
           c == [mode |-> mode, todo |-> page.todo, next |-> page.next]
<1>0. TypeOK /\ ReaderOk(r)
    BY ByReader
<1>1. /\ pull' = [pull EXCEPT ![r] = c] /\ cursor' = [cursor EXCEPT ![r][mode] = 0]
      /\ page.todo # {} /\ UNCHANGED <<box, push, late, files, gen>>
    BY DEF GetInbox
<1>2. /\ page.todo \subseteq {i \in DOMAIN box : box[i].to = r /\ after < i}
      /\ \A i \in page.todo : \A j \in DOMAIN box :
            box[j].to = r /\ after < j /\ j <= i => j \in page.todo
      /\ page.next \in Nat
      /\ page.next # 0 => /\ page.next \in page.todo
                          /\ \A i \in page.todo : i <= page.next
    BY <1>0, <1>1, PageRows
<1>3. /\ box \in Seq(Envelopes) /\ pull \in [Readers -> {NoPull} \union Pulls]
      /\ cursor \in [Readers -> [Modes -> Nat]]
    BY <1>0 DEF TypeOK
<1>4. c \in Pulls /\ c.mode = mode /\ c.todo = page.todo /\ c.next = page.next
    BY <1>2, <1>3 DEF Pulls
<1> HIDE DEF page, c
<1>5. /\ pull' \in [Readers -> {NoPull} \union Pulls] /\ pull'[r] = c
      /\ \A q \in Readers \ {r} : pull'[q] = pull[q]
    BY <1>1, <1>3, <1>4
<1>6. /\ cursor' \in [Readers -> [Modes -> Nat]]
      /\ \A q \in Readers \ {r} : cursor'[q] = cursor[q]
      /\ \A m \in Modes : cursor'[r][m] \in {0, cursor[r][m]}
      /\ cursor'[r][mode] = 0
    BY <1>1, <1>3
<1>7. TypeOK'
  <2>1. /\ gen' \in [Readers -> [Bridges -> Nat]]
        /\ files' \in [Readers -> SUBSET DOMAIN box] /\ \A i \in files'[r] : box[i].to = r
      BY <1>0, <1>1 DEF TypeOK
  <2>2. \A i \in pull'[r].todo : i \in DOMAIN box /\ box[i].to = r
      BY <1>2, <1>4, <1>5
  <2> QED BY <1>0, <1>1, <1>5, <1>6, <2>1, <2>2, ReaderTypes
<1>8. LastFile(r)' = LastFile(r)
    BY <1>1 DEF LastFile
<1>9. Ends(r)' /\ Complete(r)' /\ AtLast(r)'
    BY <1>0, <1>1, <1>6, <1>8 DEF ReaderOk, Ends, Complete, AtLast
<1>10. GoesOn(r)'
    BY <1>1, <1>2, <1>4, <1>5, <1>6, <1>8 DEF GoesOn
<1> QED BY <1>1, <1>5, <1>6, <1>7, <1>9, <1>10, ReaderStep DEF ReaderOk

LEMMA WriteFileStep ==
    ASSUME IInv, NEW r \in Readers, WriteFile(r)
    PROVE  IInv'
<1>0. TypeOK /\ ReaderOk(r)
    BY ByReader
<1>1. PICK i \in DOMAIN box :
        /\ At(r, "files", i) /\ i \notin files[r]
        /\ files' = [files EXCEPT ![r] = @ \union {i}]
        /\ pull' = [pull EXCEPT ![r].todo = @ \ {i}]
        /\ UNCHANGED <<box, push, late, gen, cursor>>
    BY DEF WriteFile
<1> DEFINE c == [pull[r] EXCEPT !.todo = @ \ {i}]
           todo == pull[r].todo
<1>2. /\ pull[r] # NoPull /\ pull[r].mode = "files"
      /\ i \in todo /\ \A j \in todo : i <= j
    BY <1>1 DEF At
<1>3. /\ pull[r] \in Pulls /\ todo \subseteq DOMAIN box /\ \A j \in todo : box[j].to = r
      /\ DOMAIN box = 1..Len(box) /\ Len(box) \in Nat /\ files[r] \subseteq DOMAIN box
    BY <1>0, <1>2, PullShapes DEF TypeOK
<1>4. /\ c \in Pulls /\ c.mode = "files" /\ c.todo = todo \ {i} /\ c.next = pull[r].next
    BY <1>2, <1>3 DEF Pulls
<1>5. pull' = [pull EXCEPT ![r] = c]
    BY <1>1, Zenon
<1> HIDE DEF c
<1>6. /\ pull' \in [Readers -> {NoPull} \union Pulls] /\ pull'[r] = c
      /\ \A q \in Readers \ {r} : pull'[q] = pull[q]
    BY <1>0, <1>4, <1>5 DEF TypeOK
<1>7. /\ files' \in [Readers -> SUBSET DOMAIN box] /\ files'[r] = files[r] \union {i}
      /\ \A q \in Readers \ {r} : files'[q] = files[q]
    BY <1>0, <1>1 DEF TypeOK
<1>8. TypeOK'
  <2>1. gen' \in [Readers -> [Bridges -> Nat]] /\ cursor' \in [Readers -> [Modes -> Nat]]
      BY <1>0, <1>1 DEF TypeOK
  <2>2. \A j \in pull'[r].todo : j \in DOMAIN box /\ box[j].to = r
      BY <1>3, <1>4, <1>6
  <2>3. \A j \in files'[r] : box[j].to = r
      BY <1>0, <1>2, <1>3, <1>7 DEF TypeOK
  <2> QED BY <1>0, <1>1, <1>6, <1>7, <2>1, <2>2, <2>3, ReaderTypes
<1>9. /\ LastFile(r) \in Nat /\ \A j \in files[r] : j <= LastFile(r)
      /\ \A j \in todo : LastFile(r) < j
      /\ \A k \in todo : \A j \in DOMAIN box :
            box[j].to = r /\ LastFile(r) < j /\ j <= k => j \in todo
    BY <1>0, <1>2, LastFileIs DEF ReaderOk, GoesOn
<1>10. \A j \in files'[r] : j <= i
    BY <1>2, <1>3, <1>7, <1>9
<1>11. LastFile(r)' = i
  <2>1. files'[r] \subseteq Nat /\ i \in files'[r]
      BY <1>3, <1>7
  <2> QED BY <2>1, <1>10, LastOfIs DEF LastFile
<1>12. Ends(r)'
    BY <1>7, <1>10 DEF Ends
<1>13. Complete(r)'
  <2>1. ASSUME NEW j \in files'[r] PROVE j \in DOMAIN box /\ box[j].to = r /\ j <= i
      BY <1>0, <1>3, <1>7, <1>10, <1>2 DEF TypeOK
  <2>2. ASSUME NEW j \in DOMAIN box, box[j].to = r, j <= i PROVE j \in files'[r]
    <3>1. CASE j <= LastFile(r)
        BY <3>1, <2>2, <1>0, <1>7 DEF ReaderOk, Complete
    <3>2. CASE LastFile(r) < j
      <4>1. j \in todo
          BY <3>2, <2>2, <1>2, <1>9
      <4>2. j = i
          BY <4>1, <2>2, <1>2, <1>3
      <4> QED BY <4>2, <1>7
    <3> QED BY <3>1, <3>2, <1>3, <1>9
  <2> QED BY <2>1, <2>2, <1>1, <1>11 DEF Complete
<1>14. GoesOn(r)'
  <2>1. \A j \in todo \ {i} : i < j
      BY <1>2, <1>3
  <2>2. \A k \in todo \ {i} : \A j \in DOMAIN box :
           box[j].to = r /\ i < j /\ j <= k => j \in todo \ {i}
    <3> SUFFICES ASSUME NEW k \in todo \ {i}, NEW j \in DOMAIN box, box[j].to = r,
                        i < j, j <= k
                 PROVE  j \in todo \ {i}
        OBVIOUS
    <3>1. LastFile(r) < j /\ j # i
        BY <1>2, <1>3, <1>9
    <3> QED BY <3>1, <1>9
  <2>3. c.next # 0 =>
           IF todo \ {i} = {} THEN c.next = i
           ELSE c.next \in todo \ {i} /\ \A j \in todo \ {i} : j <= c.next
    <3> SUFFICES ASSUME c.next # 0
                 PROVE  IF todo \ {i} = {} THEN c.next = i
                        ELSE c.next \in todo \ {i} /\ \A j \in todo \ {i} : j <= c.next
        OBVIOUS
    <3>1. c.next \in todo /\ \A j \in todo : j <= c.next
        BY <1>0, <1>2, <1>4 DEF ReaderOk, GoesOn
    <3>2. CASE todo \ {i} = {}
        BY <3>1, <3>2
    <3>3. CASE todo \ {i} # {}
      <4>1. PICK j \in todo \ {i} : TRUE
          BY <3>3
      <4>2. j \in Nat /\ i \in Nat /\ c.next \in Nat /\ i < j /\ j <= c.next
          BY <2>1, <3>1, <1>3
      <4>3. c.next # i
          BY <4>2
      <4> QED BY <4>3, <3>1, <3>3
    <3> QED BY <3>2, <3>3
  <2>4. /\ pull'[r].todo = todo \ {i} /\ pull'[r].next = c.next /\ DOMAIN box' = DOMAIN box
        /\ \A j \in DOMAIN box : box'[j] = box[j]
      BY <1>1, <1>4, <1>6
  <2>5. cursor'[r]["files"] = 0
      BY <1>0, <1>1, <1>2 DEF ReaderOk, GoesOn
  <2> QED BY <2>1, <2>2, <2>3, <2>4, <2>5, <1>11 DEF GoesOn
<1>15. AtLast(r)'
    BY <1>0, <1>1, <1>2 DEF ReaderOk, GoesOn, AtLast
<1> QED BY <1>1, <1>6, <1>7, <1>8, <1>12, <1>13, <1>14, <1>15, ReaderStep DEF ReaderOk

LEMMA EndPageStep ==
    ASSUME IInv, NEW r \in Readers, EndPage(r)
    PROVE  IInv'
<1>0. TypeOK /\ ReaderOk(r)
    BY ByReader
<1> DEFINE mode == pull[r].mode
           next == pull[r].next
<1>1. /\ pull[r] # NoPull /\ pull[r].todo = {}
      /\ cursor' = [cursor EXCEPT ![r][mode] = next]
      /\ pull' = [pull EXCEPT ![r] = NoPull]
      /\ UNCHANGED <<box, push, late, files, gen>>
    BY DEF EndPage
<1>2. mode \in Modes /\ next \in Nat
    BY <1>0, <1>1, PullShapes
<1>3. /\ pull \in [Readers -> {NoPull} \union Pulls]
      /\ cursor \in [Readers -> [Modes -> Nat]]
    BY <1>0 DEF TypeOK
<1> HIDE DEF mode, next
<1>4. /\ pull' \in [Readers -> {NoPull} \union Pulls] /\ pull'[r] = NoPull
      /\ \A q \in Readers \ {r} : pull'[q] = pull[q]
    BY <1>1, <1>3
<1>5. /\ cursor' \in [Readers -> [Modes -> Nat]]
      /\ \A q \in Readers \ {r} : cursor'[q] = cursor[q]
      /\ cursor'[r][mode] = next /\ \A m \in Modes \ {mode} : cursor'[r][m] = cursor[r][m]
    BY <1>1, <1>2, <1>3
<1>6. TypeOK'
  <2>1. /\ gen' \in [Readers -> [Bridges -> Nat]]
        /\ files' \in [Readers -> SUBSET DOMAIN box] /\ \A i \in files'[r] : box[i].to = r
      BY <1>0, <1>1 DEF TypeOK
  <2> QED BY <1>0, <1>1, <1>4, <1>5, <2>1, ReaderTypes
<1>7. LastFile(r)' = LastFile(r)
    BY <1>1 DEF LastFile
<1>8. Ends(r)' /\ Complete(r)' /\ GoesOn(r)'
    BY <1>0, <1>1, <1>4, <1>7 DEF ReaderOk, Ends, Complete, GoesOn
<1>9. AtLast(r)'
  <2> SUFFICES ASSUME "files" \in Modes PROVE cursor'[r]["files"] \in {0, LastFile(r)}
      BY <1>7 DEF AtLast
  <2>1. CASE mode = "files"
    <3>1. next # 0 => next = LastFile(r)
        BY <1>0, <1>1, <2>1 DEF ReaderOk, GoesOn, mode, next
    <3> QED BY <3>1, <2>1, <1>5
  <2>2. CASE mode # "files"
      BY <2>2, <1>0, <1>5 DEF ReaderOk, AtLast
  <2> QED BY <2>1, <2>2
<1> QED BY <1>1, <1>4, <1>5, <1>6, <1>8, <1>9, ReaderStep DEF ReaderOk

(* The pull command ends, or goes on with an import: files and cursors     *)
(* stay as they are.                                                       *)
LEMMA QuietStep ==
    ASSUME IInv, NEW r \in Readers, UNCHANGED <<box, push, late, files, cursor>>,
           gen' \in [Readers -> [Bridges -> Nat]],
           pull' \in [Readers -> {NoPull} \union Pulls],
           \A q \in Readers \ {r} : pull'[q] = pull[q],
           \/ pull'[r] = pull[r] \/ pull'[r] = NoPull
           \/ /\ pull[r] # NoPull /\ pull'[r].mode = "import"
              /\ pull'[r].todo \subseteq pull[r].todo
    PROVE  IInv'
<1>0. TypeOK /\ ReaderOk(r)
    BY ByReader
<1>1. TypeOK'
  <2>1. /\ files' \in [Readers -> SUBSET DOMAIN box] /\ \A i \in files'[r] : box[i].to = r
        /\ cursor' \in [Readers -> [Modes -> Nat]]
      BY <1>0 DEF TypeOK
  <2>2. pull'[r] # NoPull => \A i \in pull'[r].todo : i \in DOMAIN box /\ box[i].to = r
      BY <1>0 DEF TypeOK
  <2> QED BY <1>0, <2>1, <2>2, ReaderTypes
<1>2. LastFile(r)' = LastFile(r)
    BY DEF LastFile
<1>3. Ends(r)' /\ Complete(r)' /\ AtLast(r)'
    BY <1>0, <1>2 DEF ReaderOk, Ends, Complete, AtLast
<1>4. GoesOn(r)'
    BY <1>0, <1>2 DEF ReaderOk, GoesOn
<1> QED BY <1>1, <1>3, <1>4, ReaderStep DEF ReaderOk

LEMMA Installs ==
    ASSUME TypeOK, NEW r \in Readers, NEW i \in DOMAIN box, Install(r, i)
    PROVE  gen' \in [Readers -> [Bridges -> Nat]]
<1>1. gen \in [Readers -> [Bridges -> Nat]] /\ box[i] \in Envelopes
    BY DEF TypeOK
<1>2. box[i].bridge \in Bridges /\ box[i].gen \in Nat
    BY <1>1, MailboxAssumption
<1>3. gen' = [gen EXCEPT ![r][box[i].bridge] = box[i].gen]
    BY DEF Install
<1> QED BY <1>1, <1>2, <1>3

LEMMA ReaderSteps ==
    ASSUME IInv, NEW r \in Readers,
           \/ PullFiles(r) \/ WriteFile(r) \/ EndPage(r) \/ PullDies(r)
           \/ PullImport(r) \/ ImportNext(r) \/ ImportFails(r)
           \/ \E i \in files[r] : ImportFile(r, i)
    PROVE  IInv'
<1>0. TypeOK /\ ReaderOk(r)
    BY ByReader
<1>1. /\ pull \in [Readers -> {NoPull} \union Pulls]
      /\ gen \in [Readers -> [Bridges -> Nat]] /\ files[r] \subseteq DOMAIN box
      /\ cursor \in [Readers -> [Modes -> Nat]]
    BY <1>0 DEF TypeOK
<1>2. CASE PullFiles(r)
  <2> DEFINE after == IF cursor[r]["files"] # 0 THEN cursor[r]["files"] ELSE LastFile(r)
  <2>1. "files" \in Modes /\ GetInbox(r, "files", after)
      BY <1>2 DEF PullFiles
  <2>2. after = LastFile(r)
      BY <1>0, <2>1 DEF ReaderOk, AtLast
  <2>3. LastFile(r) \in Nat
      BY <1>0, LastFileIs DEF ReaderOk
  <2> HIDE DEF after
  <2> QED BY <2>1, <2>2, <2>3, GetInboxStep
<1>3. CASE PullImport(r)
  <2>1. "import" \in Modes /\ GetInbox(r, "import", cursor[r]["import"])
      BY <1>3 DEF PullImport
  <2> QED BY <1>1, <2>1, GetInboxStep
<1>4. CASE PullDies(r) \/ ImportFails(r)
  <2>1. /\ pull' = [pull EXCEPT ![r] = NoPull]
        /\ UNCHANGED <<box, push, late, files, gen, cursor>>
      BY <1>4 DEF PullDies, ImportFails
  <2>2. /\ pull' \in [Readers -> {NoPull} \union Pulls] /\ pull'[r] = NoPull
        /\ \A q \in Readers \ {r} : pull'[q] = pull[q]
      BY <1>1, <2>1
  <2> QED BY <1>1, <2>1, <2>2, QuietStep
<1>5. CASE ImportNext(r)
  <2>1. PICK i \in DOMAIN box :
          /\ At(r, "import", i) /\ Install(r, i)
          /\ pull' = [pull EXCEPT ![r].todo = @ \ {i}]
          /\ UNCHANGED <<box, push, late, files, cursor>>
      BY <1>5 DEF ImportNext
  <2> DEFINE c == [pull[r] EXCEPT !.todo = @ \ {i}]
  <2>2. pull[r] # NoPull /\ pull[r].mode = "import" /\ pull[r] \in Pulls
      BY <1>0, <2>1, PullShapes DEF At
  <2>3. c \in Pulls /\ c.mode = "import" /\ c.todo \subseteq pull[r].todo
      BY <2>2 DEF Pulls
  <2>4. pull' = [pull EXCEPT ![r] = c]
      BY <2>1, Zenon
  <2> HIDE DEF c
  <2>5. /\ pull' \in [Readers -> {NoPull} \union Pulls] /\ pull'[r] = c
        /\ \A q \in Readers \ {r} : pull'[q] = pull[q]
      BY <1>1, <2>3, <2>4
  <2> QED BY <1>0, <2>1, <2>2, <2>3, <2>5, Installs, QuietStep
<1>6. ASSUME NEW i \in files[r], ImportFile(r, i) PROVE IInv'
  <2>1. Install(r, i) /\ UNCHANGED <<box, push, late, files, pull, cursor>>
      BY <1>6 DEF ImportFile
  <2> QED BY <1>0, <1>1, <2>1, Installs, QuietStep
<1> QED BY <1>2, <1>3, <1>4, <1>5, <1>6, WriteFileStep, EndPageStep

LEMMA InitIInv == Init => IInv
<1> SUFFICES ASSUME Init PROVE IInv
    OBVIOUS
<1>1. /\ box = <<>> /\ push = [s \in Senders |-> 0] /\ late = {}
      /\ files = [r \in Readers |-> {}] /\ gen = [r \in Readers |-> [b \in Bridges |-> 0]]
      /\ pull = [r \in Readers |-> NoPull]
      /\ cursor = [r \in Readers |-> [m \in Modes |-> 0]]
    BY DEF Init
<1>2. TypeOK
  <2>1. box \in Seq(Envelopes) /\ \A s \in Senders : push[s] <= Len(Dir[s])
      BY <1>1, Directories
  <2> QED BY <1>1, <2>1 DEF TypeOK
<1>3. ASSUME NEW r \in Readers PROVE ReaderOk(r)
  <2>1. LastFile(r) = 0 /\ files[r] = {} /\ pull[r] = NoPull /\ DOMAIN box = {}
      BY <1>1, LastOfNone DEF LastFile
  <2> QED BY <1>1, <2>1 DEF ReaderOk, Ends, Complete, GoesOn, AtLast
<1> QED BY <1>2, <1>3, ByReader

(* IInv is an inductive invariant, whatever is stored between two pages    *)
(* and wherever a push or a pull dies.                                     *)
THEOREM Inductive == Spec => []IInv
<1>1. IInv /\ [Next]_vars => IInv'
  <2> SUFFICES ASSUME IInv, [Next]_vars PROVE IInv'
      OBVIOUS
  <2>1. CASE UNCHANGED vars
    <3>1. TypeOK /\ UNCHANGED <<box, push, late, files, gen, pull, cursor>>
        BY <2>1, ByReader DEF vars
    <3>2. BoxGrows
        BY <3>1, BoxStays
    <3> QED BY <3>1, <3>2, SenderStep DEF TypeOK
  <2>2. CASE Next
      BY <2>2, SenderSteps, ReaderSteps DEF Next
  <2> QED BY <2>1, <2>2
<1> QED BY <1>1, InitIInv, PTL DEF Spec

(* Files, pages and cursors point to the reader's own rows of the mailbox. *)
THEOREM TypeCorrect == Spec => []TypeOK
<1>1. IInv => TypeOK
    BY DEF IInv
<1> QED BY <1>1, Inductive, PTL

(* Following the cursors of relay pull --output-dir misses no envelope,    *)
(* for every page size, though rows arrive between two pages and commands  *)
(* die in the middle of one.                                               *)
THEOREM PagesSafe == Spec => []PagesComplete
<1>1. IInv => PagesComplete
    BY DEF IInv
<1> QED BY <1>1, Inductive, PTL

-----------------------------------------------------------------------------
(* Mailbox implements MailboxAbstract.                                     *)

(* A step that leaves the table, the files and the stores alone.           *)
LEMMA Invisible ==
    ASSUME UNCHANGED <<box, files, gen>>
    PROVE  UNCHANGED Queue!vars
BY DEF Queue!vars, Received, LastFile

(* INSERT OR IGNORE: an envelope is accepted, or was accepted before.      *)
LEMMA StoreAccepts ==
    ASSUME NEW e \in Envelopes, box' = Store(e), UNCHANGED <<files, gen>>
    PROVE  Queue!Next \/ UNCHANGED Queue!vars
<1>1. Received' = Received
    BY DEF Received, LastFile
<1>2. CASE \E i \in DOMAIN box : box[i] = e
    BY <1>2, Invisible DEF Store
<1>3. CASE \A i \in DOMAIN box : box[i] # e
  <2>1. box' = Append(box, e)
      BY <1>3 DEF Store
  <2>2. Queue!Accept(e)
      BY <1>1, <1>3, <2>1 DEF Queue!Accept
  <2> QED BY <2>2 DEF Queue!Next
<1> QED BY <1>2, <1>3

(* The next row of a page is the next one for that reader.                 *)
LEMMA WriteReceives ==
    ASSUME IInv, NEW r \in Readers, WriteFile(r)
    PROVE  Queue!Next
<1>0. TypeOK /\ ReaderOk(r)
    BY ByReader
<1>1. PICK i \in DOMAIN box :
        /\ At(r, "files", i)
        /\ files' = [files EXCEPT ![r] = @ \union {i}]
        /\ UNCHANGED <<box, gen>>
    BY DEF WriteFile
<1> DEFINE todo == pull[r].todo
<1>2. /\ pull[r] # NoPull /\ pull[r].mode = "files"
      /\ i \in todo /\ \A j \in todo : i <= j
    BY <1>1 DEF At
<1>3. /\ \A j \in todo : box[j].to = r
      /\ DOMAIN box = 1..Len(box) /\ Len(box) \in Nat /\ files[r] \subseteq DOMAIN box
      /\ files \in [Readers -> SUBSET DOMAIN box]
    BY <1>0, <1>2, PullShapes DEF TypeOK
<1>4. /\ LastFile(r) \in Nat /\ \A j \in files[r] : j <= LastFile(r)
      /\ LastFile(r) < i
      /\ \A j \in DOMAIN box : box[j].to = r /\ LastFile(r) < j /\ j <= i => j \in todo
    BY <1>0, <1>2, LastFileIs DEF ReaderOk, GoesOn
<1>5. ASSUME NEW j \in DOMAIN box, box[j].to = r, LastFile(r) < j PROVE i <= j
  <2>1. CASE j <= i
      BY <2>1, <1>2, <1>4, <1>5
  <2> QED BY <2>1, <1>3
<1>6. LastFile(r)' = i
  <2>1. files'[r] = files[r] \union {i}
      BY <1>1, <1>3
  <2>2. files'[r] \subseteq Nat /\ i \in files'[r] /\ \A j \in files'[r] : j <= i
      BY <2>1, <1>3, <1>4
  <2> QED BY <2>2, LastOfIs DEF LastFile
<1>7. \A q \in Readers \ {r} : LastFile(q)' = LastFile(q)
    BY <1>1, <1>3 DEF LastFile
<1>8. Received' = [Received EXCEPT ![r] = i]
    BY <1>6, <1>7 DEF Received
<1>9. Received[r] = LastFile(r)
    BY DEF Received
<1>10. Queue!Receive(r, i)
    BY <1>1, <1>2, <1>3, <1>4, <1>5, <1>8, <1>9 DEF Queue!Receive
<1> QED BY <1>10 DEF Queue!Next

(* import_package takes the next generation only.                          *)
LEMMA InstallApplies ==
    ASSUME TypeOK, NEW r \in Readers, NEW i \in DOMAIN box, box[i].to = r,
           Importable(r, i), Install(r, i), UNCHANGED <<box, files>>
    PROVE  Queue!Next
<1> DEFINE b == box[i].bridge
<1>1. gen \in [Readers -> [Bridges -> Nat]] /\ box[i] \in Envelopes
    BY DEF TypeOK
<1>2. b \in Bridges /\ box[i].gen \in Nat
    BY <1>1, MailboxAssumption
<1>3. gen[r][b] \in Nat
    BY <1>1, <1>2
<1>4. box[i].gen = gen[r][b] + 1
    BY <1>2, <1>3 DEF Importable
<1>5. gen' = [gen EXCEPT ![r][b] = box[i].gen]
    BY DEF Install
<1> HIDE DEF b
<1>6. gen' = [gen EXCEPT ![r][b] = @ + 1]
    BY <1>4, <1>5
<1>7. Received' = Received
    BY DEF Received, LastFile
<1>8. Queue!Apply(r, i)
    BY <1>4, <1>6, <1>7 DEF Queue!Apply, b
<1> QED BY <1>8 DEF Queue!Next

LEMMA StepRefines ==
    ASSUME IInv, [Next]_vars
    PROVE  Queue!Next \/ UNCHANGED Queue!vars
<1>0. TypeOK
    BY ByReader
<1>1. CASE UNCHANGED vars
    BY <1>1, Invisible DEF vars
<1>2. ASSUME NEW s \in Senders, StartPush(s) \/ PushFails(s) \/ PushTimesOut(s)
      PROVE  UNCHANGED Queue!vars
    BY <1>2, Invisible DEF StartPush, PushFails, PushTimesOut
<1>3. ASSUME NEW s \in Senders, NEW i \in DOMAIN Dir[s], PostInbox(s, i)
      PROVE  Queue!Next \/ UNCHANGED Queue!vars
    BY <1>3, Directories, StoreAccepts DEF PostInbox
<1>4. ASSUME NEW e \in late, LatePost(e)
      PROVE  Queue!Next \/ UNCHANGED Queue!vars
  <2>1. e \in Envelopes
      BY <1>0 DEF TypeOK
  <2> QED BY <1>4, <2>1, StoreAccepts DEF LatePost
<1>5. ASSUME NEW r \in Readers,
             \/ PullFiles(r) \/ EndPage(r) \/ PullDies(r)
             \/ PullImport(r) \/ ImportFails(r)
      PROVE  UNCHANGED Queue!vars
  <2>1. UNCHANGED <<box, files, gen>>
      BY <1>5 DEF PullFiles, PullImport, GetInbox, EndPage, PullDies, ImportFails
  <2> QED BY <2>1, Invisible
<1>6. ASSUME NEW r \in Readers, ImportNext(r) PROVE Queue!Next
  <2>1. PICK i \in DOMAIN box :
          /\ At(r, "import", i) /\ Importable(r, i) /\ Install(r, i)
          /\ UNCHANGED <<box, files>>
      BY <1>6 DEF ImportNext
  <2>2. box[i].to = r
      BY <1>0, <2>1, PullShapes DEF At
  <2> QED BY <1>0, <2>1, <2>2, InstallApplies
<1>7. ASSUME NEW r \in Readers, NEW i \in files[r], ImportFile(r, i) PROVE Queue!Next
  <2>1. i \in DOMAIN box /\ box[i].to = r
      BY <1>0 DEF TypeOK
  <2>2. Importable(r, i) /\ Install(r, i) /\ UNCHANGED <<box, files>>
      BY <1>7 DEF ImportFile
  <2> QED BY <1>0, <2>1, <2>2, InstallApplies
<1> QED BY <1>1, <1>2, <1>3, <1>4, <1>5, <1>6, <1>7, WriteReceives DEF Next

LEMMA InitRefines == Init => Queue!Init
<1> SUFFICES ASSUME Init PROVE Queue!Init
    OBVIOUS
<1>1. Received = [r \in Readers |-> 0]
    BY LastOfNone DEF Init, Received, LastFile
<1> QED BY <1>1 DEF Init, Queue!Init

(* Requests that are lost, repeated or late, pages, cursors and commands   *)
(* that die do not show: the relay is one log that accepts each envelope   *)
(* once, each output directory a queue over it without holes, and a store  *)
(* moves by one accepted envelope at a time.                               *)
THEOREM QueueRefinement == Spec => ImplementsQueue
<1>1. IInv /\ [Next]_vars => [Queue!Next]_(Queue!vars)
    BY StepRefines
<1> QED BY <1>1, Inductive, InitRefines, PTL DEF Spec, ImplementsQueue, Queue!Spec

-----------------------------------------------------------------------------
(* What follows for the table and the stores.                              *)

(* mailbox::store keeps one row of an envelope, though it is pushed again  *)
(* and late requests are answered after the repeated ones.                 *)
RowsOnce == \A i, j \in DOMAIN box : box[i] = box[j] => i = j

(* A store that has a generation got there through all the earlier ones:   *)
(* each is a row of the mailbox, for that reader.                          *)
LineWhole ==
    \A r \in Readers : \A b \in Bridges : \A g \in 1..gen[r][b] :
        \E i \in DOMAIN box : box[i].to = r /\ box[i].bridge = b /\ box[i].gen = g

LEMMA QueueKeeps ==
    ASSUME TypeOK, RowsOnce, LineWhole, Queue!Next
    PROVE  RowsOnce' /\ LineWhole'
<1>0. box \in Seq(Envelopes) /\ gen \in [Readers -> [Bridges -> Nat]]
    BY DEF TypeOK
<1>1. ASSUME NEW e \in Envelopes, Queue!Accept(e) PROVE RowsOnce' /\ LineWhole'
  <2>1. /\ box' = Append(box, e) /\ gen' = gen /\ \A i \in DOMAIN box : box[i] # e
      BY <1>1 DEF Queue!Accept
  <2>2. /\ DOMAIN box' = DOMAIN box \union {Len(box) + 1} /\ box'[Len(box) + 1] = e
        /\ \A i \in DOMAIN box : box'[i] = box[i]
      BY <1>0, <2>1
  <2>3. RowsOnce'
      BY <2>1, <2>2 DEF RowsOnce
  <2>4. LineWhole'
      BY <2>1, <2>2 DEF LineWhole
  <2> QED BY <2>3, <2>4
<1>2. ASSUME NEW r \in Readers, NEW i \in DOMAIN box, Queue!Receive(r, i)
      PROVE  RowsOnce' /\ LineWhole'
    BY <1>2 DEF Queue!Receive, RowsOnce, LineWhole
<1>3. ASSUME NEW r \in Readers, NEW i \in DOMAIN box, Queue!Apply(r, i)
      PROVE  RowsOnce' /\ LineWhole'
  <2> DEFINE b == box[i].bridge
  <2>1. /\ box[i].to = r /\ box[i].gen = gen[r][b] + 1 /\ box' = box
        /\ gen' = [gen EXCEPT ![r][b] = @ + 1]
      BY <1>3 DEF Queue!Apply
  <2>2. b \in Bridges
      BY <1>0, MailboxAssumption
  <2>3. \A q \in Readers : \A c \in Bridges :
           gen'[q][c] = IF q = r /\ c = b THEN gen[r][b] + 1 ELSE gen[q][c]
      BY <1>0, <2>1, <2>2
  <2>4. RowsOnce'
      BY <2>1 DEF RowsOnce
  <2>5. ASSUME NEW q \in Readers, NEW c \in Bridges, NEW g \in 1..gen'[q][c]
        PROVE  \E k \in DOMAIN box : box[k].to = q /\ box[k].bridge = c /\ box[k].gen = g
    <3>1. CASE q = r /\ c = b /\ g = gen[r][b] + 1
        BY <3>1, <2>1
    <3>2. CASE ~(q = r /\ c = b /\ g = gen[r][b] + 1)
      <4>1. gen[q][c] \in Nat
          BY <1>0
      <4>2. g \in 1..gen[q][c]
          BY <2>3, <3>2, <4>1
      <4> QED BY <4>2 DEF LineWhole
    <3> QED BY <3>1, <3>2
  <2>6. LineWhole'
      BY <2>1, <2>5 DEF LineWhole
  <2> QED BY <2>4, <2>6
<1> QED BY <1>1, <1>2, <1>3 DEF Queue!Next

(* Every envelope has one row, and every store a line without gaps: no     *)
(* order of pushes and pulls makes a store skip a generation.              *)
THEOREM OnceAndWhole == Spec => [](RowsOnce /\ LineWhole)
<1>1. Init => RowsOnce /\ LineWhole
  <2> SUFFICES ASSUME Init PROVE RowsOnce /\ LineWhole
      OBVIOUS
  <2>1. DOMAIN box = {} /\ \A r \in Readers : \A b \in Bridges : gen[r][b] = 0
      BY DEF Init
  <2> QED BY <2>1 DEF RowsOnce, LineWhole
<1>2. IInv /\ RowsOnce /\ LineWhole /\ [Next]_vars => RowsOnce' /\ LineWhole'
  <2> SUFFICES ASSUME IInv, RowsOnce, LineWhole, [Next]_vars
               PROVE  RowsOnce' /\ LineWhole'
      OBVIOUS
  <2>1. CASE UNCHANGED Queue!vars
    <3>1. box' = box /\ gen' = gen
        BY <2>1 DEF Queue!vars
    <3> QED BY <3>1 DEF RowsOnce, LineWhole
  <2>2. CASE Queue!Next
      BY <2>2, QueueKeeps, ByReader
  <2> QED BY <2>1, <2>2, StepRefines
<1> QED BY <1>1, <1>2, Inductive, PTL DEF Spec

=============================================================================
