--------------------------- MODULE ResultLogProofs ---------------------------
(***************************************************************************)
(* Proofs about ResultLog: its types, that between calls the card holds    *)
(* exactly what was saved since the last delete, that the two files        *)
(* implement the one list of ResultFile, that the header counts the passed *)
(* tests, and that the panel shows the records.                            *)
(***************************************************************************)
EXTENDS ResultLog, FiniteSetTheorems, TLAPS

(* The stages of a call, by the files it has still to write: what the header *)
(* in RAM, the header on the card and the log have to do with each other.    *)
Clean == /\ temp = None
         /\ on => head.bkp
         /\ on /\ card => head = info /\ log = Kept

ToRecord == /\ on /\ head.bkp
            /\ temp \in Results
            /\ head.current_numb < TOTAL_SIZE
            /\ card => head = info /\ log = Kept

ToInfo == /\ on /\ head.bkp
          /\ temp \in Results
          /\ head.test_count > 0
          /\ card => /\ info.test_count < TOTAL_SIZE
                     /\ info.test_count + 1 = head.test_count
                     /\ bin[info.test_count + 1] = temp
                     /\ log = Append(Kept, temp)

(* the first boot writes a header too, for a card that has none *)
ToFirst == /\ on /\ head = NewHead
           /\ temp = None
           /\ card => info = NoFile /\ log = Kept

ToDelete == on /\ head = NewHead /\ temp = None /\ log = <<>>

ToUnlink == /\ on /\ head = NewHead
            /\ temp = None
            /\ card => info = NewHead
            /\ log = <<>>

Stages == \/ todo = <<>> /\ Clean
          \/ todo = <<"record", "info">> /\ ToRecord
          \/ todo = <<"info">> /\ (ToInfo \/ ToFirst)
          \/ todo = <<"info", "unlink">> /\ ToDelete
          \/ todo = <<"unlink">> /\ ToUnlink

Counts(h) == h.test_count = h.current_numb /\ h.pass_count <= h.test_count

IInv == /\ TypeOK
        /\ Counts(head) /\ Counts(info)
        /\ \A k \in 1..info.test_count : bin[k] \in Results
        /\ ~info.bkp => info = NoFile
        /\ ~on => todo = <<>> /\ head = NoFile
        /\ Stages

(* The records counted by the header on the card are a sequence of results. *)
LEMMA KeptSeq == IInv => /\ Kept \in Seq(Results)
                         /\ Len(Kept) = info.test_count
                         /\ Len(Kept) \in 0..TOTAL_SIZE
BY ResultAssumption, SMT DEF IInv, TypeOK, Header, Records, Kept

(* A page is a page of results, whatever the header, the file and the row. *)
LEMMA PageType == ASSUME NEW h \in Header, NEW b \in [Records -> Results \cup {None}],
                         NEW n \in 0..TOTAL_SIZE - 1, card \in BOOLEAN
                  PROVE  Page(h, b, n) \in [Rows -> Results \cup {None}]
<1>1. Start(n) \in Nat
  BY ResultAssumption, SMT DEF Start
<1>2. ASSUME NEW i \in Nat, i < TOTAL_SIZE
      PROVE  ReadRecord(h, b, i) \in Results \cup {None}
  BY <1>2, ResultAssumption, SMT DEF ReadRecord, Header, Records
<1>3. \A k \in Rows : Start(n) + k \in Nat
  BY <1>1, ResultAssumption, SMT DEF Rows
<1> QED BY <1>2, <1>3 DEF Page

(* No key of the panel leaves its rows. *)
LEMMA KeyRows == current_item \in 0..TOTAL_SIZE - 1
                 => {Up, Down, Left, Right} \subseteq 0..TOTAL_SIZE - 1
BY ResultAssumption, SMT DEF Up, Down, Left, Right

(* The lists of files a call can have to write: their first and their rest. *)
LEMMA FileLists ==
    /\ <<"record", "info">> # <<>> /\ Head(<<"record", "info">>) = "record"
                                  /\ Tail(<<"record", "info">>) = <<"info">>
    /\ <<"info">> # <<>> /\ Head(<<"info">>) = "info" /\ Tail(<<"info">>) = <<>>
    /\ <<"info", "unlink">> # <<>> /\ Head(<<"info", "unlink">>) = "info"
                                  /\ Tail(<<"info", "unlink">>) = <<"unlink">>
    /\ <<"unlink">> # <<>> /\ Head(<<"unlink">>) = "unlink" /\ Tail(<<"unlink">>) = <<>>
    /\ {<<>>, <<"record", "info">>, <<"info">>, <<"info", "unlink">>, <<"unlink">>}
         \subseteq Seq({"record", "info", "unlink"})
OBVIOUS

(* The first state: nothing on, nothing on the card. *)
LEMMA InitIInv == Init => IInv
BY ResultAssumption, SMT DEF Init, IInv, TypeOK, Header, NoFile, Erased, Blank, Records, Rows,
   Stages, Clean, Counts

LEMMA StepIInv == IInv /\ [Next]_vars => IInv'
<1> SUFFICES ASSUME IInv, [Next]_vars PROVE IInv'
  OBVIOUS
<1> USE ResultAssumption
<1>k. Kept \in Seq(Results) /\ Len(Kept) = info.test_count /\ Len(Kept) \in 0..TOTAL_SIZE
  BY KeptSeq
<1>t. TypeOK /\ (todo = <<>> \/ todo = <<"record", "info">> \/ todo = <<"info">>
                 \/ todo = <<"info", "unlink">> \/ todo = <<"unlink">>)
  BY DEF IInv, Stages
<1>n. NewHead \in Header /\ NoFile \in Header
  BY SMT DEF NewHead, NoFile, Header
<1>1. CASE Boot
  <2>1. TypeOK'
    <3>1. head' \in Header /\ todo' \in Seq({"record", "info", "unlink"})
      BY <1>1, <1>t, <1>n, FileLists DEF Boot, TypeOK, ReadInfo
    <3>2. log' \in Seq(Results)
      <4>1. <<>> \in Seq(Results)
        OBVIOUS
      <4> QED BY <1>1, <1>k, <4>1 DEF Boot
    <3> QED BY <1>1, <1>t, <3>1, <3>2 DEF Boot, TypeOK, ui
  <2>2. Kept' = Kept
    BY <1>1 DEF Boot, Kept
  <2>3. Stages'
    BY <1>1, <2>2, <1>t, <1>n, SMT DEF Boot, IInv, Stages, Clean, ToFirst, ReadInfo, NewHead, NoFile, TypeOK, ui
  <2> QED BY <1>1, <2>1, <2>3, <1>n, SMT DEF Boot, IInv, Counts, NewHead, NoFile, ReadInfo
<1>2. CASE PowerCut
  <2>1. TypeOK'
    <3>1. 0 \in 0..TOTAL_SIZE - 1
      OBVIOUS
    <3> QED BY <1>2, <1>t, <1>n, <3>1, FileLists DEF PowerCut, TypeOK, Blank
  <2>2. Stages'
    BY <1>2 DEF PowerCut, Stages, Clean
  <2> QED BY <1>2, <2>1, <2>2, SMT DEF PowerCut, IInv, Counts, NoFile
<1>3. ASSUME NEW r \in Results, Save(r) PROVE IInv'
  <2>1. TypeOK'
    BY <1>3, <1>t, SMT DEF Save, TypeOK, SaveFiles, ui
  <2>2. Kept' = Kept
    BY <1>3 DEF Save, Kept
  <2>3. Stages'
    BY <1>3, <2>2, <1>t, SMT DEF Save, Idle, SaveFiles, IInv, Stages, Clean, ToRecord, ToInfo, ToFirst, ToDelete, ToUnlink
  <2> QED BY <1>3, <2>1, <2>3, SMT DEF Save, IInv, Counts, Idle
<1>4. CASE WriteRecord
  <2>1. todo = <<"record", "info">> /\ todo' = <<"info">> /\ ToRecord
    BY <1>4, FileLists DEF WriteRecord, IInv, Stages
  <2>2. /\ head.current_numb \in 0..TOTAL_SIZE - 1
        /\ head.test_count = head.current_numb
        /\ head.pass_count \in 0..head.test_count
        /\ head \in Header
    BY <2>1, <1>t, SMT DEF ToRecord, IInv, TypeOK, Header, Counts
  <2>3. /\ head' \in Header /\ head'.test_count = head.test_count + 1
        /\ head'.current_numb = head'.test_count /\ head'.bkp = head.bkp
        /\ head'.pass_count <= head'.test_count
    <3>1. head' = [head EXCEPT !.test_count = head.test_count + 1,
                               !.current_numb = head.current_numb + 1,
                               !.pass_count = IF temp \in Pass THEN head.pass_count + 1
                                              ELSE head.pass_count]
      BY <1>4 DEF WriteRecord, Counted
    <3>2. /\ head'.test_count = head.test_count + 1 /\ head'.bkp = head.bkp
          /\ head'.current_numb = head.current_numb + 1
          /\ head'.pass_count \in {head.pass_count, head.pass_count + 1}
          /\ head' = [test_count |-> head'.test_count, pass_count |-> head'.pass_count,
                      current_numb |-> head'.current_numb, bkp |-> head'.bkp]
      BY <3>1, <2>2 DEF Header
    <3>3. head.test_count \in 0..TOTAL_SIZE /\ head.bkp \in BOOLEAN
      BY <2>2 DEF Header
    <3>4. /\ head'.test_count \in 0..TOTAL_SIZE /\ head'.current_numb = head'.test_count
          /\ head'.pass_count \in 0..TOTAL_SIZE /\ head'.pass_count <= head'.test_count
      BY <3>2, <3>3, <2>2
    <3> QED BY <3>2, <3>3, <3>4 DEF Header
  <2>4. bin' \in [Records -> Results \cup {None}]
    BY <1>4, <2>1, <2>2, <1>t, SMT DEF WriteRecord, ToRecord, TypeOK, Records
  <2>5. log' = Append(log, temp) /\ log' \in Seq(Results)
    BY <1>4, <2>1, <1>t, SMT DEF WriteRecord, ToRecord, TypeOK
  <2>6. TypeOK'
    BY <1>4, <2>1, <2>3, <2>4, <2>5, <1>t, SMT DEF WriteRecord, TypeOK, ui
  <2>7. \A k \in 1..info.test_count : bin'[k] = bin[k]
    BY <1>4, <2>1, <2>2, <1>t, SMT DEF WriteRecord, ToRecord, TypeOK, Records, Header
  <2>8. Kept' = Kept
    BY <1>4, <2>7, SMT DEF WriteRecord, Kept
  <2>9. card => bin'[info.test_count + 1] = temp
    BY <1>4, <2>1, <2>2, <1>t, SMT DEF WriteRecord, ToRecord, TypeOK, Records
  <2>10. ToInfo'
    BY <1>4, <2>1, <2>2, <2>3, <2>5, <2>8, <2>9, SMT DEF WriteRecord, ToRecord, ToInfo
  <2> QED BY <1>4, <2>1, <2>3, <2>6, <2>7, <2>10, SMT DEF WriteRecord, IInv, Stages, Counts
<1>5. CASE WriteInfo
  <2>1. \/ todo = <<"info">> /\ todo' = <<>> /\ (ToInfo \/ ToFirst) /\ temp' = None
        \/ todo = <<"info", "unlink">> /\ todo' = <<"unlink">> /\ ToDelete /\ temp' = temp
    BY <1>5, FileLists DEF WriteInfo, IInv, Stages, ToInfo, ToFirst
  <2>2. TypeOK'
    BY <1>5, <2>1, <1>t, SMT DEF WriteInfo, TypeOK, ui
  <2>3. \A k \in 1..info'.test_count : bin'[k] \in Results
    BY <1>5, <2>1, <1>t, SMT DEF WriteInfo, IInv, ToInfo, ToFirst, ToDelete, NewHead, Header, TypeOK
  <2>4. ~info'.bkp => info' = NoFile
    BY <1>5, <2>1, SMT DEF WriteInfo, IInv, ToInfo, ToFirst, ToDelete, NewHead
  <2>5. CASE todo = <<"info">> /\ ToInfo
    <3>1. card => Kept' = Append(Kept, temp)
      BY <1>5, <2>5, <1>k, <1>t, SMT DEF WriteInfo, ToInfo, Kept, TypeOK, Header
    <3>2. Clean'
      BY <1>5, <2>1, <2>5, <3>1, SMT DEF WriteInfo, ToInfo, Clean
    <3> QED BY <1>5, <2>1, <2>5, <2>2, <2>3, <2>4, <3>2, SMT DEF WriteInfo, IInv, Stages, Counts, ToInfo
  <2>6. CASE todo = <<"info">> /\ ToFirst
    <3>1. card => Kept' = Kept
      BY <1>5, <2>6, SMT DEF WriteInfo, ToFirst, Kept, NewHead, NoFile
    <3>2. Clean'
      BY <1>5, <2>1, <2>6, <3>1, SMT DEF WriteInfo, ToFirst, Clean, NewHead
    <3> QED BY <1>5, <2>1, <2>6, <2>2, <2>3, <2>4, <3>2, SMT DEF WriteInfo, IInv, Stages, Counts, ToFirst
  <2>7. CASE todo = <<"info", "unlink">> /\ ToDelete
    <3>1. ToUnlink'
      BY <1>5, <2>7, <2>1, SMT DEF WriteInfo, ToDelete, ToUnlink, NewHead
    <3> QED BY <1>5, <2>1, <2>7, <2>2, <2>3, <2>4, <3>1, SMT DEF WriteInfo, IInv, Stages, Counts, ToDelete
  <2> QED BY <2>1, <2>5, <2>6, <2>7
<1>6. ASSUME NEW n \in 0..TOTAL_SIZE - 1, Idle,
             UNCHANGED <<on, card, head, info, bin, temp, todo, log>>,
             panel' \in BOOLEAN, current_item' = n,
             screen' \in [Rows -> Results \cup {None}]
      PROVE  IInv'
  <2>1. TypeOK'
    BY <1>6, <1>t, SMT DEF TypeOK
  <2>2. Kept' = Kept
    BY <1>6 DEF Kept
  <2>3. Stages'
    BY <1>6, <2>2, <1>t, SMT DEF IInv, Stages, Idle, Clean, ToRecord, ToInfo, ToFirst, ToDelete, ToUnlink
  <2> QED BY <1>6, <2>1, <2>3, SMT DEF IInv, Counts, Idle
<1>7. CASE Open
  <2>1. Page(head, bin, 0) \in [Rows -> Results \cup {None}]
    BY <1>t, PageType, SMT DEF TypeOK
  <2> QED BY <1>7, <2>1, <1>6, SMT DEF Open, Draw
<1>8. CASE Leave
  BY <1>8, <1>6, <1>t DEF Leave, TypeOK
<1>9. ASSUME NEW n \in 0..TOTAL_SIZE - 1, Move(n) PROVE IInv'
  <2>1. Page(head, bin, n) \in [Rows -> Results \cup {None}]
    BY <1>t, PageType DEF TypeOK
  <2> QED BY <1>9, <2>1, <1>6, <1>t DEF Move, Draw, TypeOK
<1>10. CASE Delete
  <2>1. TypeOK'
    BY <1>10, <1>t, <1>n, SMT DEF Delete, TypeOK, DeleteFiles, ui
  <2>2. ToDelete' /\ todo' = <<"info", "unlink">>
    BY <1>10, <1>t, SMT DEF Delete, Idle, DeleteFiles, ToDelete, IInv, Stages, Clean, ToRecord, ToInfo, ToFirst, ToUnlink, NewHead
  <2> QED BY <1>10, <2>1, <2>2, SMT DEF Delete, IInv, Stages, Counts, NewHead, Idle
<1>11. CASE Unlink
  <2>1. todo = <<"unlink">> /\ todo' = <<>> /\ ToUnlink
    BY <1>11, <1>t, SMT DEF Unlink, IInv, Stages
  <2>2. bin' \in [Records -> Results \cup {None}]
    BY <1>11, <1>t, SMT DEF Unlink, TypeOK, Erased
  <2>3. Page(head, bin', 0) \in [Rows -> Results \cup {None}]
    BY <2>2, <1>t, PageType, SMT DEF TypeOK
  <2>4. TypeOK'
    BY <1>11, <2>1, <2>2, <2>3, <1>t, SMT DEF Unlink, TypeOK, Draw
  <2>5. card => Kept' = <<>>
    BY <1>11, <2>1, SMT DEF Unlink, ToUnlink, Kept, NewHead
  <2>6. Clean'
    BY <1>11, <2>1, <2>5, SMT DEF Unlink, ToUnlink, Clean, NewHead
  <2>7. \A k \in 1..info'.test_count : bin'[k] \in Results
    BY <1>11, <2>1, <1>t, SMT DEF Unlink, ToUnlink, IInv, NewHead, Header, TypeOK
  <2> QED BY <1>11, <2>1, <2>4, <2>6, <2>7, SMT DEF Unlink, IInv, Stages, Counts, ToUnlink
<1>12. CASE UNCHANGED vars
  <2>1. Kept' = Kept
    BY <1>12 DEF vars, Kept
  <2> QED BY <1>12, <2>1, <1>t DEF vars, ui, IInv, TypeOK, Stages, Counts, Clean, ToRecord, ToInfo, ToFirst, ToDelete, ToUnlink
<1>13. {Up, Down, Left, Right} \subseteq 0..TOTAL_SIZE - 1
  BY <1>t, KeyRows DEF TypeOK
<1> QED BY <1>1, <1>2, <1>3, <1>4, <1>5, <1>7, <1>8, <1>9, <1>10, <1>11, <1>12, <1>13 DEF Next

(* Every state the program reaches satisfies the strengthened invariant. *)
THEOREM Invariant == Spec => []IInv
BY InitIInv, StepIInv, PTL DEF Spec

(* The types: no record beyond the capacity is counted or written and no key *)
(* selects a row that is not there, for any capacity and any page.           *)
THEOREM Types == Spec => []TypeOK
<1>1. IInv => TypeOK
  BY DEF IInv
<1> QED BY Invariant, <1>1, PTL

(* With a card, between calls, the card holds what was saved since the last *)
(* delete, whenever the power went before.                                  *)
THEOREM KeptIsLog == Spec => []LogKept
<1>1. IInv => LogKept
  BY FileLists DEF IInv, LogKept, Idle, Stages, Clean
<1> QED BY Invariant, <1>1, PTL

(* The two files implement one list of results: each step keeps a result as *)
(* a whole, empties the list, or leaves it alone.                           *)
THEOREM Implements == Spec => ResultFileSpec
<1> USE ResultAssumption
<1>1. Init => File!Init
  BY SMT DEF Init, File!Init, Kept, NoFile, Request
<1>2. ASSUME IInv, IInv', [Next]_vars PROVE [File!Next]_File!vars
  <2>k. Kept \in Seq(Results) /\ Len(Kept) = info.test_count /\ Len(Kept) \in 0..TOTAL_SIZE
    BY <1>2, KeptSeq
  <2>1. CASE Boot
    <3>1. Kept' = Kept
      BY <2>1 DEF Boot, Kept
    <3>2. Request = None /\ Request' = None
      BY <1>2, <2>1, SMT DEF Boot, Request, IInv, Stages, Clean, DeleteFiles
    <3> QED BY <3>1, <3>2 DEF File!vars
  <2>2. CASE PowerCut
    <3>1. Kept' = Kept
      BY <2>2 DEF PowerCut, Kept
    <3>2. Request' = None
      BY <2>2, SMT DEF PowerCut, Request, DeleteFiles
    <3> QED BY <3>1, <3>2 DEF File!vars, File!Next, File!Lost
  <2>3. ASSUME NEW r \in Results, Save(r) PROVE [File!Next]_File!vars
    <3>1. Kept' = Kept
      BY <2>3 DEF Save, Kept
    <3>2. Request = None
      BY <1>2, <2>3, FileLists DEF Save, Idle, Request, IInv, Stages, Clean, DeleteFiles
    <3>3. Request' = IF card THEN r ELSE None
      BY <2>3, SMT DEF Save, Request, DeleteFiles, SaveFiles
    <3>4. card => Len(Kept) < TOTAL_SIZE
      BY <1>2, <2>3, <2>k, FileLists DEF Save, Idle, IInv, Stages, Clean, Counts
    <3> QED BY <3>1, <3>2, <3>3, <3>4 DEF File!vars, File!Next, File!AskKeep
  <2>4. CASE WriteRecord
    <3>1. todo = <<"record", "info">> /\ ToRecord /\ todo' = <<"info">>
      BY <1>2, <2>4, FileLists DEF WriteRecord, IInv, Stages
    <3>2. card => head.current_numb = info.test_count
      BY <1>2, <3>1 DEF ToRecord, IInv, Counts
    <3>3. \A k \in 1..info.test_count : bin'[k] = bin[k]
      BY <1>2, <2>4, <3>2, SMT DEF WriteRecord, IInv, TypeOK, Records, Header
    <3>4. Kept' = Kept
      BY <2>4, <3>3 DEF WriteRecord, Kept
    <3>5. Request' = Request
      BY <2>4, <3>1, SMT DEF WriteRecord, Request, DeleteFiles
    <3> QED BY <3>4, <3>5 DEF File!vars
  <2>5. CASE WriteInfo
    <3>1. CASE todo = <<"info">> /\ ToInfo
      <4>1. todo' = <<>> /\ temp' = None /\ card' = card /\ bin' = bin
        BY <2>5, <3>1, FileLists DEF WriteInfo
      <4>2. card => Kept' = Append(Kept, temp)
        BY <1>2, <2>5, <3>1, <2>k, SMT DEF WriteInfo, ToInfo, Kept, IInv, TypeOK, Header
      <4>3. ~card => Kept' = Kept /\ Request = None /\ Request' = None
        BY <2>5, <4>1 DEF WriteInfo, Kept, Request
      <4>4. card => Request = temp /\ Request' = None
        BY <3>1, <4>1, SMT DEF Request, DeleteFiles, ToInfo
      <4>5. temp # None /\ temp # Clear
        BY <3>1 DEF ToInfo
      <4> QED BY <4>2, <4>3, <4>4, <4>5 DEF File!vars, File!Next, File!Done
    <3>2. CASE todo = <<"info">> /\ ToFirst
      <4>1. Kept' = Kept
        BY <2>5, <3>2, SMT DEF WriteInfo, ToFirst, Kept, NewHead, NoFile
      <4>2. Request = None /\ Request' = None
        BY <2>5, <3>2, FileLists, SMT DEF WriteInfo, ToFirst, Request, DeleteFiles
      <4> QED BY <4>1, <4>2 DEF File!vars
    <3>3. CASE todo = <<"info", "unlink">> /\ ToDelete
      <4>1. todo' = <<"unlink">> /\ temp = None /\ temp' = None /\ card' = card
        BY <2>5, <3>3, FileLists DEF WriteInfo, ToDelete
      <4>2. card => Kept' = <<>>
        BY <2>5, <3>3, SMT DEF WriteInfo, ToDelete, Kept, NewHead
      <4>3. card => Request = Clear /\ Request' = None
        BY <3>3, <4>1, SMT DEF Request, DeleteFiles
      <4>4. ~card => Kept' = Kept /\ Request = None /\ Request' = None
        BY <2>5, <4>1 DEF WriteInfo, Kept, Request
      <4> QED BY <4>2, <4>3, <4>4 DEF File!vars, File!Next, File!Done
    <3> QED BY <1>2, <2>5, <3>1, <3>2, <3>3, FileLists DEF WriteInfo, IInv, Stages
  <2>6. CASE Delete
    <3>1. Kept' = Kept
      BY <2>6 DEF Delete, Kept
    <3>2. Request = None
      BY <1>2, <2>6, FileLists DEF Delete, Idle, Request, IInv, Stages, Clean, DeleteFiles
    <3>3. Request' = IF card THEN Clear ELSE None
      BY <2>6 DEF Delete, Request
    <3> QED BY <3>1, <3>2, <3>3 DEF File!vars, File!Next, File!AskClear
  <2>7. CASE Unlink
    <3>1. todo = <<"unlink">> /\ todo' = <<>> /\ ToUnlink
      BY <1>2, <2>7, FileLists DEF Unlink, IInv, Stages
    <3>2. Kept' = Kept
      BY <2>7, <3>1, SMT DEF Unlink, ToUnlink, Kept, NewHead
    <3>3. Request = None /\ Request' = None
      BY <2>7, <3>1, SMT DEF Unlink, ToUnlink, Request, DeleteFiles
    <3> QED BY <3>2, <3>3 DEF File!vars
  <2>8. CASE UNCHANGED <<card, info, bin, temp, todo>>
    BY <2>8 DEF File!vars, Kept, Request
  <2> QED BY <1>2, <2>1, <2>2, <2>3, <2>4, <2>5, <2>6, <2>7, <2>8
       DEF Next, Open, Leave, Move, vars
<1>3. IInv /\ IInv' /\ [Next]_vars => [File!Next]_File!vars
  BY <1>2
<1> QED BY Invariant, <1>1, <1>3, PTL DEF Spec, ResultFileSpec, File!Spec

-----------------------------------------------------------------------------
(* The panel: with no write pending its rows are a page of the records, and  *)
(* the calls that write a record or a first header leave it closed.          *)
PanelInv == /\ ~on => ~panel
            /\ todo \in {<<"record", "info">>, <<"info">>} => ~panel
            /\ panel /\ todo = <<>> => screen = Page(head, bin, current_item)

(* The five lists of files are different lists. *)
LEMMA FileListsDiffer ==
    /\ <<"record", "info">> # <<>> /\ <<"info">> # <<>>
    /\ <<"info", "unlink">> # <<>> /\ <<"unlink">> # <<>>
    /\ <<"unlink">> # <<"info">> /\ <<"unlink">> # <<"record", "info">>
    /\ <<"info", "unlink">> # <<"info">> /\ <<"info", "unlink">> # <<"record", "info">>
OBVIOUS

(* Every key draws the page it selects, and every delete the first page. *)
LEMMA StepPanel == IInv /\ PanelInv /\ [Next]_vars => PanelInv'
<1> SUFFICES ASSUME IInv, PanelInv, [Next]_vars PROVE PanelInv'
  OBVIOUS
<1>1. CASE Boot
  BY <1>1 DEF Boot, PanelInv, ui
<1>2. CASE PowerCut
  BY <1>2 DEF PowerCut, PanelInv
<1>3. ASSUME NEW r \in Results, Save(r) PROVE PanelInv'
  BY <1>3, FileListsDiffer DEF Save, PanelInv, Idle, SaveFiles, ui
<1>4. CASE WriteRecord
  <2>1. todo = <<"record", "info">> /\ todo' = <<"info">>
    BY <1>4, FileLists DEF WriteRecord, IInv, Stages
  <2> QED BY <1>4, <2>1, FileListsDiffer DEF WriteRecord, PanelInv, ui
<1>5. CASE WriteInfo
  <2>1. \/ todo = <<"info">> /\ todo' = <<>>
        \/ todo = <<"info", "unlink">> /\ todo' = <<"unlink">>
    BY <1>5, FileLists DEF WriteInfo, IInv, Stages
  <2> QED BY <1>5, <2>1, FileListsDiffer DEF WriteInfo, PanelInv, ui
<1>6. CASE Open
  BY <1>6, FileListsDiffer DEF Open, Draw, Idle, PanelInv, Page, Start, ReadRecord
<1>7. CASE Leave
  BY <1>7 DEF Leave, PanelInv
<1>8. ASSUME NEW n, Move(n) PROVE PanelInv'
  BY <1>8, FileListsDiffer DEF Move, Draw, Idle, PanelInv, Page, Start, ReadRecord
<1>9. CASE Delete
  BY <1>9, FileListsDiffer DEF Delete, DeleteFiles, Idle, PanelInv, ui
<1>10. CASE Unlink
  <2>1. todo = <<"unlink">> /\ todo' = <<>>
    BY <1>10, FileLists DEF Unlink, IInv, Stages
  <2> QED BY <1>10, <2>1, FileListsDiffer DEF Unlink, Draw, PanelInv, Page, Start, ReadRecord
<1>11. CASE UNCHANGED vars
  BY <1>11 DEF vars, ui, PanelInv, Page, Start, ReadRecord
<1> QED BY <1>1, <1>2, <1>3, <1>4, <1>5, <1>6, <1>7, <1>8, <1>9, <1>10, <1>11 DEF Next

(* With a card, the open panel shows at each row the result of that number, *)
(* and blank rows behind the last, for any capacity and any page.           *)
THEOREM ScreenIsLog == Spec => []ScreenTrue
<1>1. Init => PanelInv
  BY FileListsDiffer DEF Init, PanelInv
<1>2. IInv /\ PanelInv => ScreenTrue
  <2> SUFFICES ASSUME IInv, PanelInv, Idle, panel, card, NEW k \in Rows
               PROVE  screen[k] = IF Start(current_item) + k < Len(log)
                                  THEN log[Start(current_item) + k + 1] ELSE None
    BY DEF ScreenTrue
  <2>1. head = info /\ log = Kept /\ screen = Page(head, bin, current_item)
    BY FileListsDiffer DEF Idle, IInv, Stages, Clean, PanelInv
  <2>2. Len(log) = info.test_count /\ Len(log) \in 0..TOTAL_SIZE
    BY <2>1, KeptSeq
  <2> DEFINE i == Start(current_item) + k
  <2>3. i \in Nat
    BY ResultAssumption, SMT DEF IInv, TypeOK, Start, Rows
  <2>4. screen[k] = IF i < TOTAL_SIZE THEN ReadRecord(head, bin, i) ELSE None
    BY <2>1 DEF Page
  <2> HIDE DEF i
  <2>5. CASE i < Len(log)
    <3>1. i + 1 \in 1..info.test_count /\ i < TOTAL_SIZE /\ ~(i >= info.test_count)
      BY <2>2, <2>3, <2>5, ResultAssumption
    <3>2. log[i + 1] = bin[i + 1]
      BY <2>1, <3>1 DEF Kept
    <3>3. screen[k] = bin[i + 1]
      BY <2>1, <2>4, <3>1 DEF ReadRecord
    <3> QED BY <2>5, <3>2, <3>3 DEF i
  <2>6. CASE ~(i < Len(log))
    <3>1. i >= info.test_count
      BY <2>2, <2>3, <2>6
    <3>2. screen[k] = None
      BY <2>1, <2>4, <3>1 DEF ReadRecord
    <3> QED BY <2>6, <3>2 DEF i
  <2> QED BY <2>5, <2>6
<1> QED BY Invariant, StepPanel, <1>1, <1>2, PTL DEF Spec

-----------------------------------------------------------------------------
(* A list that grows by one result. *)
LEMMA PassedGrows ==
  ASSUME NEW s \in Seq(Results), NEW r \in Results
  PROVE  Passed(Append(s, r)) = IF r \in Pass THEN Passed(s) + 1 ELSE Passed(s)
<1> DEFINE P == {k \in DOMAIN s : s[k] \in Pass}
           Q == {k \in DOMAIN Append(s, r) : Append(s, r)[k] \in Pass}
           n == Len(s) + 1
<1>1. /\ Len(s) \in Nat /\ DOMAIN s = 1..Len(s) /\ n \notin 1..Len(s)
      /\ DOMAIN Append(s, r) = 1..Len(s) \cup {n}
      /\ Append(s, r)[n] = r
      /\ \A k \in 1..Len(s) : Append(s, r)[k] = s[k]
  OBVIOUS
<1>2. IsFiniteSet(P) /\ n \notin P
  <2>1. IsFiniteSet(1..Len(s))
    BY <1>1, FS_Interval
  <2> QED BY <1>1, <2>1, FS_Subset
<1>3. Passed(s) = Cardinality(P) /\ Passed(Append(s, r)) = Cardinality(Q)
  BY DEF Passed
<1> HIDE DEF n
<1>4. CASE r \in Pass
  <2>1. Q = P \cup {n}
    BY <1>1, <1>4
  <2> HIDE DEF P, Q
  <2>2. Cardinality(P \cup {n}) = Cardinality(P) + 1
    BY <1>2, FS_AddElement
  <2> QED BY <1>3, <1>4, <2>1, <2>2
<1>5. CASE r \notin Pass
  <2>1. Q = P
    BY <1>1, <1>5
  <2> QED BY <1>3, <1>5, <2>1
<1> QED BY <1>4, <1>5

(* The header on the card counts the passed tests of the records on the card, *)
(* and the one in RAM, while it is on its way, one more if one more passed.   *)
PassInv == /\ PassCounted
           /\ todo = <<"info">> /\ card /\ temp \in Results =>
                 head.pass_count = IF temp \in Pass THEN info.pass_count + 1 ELSE info.pass_count

(* Each write of the header brings the count up to date with the records. *)
LEMMA StepPass == IInv /\ PassInv /\ [Next]_vars => PassInv'
<1> SUFFICES ASSUME IInv, PassInv, [Next]_vars PROVE PassInv'
  OBVIOUS
<1> USE ResultAssumption
<1>1. /\ Kept \in Seq(Results) /\ Len(Kept) = info.test_count /\ Len(Kept) \in 0..TOTAL_SIZE
      /\ PassCounted /\ TypeOK
  BY KeptSeq DEF PassInv, IInv
<1>2. Passed(<<>>) = 0
  <2>1. {k \in DOMAIN <<>> : <<>>[k] \in Pass} = {}
    OBVIOUS
  <2> QED BY <2>1, FS_EmptySet DEF Passed
<1>3. ASSUME Kept' = Kept, info'.pass_count = info.pass_count
      PROVE  PassCounted'
  BY <1>1, <1>3 DEF PassCounted, Passed
<1>4. CASE Boot
  <2>1. PassCounted'
    BY <1>3, <1>4 DEF Boot, Kept
  <2>2. temp' = None
    BY <1>4, FileLists DEF Boot, IInv, Stages, Clean
  <2> QED BY <2>1, <2>2 DEF PassInv
<1>5. CASE PowerCut
  <2>1. PassCounted'
    BY <1>3, <1>5 DEF PowerCut, Kept
  <2> QED BY <1>5, <2>1 DEF PowerCut, PassInv
<1>6. ASSUME NEW r \in Results, Save(r) PROVE PassInv'
  <2>1. PassCounted'
    BY <1>3, <1>6 DEF Save, Kept
  <2> QED BY <1>6, <2>1, FileListsDiffer, SMT DEF Save, SaveFiles, PassInv
<1>7. CASE WriteRecord
  <2>1. todo = <<"record", "info">> /\ ToRecord /\ todo' = <<"info">>
    BY <1>7, FileLists DEF WriteRecord, IInv, Stages
  <2>2. card => head.current_numb = info.test_count /\ head = info
    BY <2>1 DEF ToRecord, IInv, Counts
  <2>3. \A k \in 1..info.test_count : bin'[k] = bin[k]
    BY <1>1, <1>7, <2>2, SMT DEF WriteRecord, TypeOK, Records, Header
  <2>4. Kept' = Kept
    BY <1>7, <2>3 DEF WriteRecord, Kept
  <2>5. PassCounted'
    BY <1>3, <1>7, <2>4 DEF WriteRecord
  <2>6. head'.pass_count = IF temp \in Pass THEN head.pass_count + 1 ELSE head.pass_count
    BY <1>1, <1>7, SMT DEF WriteRecord, Counted, TypeOK, Header
  <2> QED BY <1>7, <2>2, <2>5, <2>6 DEF WriteRecord, PassInv, ui
<1>8. CASE WriteInfo
  <2>1. CASE todo = <<"info">> /\ ToInfo
    <3>1. todo' = <<>> /\ temp' = None /\ card' = card /\ bin' = bin /\ temp \in Results
      BY <1>8, <2>1, FileLists DEF WriteInfo, ToInfo
    <3>2. card => Kept' = Append(Kept, temp) /\ info' = head
      BY <1>1, <1>8, <2>1, SMT DEF WriteInfo, ToInfo, Kept, TypeOK, Header, IInv
    <3>3. card => PassCounted'
      <4> SUFFICES ASSUME card PROVE PassCounted'
        OBVIOUS
      <4>1. Passed(Kept)' = IF temp \in Pass THEN Passed(Kept) + 1 ELSE Passed(Kept)
        <5>1. Passed(Append(Kept, temp)) =
                 IF temp \in Pass THEN Passed(Kept) + 1 ELSE Passed(Kept)
          BY <1>1, <3>1, PassedGrows
        <5> QED BY <3>2, <5>1 DEF Passed
      <4>2. info'.pass_count = IF temp \in Pass THEN info.pass_count + 1 ELSE info.pass_count
        BY <2>1, <3>1, <3>2 DEF PassInv
      <4> QED BY <1>1, <4>1, <4>2 DEF PassCounted
    <3>4. ~card => PassCounted'
      BY <1>3, <1>8 DEF WriteInfo, Kept
    <3> QED BY <3>1, <3>3, <3>4, FileListsDiffer DEF PassInv
  <2>2. CASE todo = <<"info">> /\ ToFirst
    <3>1. Kept' = Kept /\ info'.pass_count = info.pass_count /\ temp' = None
      BY <1>8, <2>2, FileLists, SMT DEF WriteInfo, ToFirst, Kept, NewHead, NoFile
    <3> QED BY <1>3, <3>1 DEF PassInv
  <2>3. CASE todo = <<"info", "unlink">> /\ ToDelete
    <3>1. todo' = <<"unlink">>
      BY <1>8, <2>3, FileLists DEF WriteInfo
    <3>2. card => Kept' = <<>> /\ info'.pass_count = 0
      BY <1>8, <2>3, SMT DEF WriteInfo, ToDelete, Kept, NewHead
    <3>3. card => PassCounted'
      BY <1>2, <3>2 DEF PassCounted, Passed
    <3>4. ~card => PassCounted'
      BY <1>3, <1>8 DEF WriteInfo, Kept
    <3> QED BY <3>1, <3>3, <3>4, FileListsDiffer DEF PassInv
  <2> QED BY <1>8, <2>1, <2>2, <2>3, FileLists DEF WriteInfo, IInv, Stages
<1>9. CASE Delete
  <2>1. PassCounted'
    BY <1>3, <1>9 DEF Delete, Kept
  <2> QED BY <1>9, <2>1, FileListsDiffer DEF Delete, DeleteFiles, PassInv
<1>10. CASE Unlink
  <2>1. todo = <<"unlink">> /\ todo' = <<>> /\ ToUnlink
    BY <1>10, FileLists DEF Unlink, IInv, Stages
  <2>2. Kept' = Kept
    BY <1>10, <2>1, SMT DEF Unlink, ToUnlink, Kept, NewHead
  <2>3. PassCounted'
    BY <1>3, <1>10, <2>2 DEF Unlink
  <2> QED BY <2>1, <2>3, FileListsDiffer DEF PassInv
<1>11. CASE UNCHANGED <<card, head, info, bin, temp, todo>>
  <2>1. PassCounted'
    BY <1>3, <1>11 DEF Kept
  <2> QED BY <1>11, <2>1 DEF PassInv
<1> QED BY <1>4, <1>5, <1>6, <1>7, <1>8, <1>9, <1>10, <1>11 DEF Next, Open, Leave, Move, vars

(* The header on the card counts the passed tests among the records on the *)
(* card at every instant, for any capacity and any results.                *)
THEOREM CountIsRight == Spec => []PassCounted
<1>1. Init => PassInv
  <2> SUFFICES ASSUME Init PROVE PassInv
    OBVIOUS
  <2>1. {k \in DOMAIN Kept : Kept[k] \in Pass} = {} /\ info.pass_count = 0
    BY DEF Init, Kept, NoFile
  <2>2. PassCounted
    BY <2>1, FS_EmptySet DEF PassCounted, Passed
  <2> QED BY <2>2, FileListsDiffer DEF Init, PassInv
<1>2. PassInv => PassCounted
  BY DEF PassInv
<1> QED BY Invariant, StepPass, <1>1, <1>2, PTL DEF Spec
=============================================================================
