-------------------------- MODULE StepStoreProofs --------------------------
(***************************************************************************)
(* The test files and their flash image, for any number of files and of    *)
(* steps.  A key leaves several images to write, and the power may go      *)
(* between any two, so the invariant speaks of every image that is in the  *)
(* flash or on its way there: each is one the instrument can boot from,    *)
(* and the last of them is what the RAM holds.                             *)
(***************************************************************************)
EXTENDS StepStore, SequenceTheorems, TLAPS

Stored == Steps \cup {Erased}

(* the headers of the RAM, and those of an image: a file in use has a step, *)
(* and so has the default file once the first boot has finished             *)
Counted(h) == /\ h[0].totalstep >= 1
              /\ \A n \in Files : h[n].en => h[n].totalstep >= 1
FlashOK(fl) == /\ \A n \in Files : fl.files[n].en => fl.files[n].totalstep >= 1
               /\ fl.bkp => fl.files[0].totalstep >= 1

(* an image of the save of an edit: the loaded file has one of the two lengths, *)
(* and at each place the step from before or from after                         *)
CutBetween(fl, before, after) ==
  /\ fl.bkp
  /\ fl.current_file = 0 \/ fl.files[fl.current_file].en =>
           /\ fl.files[fl.current_file].totalstep \in {Len(before), Len(after)}
           /\ \A k \in 1..fl.files[fl.current_file].totalstep :
                \E l \in {before, after} :
                   k \in DOMAIN l /\ fl.steps[fl.current_file][k] = l[k]
CutOK(fl) == CutBetween(fl, edit[1], edit[2])

(* the flash once the present key has written, and that it holds what the RAM *)
(* does: a row that is not in use may differ, for F2 counts a step in a row   *)
(* whose window is then left                                                  *)
Final == IF todo = <<>> THEN flash ELSE todo[Len(todo)]
Synced(fl) ==
  /\ fl.bkp
  /\ fl.current_file = current_file
  /\ \A n \in Files : /\ fl.files[n].en = file_info[n].en
                      /\ n = 0 \/ file_info[n].en => fl.files[n].totalstep = file_info[n].totalstep
  /\ InUse => Load(fl, fl.files, current_file) = list

Images(s) == {s[i] : i \in 1..Len(s)}

(* the inductive invariant *)
FlashInv == \A fl \in {flash} \cup Images(todo) : FlashOK(fl)
CutInv   == edit # <<>> => \A fl \in {flash} \cup Images(todo) : CutOK(fl)
RamInv   == on => /\ Len(list) >= 1
                  /\ Counted(file_info)
                  /\ TotalIsSize
                  /\ Synced(Final)
Inv == TypeOK /\ FlashInv /\ CutInv /\ RamInv

-----------------------------------------------------------------------------
\* Row 0, the default file, and slot 1 exist.
LEMMA ZeroIsFile == 0 \in Files /\ 1 \in Slots /\ Files \subseteq Nat /\ Slots \subseteq Nat
  BY StoreAssumption DEF Files, Slots

\* The images of two calls, one after the other; the last is the second's.
LEMMA ConcatImages ==
  ASSUME NEW s \in Seq(Flash), NEW t \in Seq(Flash), Len(t) >= 1
  PROVE  /\ s \o t \in Seq(Flash)
         /\ s \o t # <<>>
         /\ Len(s \o t) >= 1
         /\ Images(s \o t) \subseteq Images(s) \cup Images(t)
         /\ (s \o t)[Len(s \o t)] = t[Len(t)]
<1> DEFINE u == s \o t
<1>1. u \in Seq(Flash) /\ Len(u) = Len(s) + Len(t)
  BY ConcatProperties
<1>2. /\ Len(s) \in Nat /\ Len(t) \in Nat
      /\ \A i \in 1..Len(u) : u[i] = IF i <= Len(s) THEN s[i] ELSE t[i - Len(s)]
  BY <1>1, ConcatProperties
<1>3. u[Len(u)] = t[Len(t)]
  <2>1. Len(u) \in 1..Len(u) /\ ~(Len(u) <= Len(s)) /\ Len(u) - Len(s) = Len(t)
    BY <1>1, <1>2
  <2> QED BY <1>2, <2>1
<1>4. Images(u) \subseteq Images(s) \cup Images(t)
  <2> SUFFICES ASSUME NEW i \in 1..Len(u)
               PROVE  u[i] \in Images(s) \cup Images(t)
    BY DEF Images
  <2>1. CASE i <= Len(s)
    <3>1. u[i] = s[i] /\ i \in 1..Len(s)
      BY <2>1, <1>2
    <3> QED BY <3>1 DEF Images
  <2>2. CASE ~(i <= Len(s))
    <3>1. u[i] = t[i - Len(s)] /\ i - Len(s) \in 1..Len(t)
      BY <2>2, <1>1, <1>2
    <3> QED BY <3>1 DEF Images
  <2> QED BY <2>1, <2>2
<1>5. u # <<>>
  BY <1>1, <1>2
<1> QED BY <1>1, <1>2, <1>3, <1>4, <1>5

\* A call that writes one image.
LEMMA OneImage ==
  ASSUME NEW im \in Flash
  PROVE  /\ <<im>> \in Seq(Flash)
         /\ Len(<<im>>) = 1
         /\ <<im>> # <<>>
         /\ <<im>>[1] = im
         /\ Last(<<im>>) = im
         /\ Images(<<im>>) = {im}
<1>1. <<im>> \in Seq(Flash) /\ Len(<<im>>) = 1 /\ <<im>>[1] = im /\ <<im>> # <<>>
  OBVIOUS
<1>2. Last(<<im>>) = im
  BY <1>1 DEF Last
<1>3. Images(<<im>>) = {im}
  <2>1. 1..Len(<<im>>) = {1}
    BY <1>1
  <2> QED BY <1>1, <2>1 DEF Images
<1> QED BY <1>1, <1>2, <1>3

(* what SaveSteps leaves in the flash *)
SameHeaders(im, fl) == /\ im \in Flash
                       /\ im.bkp = fl.bkp
                       /\ im.current_file = fl.current_file
                       /\ im.files = fl.files
StepsWritten(im, fl, n, l, k) ==
    /\ \A m \in Files \ {n} : im.steps[m] = fl.steps[m]
    /\ \A s \in Slots : im.steps[n][s] = IF s <= k THEN l[s] ELSE fl.steps[n][s]

\* save_steps_to_flash: its k-th image has the first k steps of the list, and
\* no image touches a header or another file.
LEMMA SaveStepsFacts ==
  ASSUME NEW fl \in Flash, NEW n \in Files, NEW l \in Seq(Stored),
         Len(l) >= 1, Len(l) <= TOTALSTEP_NUM
  PROVE  /\ SaveSteps(fl, n, l) \in Seq(Flash)
         /\ Len(SaveSteps(fl, n, l)) = Len(l)
         /\ \A im \in Images(SaveSteps(fl, n, l)) :
               /\ SameHeaders(im, fl)
               /\ \E k \in 1..Len(l) : StepsWritten(im, fl, n, l, k)
         /\ SameHeaders(Last(SaveSteps(fl, n, l)), fl)
         /\ StepsWritten(Last(SaveSteps(fl, n, l)), fl, n, l, Len(l))
<1> DEFINE row(k) == [s \in Slots |-> IF s <= k THEN l[s] ELSE fl.steps[n][s]]
           im(k) == [fl EXCEPT !.steps[n] = row(k)]
           S == SaveSteps(fl, n, l)
<1>1. Len(l) \in Nat /\ S = [k \in 1..Len(l) |-> im(k)]
  BY DEF SaveSteps
<1>2. ASSUME NEW k \in 1..Len(l)
      PROVE  SameHeaders(im(k), fl) /\ StepsWritten(im(k), fl, n, l, k)
  <2>1. ASSUME NEW s \in Slots, s <= k
        PROVE  l[s] \in Stored
    <3>1. s \in 1..Len(l)
      BY <2>1, <1>1, StoreAssumption DEF Slots
    <3> QED BY <3>1
  <2>2. fl.steps \in [Files -> [Slots -> Stored]]
    BY DEF Flash, Stored
  <2>3. row(k) \in [Slots -> Stored]
    BY <2>1, <2>2
  <2>4. [fl.steps EXCEPT ![n] = row(k)] \in [Files -> [Slots -> Stored]]
    BY <2>2, <2>3
  <2> HIDE DEF row
  <2>5. im(k) \in Flash
    BY <2>4 DEF Flash, Stored
  <2>6. /\ im(k).bkp = fl.bkp
        /\ im(k).current_file = fl.current_file
        /\ im(k).files = fl.files
        /\ im(k).steps = [fl.steps EXCEPT ![n] = row(k)]
    BY DEF Flash
  <2>7. im(k).steps[n] = row(k) /\ \A m \in Files \ {n} : im(k).steps[m] = fl.steps[m]
    BY <2>2, <2>6
  <2>8. \A s \in Slots : row(k)[s] = IF s <= k THEN l[s] ELSE fl.steps[n][s]
    BY DEF row
  <2> QED BY <2>5, <2>6, <2>7, <2>8 DEF SameHeaders, StepsWritten
<1> HIDE DEF im
<1>3. S \in Seq(Flash) /\ Len(S) = Len(l) /\ \A k \in 1..Len(l) : S[k] = im(k)
  <2>1. \A k \in 1..Len(l) : im(k) \in Flash
    BY <1>2 DEF SameHeaders
  <2>2. S \in [1..Len(l) -> Flash]
    BY <1>1, <2>1
  <2> HIDE DEF S
  <2>3. S \in Seq(Flash)
    BY <1>1, <2>2
  <2>4. Len(S) = Len(l)
    BY <1>1, <2>2, <2>3
  <2> QED BY <1>1, <2>3, <2>4
<1>4. Last(S) = im(Len(l)) /\ Len(l) \in 1..Len(l)
  BY <1>1, <1>3 DEF Last
<1> HIDE DEF S
<1>5. \A x \in Images(S) : \E k \in 1..Len(l) : x = im(k)
  BY <1>3 DEF Images
<1>6. \A x \in Images(S) : SameHeaders(x, fl) /\ \E k \in 1..Len(l) : StepsWritten(x, fl, n, l, k)
  BY <1>2, <1>5
<1>7. SameHeaders(Last(S), fl) /\ StepsWritten(Last(S), fl, n, l, Len(l))
  BY <1>2, <1>4
<1> QED BY <1>3, <1>6, <1>7 DEF S

\* The list read_flash_to_list builds: as long as the header says, at least one
\* step, and read from the slots of the file.
LEMMA LoadFacts ==
  ASSUME NEW fl \in Flash, NEW h \in [Files -> File], NEW n \in Files
  PROVE  /\ Load(fl, h, n) \in Seq(Stored)
         /\ Len(Load(fl, h, n)) >= 1
         /\ Len(Load(fl, h, n)) <= TOTALSTEP_NUM
         /\ h[n].totalstep >= 1 =>
              /\ Len(Load(fl, h, n)) = h[n].totalstep
              /\ \A k \in 1..h[n].totalstep : Load(fl, h, n)[k] = fl.steps[n][k]
<1>1. h[n].totalstep \in 0..TOTALSTEP_NUM /\ TOTALSTEP_NUM \in 1..254
  BY StoreAssumption DEF File
<1>2. CASE h[n].totalstep = 0
  <2>1. Load(fl, h, n) = <<Step(1, Default)>>
    BY <1>2 DEF Load, NewList
  <2>2. Step(1, Default) \in Stored
    BY ZeroIsFile, StoreAssumption DEF Step, Stored, Steps
  <2> HIDE DEF Stored
  <2> QED BY <1>1, <1>2, <2>1, <2>2
<1>3. CASE h[n].totalstep # 0
  <2> DEFINE T == h[n].totalstep
             L == Load(fl, h, n)
  <2>1. T \in Nat /\ T >= 1 /\ T <= TOTALSTEP_NUM
    BY <1>1, <1>3
  <2>2. L = [k \in 1..T |-> fl.steps[n][k]]
    BY <1>3 DEF Load
  <2>3. \A k \in 1..T : fl.steps[n][k] \in Stored
    BY <1>1, <2>1 DEF Flash, Stored, Slots
  <2> HIDE DEF T, L, Stored
  <2>4. L \in Seq(Stored) /\ Len(L) = T /\ \A k \in 1..T : L[k] = fl.steps[n][k]
    BY <2>1, <2>2, <2>3
  <2> QED BY <2>1, <2>4 DEF L, T
<1> QED BY <1>2, <1>3

\* A file whose header and slots agree with a list is loaded as that list.
LEMMA LoadIs ==
  ASSUME NEW fl \in Flash, NEW h \in [Files -> File], NEW n \in Files,
         NEW l \in Seq(Stored), Len(l) >= 1, h[n].totalstep = Len(l),
         \A k \in 1..Len(l) : fl.steps[n][k] = l[k]
  PROVE  Load(fl, h, n) = l
<1> DEFINE L == Load(fl, h, n)
<1>1. L \in Seq(Stored) /\ Len(L) = Len(l) /\ \A k \in 1..Len(l) : L[k] = l[k]
  BY LoadFacts
<1> HIDE DEF L
<1>2. L = l
  BY <1>1, SeqEqual
<1> QED BY <1>2 DEF L

\* A part of a list of steps.
LEMMA CutSteps ==
  ASSUME NEW s \in Seq(Payloads), NEW a \in Nat, NEW b \in Nat,
         a >= 1, a <= b + 1, b <= Len(s)
  PROVE  SubSeq(s, a, b) \in Seq(Payloads) /\ Len(SubSeq(s, a, b)) = b + 1 - a
<1> DEFINE u == SubSeq(s, a, b)
<1>1. a \in Int /\ b \in Int /\ \A k \in a..b : s[k] \in Payloads
  OBVIOUS
<1>2. u \in Seq(Payloads) /\ Len(u) = IF a <= b THEN b - a + 1 ELSE 0
  BY <1>1, SubSeqProperties
<1> HIDE DEF u
<1>3. Len(u) = b + 1 - a
  BY <1>2
<1> QED BY <1>2, <1>3 DEF u

\* A list is numbered from 1, so each number fits its byte below 255.
LEMMA NumberedFacts ==
  ASSUME NEW u \in Seq(Payloads), Len(u) >= 1, Len(u) <= TOTALSTEP_NUM
  PROVE  /\ Numbered(u) \in Seq(Steps)
         /\ Len(Numbered(u)) >= 1 /\ Len(Numbered(u)) <= TOTALSTEP_NUM
<1>1. Len(u) \in Nat /\ DOMAIN u = 1..Len(u) /\ TOTALSTEP_NUM \in 1..254
  BY StoreAssumption
<1>2. \A k \in 1..Len(u) : Step(k, u[k]) \in Steps
  BY <1>1 DEF Step, Steps, Slots
<1>3. Numbered(u) = [k \in 1..Len(u) |-> Step(k, u[k])]
  BY <1>1 DEF Numbered
<1> HIDE DEF Steps, Step
<1>4. Numbered(u) \in [1..Len(u) -> Steps]
  BY <1>2, <1>3
<1> QED BY <1>1, <1>4

\* An edit of the step panel leaves between one and TOTALSTEP_NUM steps.
LEMMA EditedFacts ==
  ASSUME NEW s \in Seq(Payloads), Len(s) >= 1, Len(s) <= TOTALSTEP_NUM,
         NEW l \in Edited(s)
  PROVE  l \in Seq(Steps) /\ Len(l) >= 1 /\ Len(l) <= TOTALSTEP_NUM
<1> DEFINE Fits(u) == u \in Seq(Payloads) /\ Len(u) >= 1 /\ Len(u) <= TOTALSTEP_NUM
           inserted == {InsertAt(s, k + 1, Default) : k \in {k \in DOMAIN s : Room(s)}}
           removed == {RemoveAt(s, k) : k \in {k \in DOMAIN s : Len(s) > 1}}
           changed == {ReplaceAt(s, k, p) : k \in DOMAIN s, p \in Payloads}
           moved == {[s EXCEPT ![k] = s[k + 1], ![k + 1] = s[k]] : k \in 1..Len(s) - 1}
<1>1. /\ Len(s) \in Nat /\ DOMAIN s = 1..Len(s)
      /\ Default \in Payloads /\ \A k \in 1..Len(s) : s[k] \in Payloads
  BY StoreAssumption
<1>2. TOTALSTEP_NUM \in Nat /\ Len(s) \in Nat
  BY StoreAssumption
<1>3. ASSUME NEW u, NEW k \in DOMAIN s, Room(s), u = InsertAt(s, k + 1, Default)
      PROVE  Fits(u)
  <2> DEFINE front == SubSeq(s, 1, k)
             back == SubSeq(s, k + 1, Len(s))
             both == front \o <<Default>>
  <2>1. k \in Nat /\ k >= 1 /\ k <= Len(s) /\ (k + 1) - 1 = k
    BY <1>1
  <2>2. u = both \o back
    BY <1>3, <2>1 DEF InsertAt
  <2>3. front \in Seq(Payloads) /\ Len(front) = k
    BY <1>1, <2>1, CutSteps
  <2>4. back \in Seq(Payloads) /\ Len(back) = Len(s) - k
    BY <1>1, <2>1, CutSteps
  <2> HIDE DEF front, back
  <2>5. both \in Seq(Payloads) /\ Len(both) = k + 1
    BY <1>1, <2>1, <2>3, ConcatProperties
  <2> HIDE DEF both
  <2>6. u \in Seq(Payloads) /\ Len(u) = Len(s) + 1
    <3>1. u \in Seq(Payloads) /\ Len(u) = Len(both) + Len(back)
      BY <2>2, <2>4, <2>5, ConcatProperties
    <3>2. (k + 1) + (Len(s) - k) = Len(s) + 1
      BY <1>2, <2>1
    <3> QED BY <2>4, <2>5, <3>1, <3>2
  <2>7. Len(s) < TOTALSTEP_NUM /\ TOTALSTEP_NUM \in Nat /\ Len(s) \in Nat
    BY <1>2, <1>3 DEF Room
  <2>8. Len(s) + 1 >= 1 /\ Len(s) + 1 <= TOTALSTEP_NUM
    BY <2>7
  <2> QED BY <2>6, <2>8
<1>4. ASSUME NEW u, NEW k \in DOMAIN s, Len(s) > 1, u = RemoveAt(s, k)
      PROVE  Fits(u)
  <2> DEFINE front == SubSeq(s, 1, k - 1)
             back == SubSeq(s, k + 1, Len(s))
  <2>1. k \in Nat /\ k - 1 \in Nat /\ k <= Len(s)
    BY <1>1
  <2>2. u = front \o back
    BY <1>4 DEF RemoveAt
  <2>3. front \in Seq(Payloads) /\ Len(front) = k - 1
    BY <1>1, <2>1, CutSteps
  <2>4. back \in Seq(Payloads) /\ Len(back) = Len(s) - k
    BY <1>1, <2>1, CutSteps
  <2> HIDE DEF front, back
  <2>5. u \in Seq(Payloads) /\ Len(u) = Len(s) - 1
    BY <2>1, <2>2, <2>3, <2>4, ConcatProperties
  <2>6. Len(s) > 1 /\ TOTALSTEP_NUM \in Nat /\ Len(s) \in Nat
    BY <1>2, <1>4
  <2>7. Len(s) - 1 >= 1 /\ Len(s) - 1 <= TOTALSTEP_NUM
    BY <2>6
  <2> QED BY <2>5, <2>7
<1>5. ASSUME NEW u, NEW k \in DOMAIN s, NEW p \in Payloads, u = ReplaceAt(s, k, p)
      PROVE  Fits(u)
  <2>1. u \in [1..Len(s) -> Payloads]
    BY <1>1, <1>5 DEF ReplaceAt
  <2> QED BY <1>1, <2>1
<1>6. ASSUME NEW u, NEW k \in 1..Len(s) - 1, u = [s EXCEPT ![k] = s[k + 1], ![k + 1] = s[k]]
      PROVE  Fits(u)
  <2>1. k \in 1..Len(s) /\ k + 1 \in 1..Len(s)
    BY <1>1
  <2>2. u \in [1..Len(s) -> Payloads]
    BY <1>1, <1>6, <2>1
  <2> QED BY <1>1, <2>2
<1>7. PICK u \in inserted \cup removed \cup changed \cup moved : l = Numbered(u)
  BY DEF Edited
<1>8. Fits(u)
  <2> HIDE DEF Fits
  <2>1. CASE u \in inserted
    BY <1>3, <2>1
  <2>2. CASE u \in removed
    BY <1>4, <2>2
  <2>3. CASE u \in changed
    BY <1>5, <2>3
  <2>4. CASE u \in moved
    BY <1>6, <2>4
  <2> HIDE DEF inserted, removed, changed, moved
  <2> QED BY <1>7, <2>1, <2>2, <2>3, <2>4
<1> QED BY <1>7, <1>8, NumberedFacts

-----------------------------------------------------------------------------
(* what the other writes leave in the flash *)
HeadersWritten(im, fl, headers) == /\ im \in Flash
                                   /\ im.bkp = fl.bkp
                                   /\ im.current_file = fl.current_file
                                   /\ im.steps = fl.steps
                                   /\ im.files = headers
InfoWritten(im, fl, n) == /\ im \in Flash
                          /\ im.bkp = TRUE
                          /\ im.current_file = n
                          /\ im.steps = fl.steps
                          /\ im.files = fl.files

(* a key's images: each may be what a cut leaves *)
Writes(s) == /\ s \in Seq(Flash)
             /\ Len(s) >= 1
             /\ s # <<>>
             /\ Last(s) = s[Len(s)]
             /\ Last(s) \in Images(s)
             /\ \A im \in Images(s) : im \in Flash /\ FlashOK(im)

\* A list of images, each of which the instrument can boot from.
LEMMA WritesIs ==
  ASSUME NEW s \in Seq(Flash), Len(s) >= 1, \A im \in Images(s) : FlashOK(im)
  PROVE  Writes(s)
<1>1. s # <<>> /\ Last(s) = s[Len(s)] /\ Len(s) \in 1..Len(s)
  BY DEF Last
<1>2. Last(s) \in Images(s) /\ \A im \in Images(s) : im \in Flash
  BY <1>1 DEF Images
<1> QED BY <1>1, <1>2 DEF Writes

\* One such image.
LEMMA OneWrite ==
  ASSUME NEW im \in Flash, FlashOK(im)
  PROVE  Writes(<<im>>) /\ Last(<<im>>) = im /\ Images(<<im>>) = {im}
<1> DEFINE u == <<im>>
<1>1. u \in Seq(Flash) /\ Len(u) >= 1 /\ Images(u) = {im} /\ Last(u) = im
  BY OneImage
<1> HIDE DEF u
<1>2. \A x \in Images(u) : FlashOK(x)
  BY <1>1
<1>3. Writes(u)
  BY <1>1, <1>2, WritesIs
<1> QED BY <1>1, <1>3 DEF u

\* save_file_to_flash writes the header of one file and nothing else.
LEMMA SaveFileFacts ==
  ASSUME NEW fl \in Flash, FlashOK(fl), NEW h \in [Files -> File], Counted(h), NEW n \in Files
  PROVE  /\ Writes(SaveFile(fl, h, n))
         /\ HeadersWritten(Last(SaveFile(fl, h, n)), fl, [fl.files EXCEPT ![n] = h[n]])
         /\ FlashOK(Last(SaveFile(fl, h, n)))
         /\ Images(SaveFile(fl, h, n)) = {Last(SaveFile(fl, h, n))}
<1> DEFINE F == [fl.files EXCEPT ![n] = h[n]]
           im == [fl EXCEPT !.files = F]
<1>1. fl.files \in [Files -> File] /\ F \in [Files -> File]
  BY DEF Flash
<1>2. SaveFile(fl, h, n) = <<im>>
  BY DEF SaveFile
<1>3. \A m \in Files : F[m] = IF m = n THEN h[n] ELSE fl.files[m]
  BY <1>1
<1> HIDE DEF F
<1>4. /\ im \in Flash
      /\ im.bkp = fl.bkp /\ im.current_file = fl.current_file /\ im.steps = fl.steps
      /\ im.files = F
  BY <1>1 DEF Flash
<1> HIDE DEF im
<1>5. FlashOK(im)
  BY <1>3, <1>4, ZeroIsFile DEF FlashOK, Counted
<1>6. Writes(<<im>>) /\ Last(<<im>>) = im /\ Images(<<im>>) = {im}
  BY <1>4, <1>5, OneWrite
<1>7. HeadersWritten(im, fl, F)
  BY <1>4 DEF HeadersWritten
<1> QED BY <1>2, <1>5, <1>6, <1>7 DEF F

\* Writing the whole table of headers.
LEMMA SaveFilesFacts ==
  ASSUME NEW fl \in Flash, NEW h \in [Files -> File], Counted(h)
  PROVE  /\ Writes(SaveFiles(fl, h))
         /\ HeadersWritten(Last(SaveFiles(fl, h)), fl, h)
<1> DEFINE im == [fl EXCEPT !.files = h]
<1>1. SaveFiles(fl, h) = <<im>>
  BY DEF SaveFiles
<1>2. /\ im \in Flash
      /\ im.bkp = fl.bkp /\ im.current_file = fl.current_file /\ im.steps = fl.steps
      /\ im.files = h
  BY DEF Flash
<1> HIDE DEF im
<1>3. FlashOK(im)
  BY <1>2 DEF FlashOK, Counted
<1>4. Writes(<<im>>) /\ Last(<<im>>) = im /\ Images(<<im>>) = {im}
  BY <1>2, <1>3, OneWrite
<1>5. HeadersWritten(im, fl, h)
  BY <1>2 DEF HeadersWritten
<1> QED BY <1>1, <1>4, <1>5

\* Writing flash_info: the backup word and the number of the loaded file.
LEMMA SaveInfoFacts ==
  ASSUME NEW fl \in Flash, FlashOK(fl), fl.files[0].totalstep >= 1, NEW n \in Files
  PROVE  /\ Writes(SaveInfo(fl, n))
         /\ InfoWritten(Last(SaveInfo(fl, n)), fl, n)
<1> DEFINE im == [fl EXCEPT !.bkp = TRUE, !.current_file = n]
<1>1. SaveInfo(fl, n) = <<im>>
  BY DEF SaveInfo
<1>2. /\ im \in Flash
      /\ im.bkp = TRUE /\ im.current_file = n /\ im.steps = fl.steps
      /\ im.files = fl.files
  BY DEF Flash
<1> HIDE DEF im
<1>3. FlashOK(im)
  BY <1>2 DEF FlashOK
<1>4. Writes(<<im>>) /\ Last(<<im>>) = im /\ Images(<<im>>) = {im}
  BY <1>2, <1>3, OneWrite
<1>5. InfoWritten(im, fl, n)
  BY <1>2 DEF InfoWritten
<1> QED BY <1>1, <1>4, <1>5

\* Writing steps leaves, at each point, an image the instrument can boot from.
LEMMA SaveStepsWrites ==
  ASSUME NEW fl \in Flash, FlashOK(fl), NEW n \in Files, NEW l \in Seq(Stored),
         Len(l) >= 1, Len(l) <= TOTALSTEP_NUM
  PROVE  Writes(SaveSteps(fl, n, l))
<1>1. /\ SaveSteps(fl, n, l) \in Seq(Flash)
      /\ Len(SaveSteps(fl, n, l)) >= 1
      /\ \A im \in Images(SaveSteps(fl, n, l)) : SameHeaders(im, fl)
  BY SaveStepsFacts
<1>2. \A im : SameHeaders(im, fl) => FlashOK(im)
  BY DEF SameHeaders, FlashOK
<1> QED BY <1>1, <1>2, WritesIs

\* So does one call after another.
LEMMA ThenWrites ==
  ASSUME NEW s, NEW t, Writes(s), Writes(t)
  PROVE  /\ Writes(s \o t)
         /\ Last(s \o t) = Last(t)
         /\ Images(s \o t) \subseteq Images(s) \cup Images(t)
<1> DEFINE u == s \o t
<1>1. s \in Seq(Flash) /\ t \in Seq(Flash) /\ Len(t) >= 1 /\ Last(t) = t[Len(t)]
  BY DEF Writes
<1>2. /\ u \in Seq(Flash) /\ Len(u) >= 1 /\ u[Len(u)] = t[Len(t)]
      /\ Images(u) \subseteq Images(s) \cup Images(t)
  BY <1>1, ConcatImages
<1> HIDE DEF u
<1>3. \A im \in Images(u) : FlashOK(im)
  BY <1>2 DEF Writes
<1>4. Writes(u)
  BY <1>2, <1>3, WritesIs
<1>5. Last(u) = Last(t)
  BY <1>1, <1>2, <1>4 DEF Writes
<1> QED BY <1>2, <1>4, <1>5 DEF u

HeaderStepsWritten(s, fl, h, n, l) ==
    /\ Writes(s)
    /\ Last(s).bkp = fl.bkp
    /\ Last(s).current_file = fl.current_file
    /\ Last(s).files = [fl.files EXCEPT ![n] = h[n]]
    /\ StepsWritten(Last(s), fl, n, l, Len(l))

\* F1 and F2 write a header and then the steps of that file: other files stay.
LEMMA SaveHeaderStepsFacts ==
  ASSUME NEW fl \in Flash, FlashOK(fl), NEW h \in [Files -> File], Counted(h),
         NEW n \in Files, NEW l \in Seq(Stored), Len(l) >= 1, Len(l) <= TOTALSTEP_NUM
  PROVE  HeaderStepsWritten(SaveHeaderSteps(fl, h, n, l), fl, h, n, l)
<1> DEFINE a == SaveFile(fl, h, n)
           b == SaveSteps(Last(a), n, l)
           s == a \o b
<1>1. /\ Writes(a)
      /\ HeadersWritten(Last(a), fl, [fl.files EXCEPT ![n] = h[n]])
      /\ FlashOK(Last(a))
  BY SaveFileFacts
<1>2. SaveHeaderSteps(fl, h, n, l) = s
  BY DEF SaveHeaderSteps
<1> HIDE DEF a
<1>3. Last(a) \in Flash
  BY <1>1 DEF HeadersWritten
<1>4. /\ Writes(b)
      /\ SameHeaders(Last(b), Last(a))
      /\ StepsWritten(Last(b), Last(a), n, l, Len(l))
  BY <1>1, <1>3, SaveStepsWrites, SaveStepsFacts
<1> HIDE DEF b
<1>5. Writes(s) /\ Last(s) = Last(b)
  BY <1>1, <1>4, ThenWrites
<1> HIDE DEF s
<1>6. StepsWritten(Last(b), fl, n, l, Len(l))
  BY <1>1, <1>4 DEF HeadersWritten, StepsWritten
<1> QED BY <1>1, <1>2, <1>4, <1>5, <1>6 DEF HeadersWritten, SameHeaders, HeaderStepsWritten

-----------------------------------------------------------------------------
\* A key that only adds images keeps what is said of the flash.
LEMMA KeyWrites ==
  ASSUME TypeOK, FlashInv, flash' = flash, Writes(todo')
  PROVE  FlashInv' /\ todo' \in Seq(Flash) /\ Final' = Last(todo') /\ Last(todo') \in Flash
<1>1. FlashInv'
  BY DEF FlashInv, Writes
<1>2. Final' = Last(todo')
  BY DEF Final, Writes
<1> QED BY <1>1, <1>2 DEF Writes

\* A key that writes nothing leaves the pending images as they are.
LEMMA KeyIsQuiet ==
  ASSUME FlashInv, flash' = flash, todo' = todo
  PROVE  FlashInv' /\ Final' = Final
BY DEF FlashInv, Final

\* A new instrument: power off, the flash erased.
LEMMA InitInv == Init => Inv
<1> SUFFICES ASSUME Init PROVE Inv
  OBVIOUS
<1>1. NoFile \in File /\ 0 \in Files /\ 0 \in 0..FILE_NUM - 1
  BY StoreAssumption DEF NoFile, File, Files
<1>2. flash \in Flash
  <2>1. [n \in Files |-> [k \in Slots |-> Erased]] \in [Files -> [Slots -> Steps \cup {Erased}]]
    OBVIOUS
  <2> QED BY <1>1, <2>1 DEF Init, Flash
<1>3. list \in Seq(Steps \cup {Erased}) /\ Len(list) <= TOTALSTEP_NUM
  <2>1. list = <<>> /\ TOTALSTEP_NUM \in 1..254
    BY StoreAssumption DEF Init
  <2> QED BY <2>1
<1>4. edit \in Seq(Seq(Steps)) /\ Len(edit) \in {0, 2}
  <2>1. edit = <<>>
    BY DEF Init
  <2> QED BY <2>1
<1>5. TypeOK
  BY <1>1, <1>2, <1>3, <1>4 DEF Init, TypeOK
<1>6. FlashInv
  <2>1. todo = <<>> /\ Images(todo) = {}
    BY DEF Init, Images
  <2>2. FlashOK(flash)
    BY <1>1 DEF Init, FlashOK, NoFile
  <2> QED BY <2>1, <2>2 DEF FlashInv
<1>7. CutInv /\ RamInv
  BY DEF Init, CutInv, RamInv
<1> QED BY <1>5, <1>6, <1>7 DEF Inv

\* memorymanagement_init: a later boot loads what the flash holds, the first one
\* makes the default file and sets the backup word last.
LEMMA BootInv ==
  ASSUME Inv, Boot
  PROVE  Inv'
<1> USE DEF Inv
<1>1. /\ TypeOK /\ FlashInv
      /\ ~on /\ on' = TRUE /\ edit' = <<>> /\ flash' = flash /\ current_item' = current_item
      /\ flash \in Flash /\ FlashOK(flash) /\ flash.files \in [Files -> File]
  BY DEF Boot, TypeOK, FlashInv, Flash
<1>2. edit' \in Seq(Seq(Steps)) /\ Len(edit') \in {0, 2} /\ CutInv'
  BY <1>1 DEF CutInv
<1>3. CASE flash.bkp /\ LaterBoot
  <2>1. /\ file_info' = flash.files
        /\ current_file' = flash.current_file
        /\ list' = Load(flash, flash.files, flash.current_file)
        /\ todo' = <<>>
    BY <1>3 DEF LaterBoot
  <2>2. current_file' \in Files
    BY <1>1, <2>1 DEF Flash
  <2>3. Counted(file_info')
    BY <1>1, <1>3, <2>1 DEF FlashOK, Counted
  <2>4. /\ list' \in Seq(Stored) /\ Len(list') >= 1 /\ Len(list') <= TOTALSTEP_NUM
        /\ file_info'[current_file'].totalstep >= 1 =>
              Len(list') = file_info'[current_file'].totalstep
    BY <1>1, <2>1, <2>2, LoadFacts
  <2>5. TypeOK'
    BY <1>1, <1>2, <2>1, <2>2, <2>4 DEF TypeOK, Stored
  <2>6. TotalIsSize'
    BY <2>2, <2>3, <2>4 DEF TotalIsSize, InUse, Counted
  <2>7. Images(todo') = {} /\ Final' = flash
    BY <1>1, <2>1 DEF Images, Final
  <2>8. FlashInv'
    BY <1>1, <2>7 DEF FlashInv
  <2>9. Synced(flash)'
    BY <1>1, <1>3, <2>1 DEF Synced
  <2>10. RamInv'
    BY <1>1, <2>3, <2>4, <2>6, <2>7, <2>9 DEF RamInv
  <2> QED BY <1>2, <2>5, <2>8, <2>10
<1>4. CASE FirstBoot
  <2> DEFINE headers == [[n \in Files |-> NoFile] EXCEPT ![0] = [en |-> TRUE, totalstep |-> 1]]
             files == SaveFiles(flash, headers)
             steps == SaveSteps(Last(files), 0, NewList)
             info == SaveInfo(Last(steps), 0)
  <2>1. /\ file_info' = headers /\ current_file' = 0 /\ list' = NewList
        /\ todo' = (files \o steps) \o info
    BY <1>4 DEF FirstBoot
  <2>2. headers \in [Files -> File] /\ headers[0] = [en |-> TRUE, totalstep |-> 1] /\ Counted(headers)
    <3>1. NoFile \in File /\ [en |-> TRUE, totalstep |-> 1] \in File /\ 0 \in Files
      BY StoreAssumption DEF NoFile, File, Files
    <3>2. /\ headers \in [Files -> File]
          /\ \A n \in Files : headers[n] = IF n = 0 THEN [en |-> TRUE, totalstep |-> 1] ELSE NoFile
      BY <3>1
    <3> HIDE DEF headers
    <3> QED BY <3>1, <3>2 DEF Counted, NoFile
  <2> HIDE DEF headers
  <2>3. /\ NewList \in Seq(Stored) /\ Len(NewList) = 1 /\ NewList[1] = Step(1, Default)
        /\ TOTALSTEP_NUM \in 1..254 /\ 0 \in Files
    <3>1. Step(1, Default) \in Stored
      BY ZeroIsFile, StoreAssumption DEF Step, Stored, Steps
    <3> HIDE DEF Stored
    <3> QED BY <3>1, StoreAssumption, ZeroIsFile DEF NewList
  <2>4. Writes(files) /\ HeadersWritten(Last(files), flash, headers)
    BY <1>1, <2>2, SaveFilesFacts
  <2> HIDE DEF files
  <2>5. Last(files) \in Flash /\ FlashOK(Last(files))
    BY <2>4 DEF Writes
  <2>6. /\ Writes(steps) /\ SameHeaders(Last(steps), Last(files))
        /\ StepsWritten(Last(steps), Last(files), 0, NewList, Len(NewList))
    <3>1. NewList \in Seq(Stored) /\ Len(NewList) >= 1 /\ Len(NewList) <= TOTALSTEP_NUM
      BY <2>3
    <3>2. Writes(steps)
      BY <2>3, <2>5, <3>1, SaveStepsWrites
    <3>3. /\ SameHeaders(Last(steps), Last(files))
          /\ StepsWritten(Last(steps), Last(files), 0, NewList, Len(NewList))
      BY <2>3, <2>5, <3>1, SaveStepsFacts
    <3> QED BY <3>2, <3>3
  <2> HIDE DEF steps
  <2>7. Last(steps) \in Flash /\ FlashOK(Last(steps)) /\ Last(steps).files = headers
    BY <2>4, <2>6 DEF Writes, SameHeaders, HeadersWritten
  <2>8. Writes(info) /\ InfoWritten(Last(info), Last(steps), 0)
    BY <2>2, <2>3, <2>7, SaveInfoFacts
  <2> HIDE DEF info
  <2>9. Writes(todo') /\ Last(todo') = Last(info)
    <3>1. Writes(files \o steps)
      BY <2>4, <2>6, ThenWrites
    <3> QED BY <2>1, <2>8, <3>1, ThenWrites
  <2>10. FlashInv' /\ todo' \in Seq(Flash) /\ Final' = Last(info) /\ Last(info) \in Flash
    BY <1>1, <2>9, KeyWrites
  <2>11. TypeOK'
    BY <1>1, <1>2, <2>1, <2>2, <2>3, <2>10 DEF TypeOK, Stored
  <2>12. Load(Last(info), Last(info).files, 0) = NewList
    <3>1. /\ Last(info).files = headers /\ headers[0].totalstep = Len(NewList)
      BY <2>2, <2>3, <2>7, <2>8 DEF InfoWritten
    <3>2. \A k \in 1..Len(NewList) : Last(info).steps[0][k] = NewList[k]
      BY <2>3, <2>6, <2>8, ZeroIsFile DEF InfoWritten, StepsWritten, Slots
    <3> QED BY <2>2, <2>3, <2>10, <3>1, <3>2, LoadIs
  <2>13. Synced(Final)'
    BY <2>1, <2>7, <2>8, <2>10, <2>12 DEF Synced, InfoWritten
  <2>14. TotalIsSize'
    BY <2>1, <2>2, <2>3 DEF TotalIsSize
  <2>15. RamInv'
    BY <2>1, <2>2, <2>3, <2>10, <2>13, <2>14 DEF RamInv
  <2> QED BY <1>2, <2>10, <2>11, <2>15
<1> QED BY <1>3, <1>4 DEF Boot

\* A power cut loses the RAM and the pending images.
LEMMA PowerCutInv ==
  ASSUME Inv, PowerCut
  PROVE  Inv'
<1> USE DEF Inv
<1>1. NoFile \in File /\ 0 \in Files /\ 0 \in 0..FILE_NUM - 1
  BY StoreAssumption DEF NoFile, File, Files
<1>2. list' \in Seq(Steps \cup {Erased}) /\ Len(list') <= TOTALSTEP_NUM
  <2>1. list' = <<>> /\ TOTALSTEP_NUM \in 1..254
    BY StoreAssumption DEF PowerCut
  <2> QED BY <2>1
<1>3. TypeOK'
  BY <1>1, <1>2 DEF PowerCut, TypeOK
<1>4. Images(todo') = {}
  BY DEF PowerCut, Images
<1>5. FlashInv'
  BY <1>4 DEF PowerCut, FlashInv
<1>6. CutInv'
  BY <1>4 DEF PowerCut, CutInv, CutOK
<1>7. RamInv'
  BY DEF PowerCut, RamInv
<1> QED BY <1>3, <1>5, <1>6, <1>7

\* One more image reaches the flash: the last pending one stays the last.
LEMMA WriteInv ==
  ASSUME Inv, Write
  PROVE  Inv'
<1> USE DEF Inv
<1>1. /\ todo \in Seq(Flash) /\ todo # <<>> /\ flash' = Head(todo) /\ todo' = Tail(todo)
      /\ on' = on /\ ram' = ram /\ edit' = edit
  BY DEF Write, TypeOK
<1>2. /\ Len(todo) \in Nat /\ Len(todo) >= 1 /\ flash' = todo[1] /\ flash' \in Flash
      /\ todo' \in Seq(Flash) /\ Len(todo') = Len(todo) - 1
      /\ \A i \in 1..Len(todo') : todo'[i] = todo[i + 1]
  BY <1>1, HeadTailProperties, EmptySeq
<1>3. {flash'} \cup Images(todo') \subseteq Images(todo)
  <2>1. flash' \in Images(todo)
    BY <1>2 DEF Images
  <2>2. ASSUME NEW i \in 1..Len(todo') PROVE todo'[i] \in Images(todo)
    <3>1. i + 1 \in 1..Len(todo) /\ todo'[i] = todo[i + 1]
      BY <1>2
    <3> QED BY <3>1 DEF Images
  <2> QED BY <2>1, <2>2 DEF Images
<1>4. Final' = Final
  <2>1. CASE Len(todo) = 1
    <3>1. todo' = <<>>
      BY <1>2, <2>1, EmptySeq
    <3> QED BY <1>1, <1>2, <2>1, <3>1 DEF Final
  <2>2. CASE Len(todo) # 1
    <3>1. Len(todo') >= 1 /\ Len(todo') \in 1..Len(todo') /\ Len(todo') + 1 = Len(todo)
      BY <1>2, <2>2
    <3>2. todo' # <<>>
      BY <3>1
    <3> QED BY <1>1, <1>2, <3>1, <3>2 DEF Final
  <2> QED BY <2>1, <2>2
<1>5. TypeOK'
  BY <1>1, <1>2 DEF TypeOK, ram
<1>6. FlashInv'
  BY <1>3 DEF FlashInv
<1>7. CutInv'
  BY <1>1, <1>3 DEF CutInv, CutOK
<1>8. RamInv'
  BY <1>1, <1>4 DEF RamInv, ram, TotalIsSize, InUse, Synced
<1> QED BY <1>5, <1>6, <1>7, <1>8

\* What the invariant says when no write is pending.
LEMMA AtRest ==
  ASSUME Inv, Idle
  PROVE  /\ TypeOK /\ FlashInv /\ on /\ todo = <<>>
         /\ flash \in Flash /\ FlashOK(flash) /\ flash.files \in [Files -> File]
         /\ list \in Seq(Stored) /\ Len(list) >= 1 /\ Len(list) <= TOTALSTEP_NUM
         /\ file_info \in [Files -> File] /\ current_file \in Files
         /\ Counted(file_info) /\ TotalIsSize
         /\ Final = flash /\ Synced(flash)
         /\ flash.files[0].totalstep >= 1
<1>1. /\ TypeOK /\ FlashInv /\ on /\ todo = <<>> /\ Final = flash
      /\ Counted(file_info) /\ TotalIsSize /\ Len(list) >= 1 /\ Synced(flash)
  BY DEF Inv, Idle, RamInv, Final
<1>2. flash.files[0].totalstep >= 1
  BY <1>1, ZeroIsFile DEF FlashInv, FlashOK, Synced
<1> QED BY <1>1, <1>2 DEF TypeOK, FlashInv, Flash, Stored

\* The steps of the loaded file in the flash, if a user can select it.
LEMMA LoadedSteps ==
  ASSUME Inv, Idle, InUse
  PROVE  /\ file_info[current_file].totalstep = Len(list)
         /\ flash.files[current_file].totalstep = Len(list)
         /\ \A k \in 1..Len(list) : flash.steps[current_file][k] = list[k]
<1>1. /\ flash \in Flash /\ flash.files \in [Files -> File] /\ current_file \in Files
      /\ Len(list) >= 1 /\ TotalIsSize /\ on /\ Synced(flash)
  BY AtRest
<1>2. file_info[current_file].totalstep = Len(list)
  BY <1>1 DEF TotalIsSize
<1>3. /\ flash.files[current_file].totalstep = Len(list)
      /\ Load(flash, flash.files, current_file) = list
  BY <1>1, <1>2 DEF Synced, InUse
<1> QED BY <1>1, <1>2, <1>3, LoadFacts

\* The arrows and the knob only move the selection.
LEMMA MoveInv ==
  ASSUME Inv, Move
  PROVE  Inv'
<1>1. /\ on' = on /\ file_info' = file_info /\ current_file' = current_file /\ list' = list
      /\ flash' = flash /\ todo' = todo /\ edit' = edit
  BY DEF Move
<1>2. current_item' \in 0..FILE_NUM - 1
  <2>1. current_item \in 0..FILE_NUM - 1 /\ FILE_NUM \in Nat \ {0, 1}
    BY StoreAssumption DEF Inv, TypeOK
  <2> QED BY <2>1 DEF Move, LastRow
<1>3. TypeOK'
  BY <1>1, <1>2 DEF Inv, TypeOK
<1>4. FlashInv' /\ Final' = Final
  BY <1>1, KeyIsQuiet DEF Inv
<1>5. CutInv'
  BY <1>1 DEF Inv, CutInv, CutOK
<1>6. RamInv'
  BY <1>1, <1>4 DEF Inv, RamInv, TotalIsSize, InUse, Synced
<1> QED BY <1>3, <1>4, <1>5, <1>6 DEF Inv

\* A key of the file panel forgets the history of the last edit.
LEMMA UntouchedFacts ==
  ASSUME Inv, Untouched
  PROVE  /\ on' = on /\ flash' = flash
         /\ edit' \in Seq(Seq(Steps)) /\ Len(edit') \in {0, 2} /\ CutInv'
BY DEF Untouched, CutInv

\* F1: the header and the steps of the loaded file go to another row.
LEMMA StoreKeyInv ==
  ASSUME Inv, StoreKey
  PROVE  Inv'
<1>1. /\ Idle /\ Sel \in Files /\ Sel # 0 /\ current_item' = current_item + 1
      /\ Untouched /\ current_file' = current_file /\ list' = list
      /\ current_item \in 0..FILE_NUM - 1 /\ FILE_NUM \in Nat
  BY StoreAssumption DEF StoreKey, OnRow, Inv, TypeOK, Files, Sel
<1>2. current_item' \in 0..FILE_NUM - 1
  BY <1>1 DEF Sel, Files
<1>3. /\ on' = on /\ flash' = flash
      /\ edit' \in Seq(Seq(Steps)) /\ Len(edit') \in {0, 2} /\ CutInv'
  BY <1>1, UntouchedFacts
<1>4. CASE Sel = current_file /\ UNCHANGED <<file_info, todo>>
  <2>1. TypeOK'
    BY <1>1, <1>2, <1>3, <1>4 DEF Inv, TypeOK
  <2>2. FlashInv' /\ Final' = Final
    BY <1>3, <1>4, KeyIsQuiet DEF Inv
  <2>3. RamInv'
    BY <1>1, <1>3, <1>4, <2>2 DEF Inv, RamInv, TotalIsSize, InUse, Synced
  <2> QED BY <1>3, <2>1, <2>2, <2>3 DEF Inv
<1>5. CASE /\ Sel # current_file
           /\ file_info' = [file_info EXCEPT ![Sel] =
                               [file_info[current_file] EXCEPT !.en = @ \/ current_file = 0]]
           /\ todo' = SaveHeaderSteps(flash, file_info', Sel, list)
  <2> DEFINE row == [file_info[current_file] EXCEPT !.en = @ \/ current_file = 0]
  <2>1. /\ TypeOK /\ FlashInv /\ on
        /\ flash \in Flash /\ FlashOK(flash) /\ flash.files \in [Files -> File]
        /\ list \in Seq(Stored) /\ Len(list) >= 1 /\ Len(list) <= TOTALSTEP_NUM
        /\ file_info \in [Files -> File] /\ current_file \in Files
        /\ Counted(file_info) /\ TotalIsSize /\ Synced(flash)
    BY <1>1, AtRest
  <2>2. /\ row \in File /\ row.totalstep = file_info[current_file].totalstep
        /\ row.en = (file_info[current_file].en \/ current_file = 0)
    BY <2>1 DEF File
  <2>3. file_info' = [file_info EXCEPT ![Sel] = row]
    BY <1>5
  <2> HIDE DEF row
  <2>4. /\ file_info' \in [Files -> File]
        /\ \A n \in Files : file_info'[n] = IF n = Sel THEN row ELSE file_info[n]
    BY <2>1, <2>2, <2>3
  <2>5. Counted(file_info')
    BY <1>1, <2>1, <2>2, <2>4, ZeroIsFile DEF Counted
  <2> DEFINE f == Last(todo')
  <2>6. /\ Writes(todo') /\ f.bkp = flash.bkp /\ f.current_file = flash.current_file
        /\ f.files = [flash.files EXCEPT ![Sel] = file_info'[Sel]]
        /\ StepsWritten(f, flash, Sel, list, Len(list))
    <3>1. HeaderStepsWritten(todo', flash, file_info', Sel, list)
      BY <1>1, <1>5, <2>1, <2>4, <2>5, SaveHeaderStepsFacts
    <3> QED BY <3>1 DEF HeaderStepsWritten
  <2>7. FlashInv' /\ todo' \in Seq(Flash) /\ Final' = f /\ f \in Flash
    BY <1>3, <2>1, <2>6, KeyWrites
  <2> HIDE DEF f
  <2>8. TypeOK'
    BY <1>1, <1>2, <1>3, <2>1, <2>4, <2>7 DEF TypeOK
  <2>9. InUse' <=> InUse
    BY <1>1, <1>5, <2>1, <2>4 DEF InUse
  <2>10. TotalIsSize'
    BY <1>1, <1>3, <1>5, <2>1, <2>4, <2>9 DEF TotalIsSize
  <2>11. InUse' => Load(f, f.files, current_file) = list
    <3> SUFFICES ASSUME InUse PROVE Load(f, f.files, current_file) = list
      BY <2>9
    <3>1. /\ flash.files[current_file].totalstep = Len(list)
          /\ \A k \in 1..Len(list) : flash.steps[current_file][k] = list[k]
      BY <1>1, LoadedSteps
    <3>2. /\ f.files \in [Files -> File] /\ f.files[current_file].totalstep = Len(list)
          /\ f.steps[current_file] = flash.steps[current_file]
      BY <1>1, <1>5, <2>1, <2>4, <2>6, <3>1 DEF StepsWritten
    <3>3. \A k \in 1..Len(list) : f.steps[current_file][k] = list[k]
      BY <3>1, <3>2
    <3> QED BY <2>1, <2>7, <3>2, <3>3, LoadIs
  <2>12. Synced(Final)'
    <3>1. /\ Final'.bkp /\ Final'.current_file = current_file'
      BY <1>1, <2>1, <2>6, <2>7 DEF Synced
    <3>2. ASSUME NEW n \in Files
          PROVE  /\ f.files[n].en = file_info'[n].en
                 /\ n = 0 \/ file_info'[n].en => f.files[n].totalstep = file_info'[n].totalstep
      <4>1. CASE n = Sel
        BY <1>1, <2>1, <2>6, <4>1
      <4>2. CASE n # Sel
        BY <2>1, <2>4, <2>6, <4>2 DEF Synced
      <4> QED BY <4>1, <4>2
    <3> QED BY <1>1, <2>7, <2>11, <3>1, <3>2 DEF Synced
  <2>13. RamInv'
    BY <1>1, <2>1, <2>5, <2>10, <2>12 DEF RamInv
  <2> QED BY <1>3, <2>7, <2>8, <2>13 DEF Inv
<1> QED BY <1>4, <1>5 DEF StoreKey

\* F2: a new file on an empty row; the loaded file is read again from the flash,
\* and is the new one if that is the row it was on.
LEMMA NewKeyInv ==
  ASSUME Inv, NewKey
  PROVE  Inv'
<1>1. /\ Idle /\ Sel \in Files /\ Sel # 0 /\ ~file_info[Sel].en
      /\ Untouched /\ current_file' = current_file
      /\ current_item \in 0..FILE_NUM - 1 /\ FILE_NUM \in Nat
  BY StoreAssumption DEF NewKey, OnRow, Inv, TypeOK, Files, Sel
<1>2. current_item' \in 0..FILE_NUM - 1
  BY <1>1 DEF NewKey, LastRow
<1>3. /\ on' = on /\ flash' = flash
      /\ edit' \in Seq(Seq(Steps)) /\ Len(edit') \in {0, 2} /\ CutInv'
  BY <1>1, UntouchedFacts
<1>4. /\ TypeOK /\ FlashInv /\ on
      /\ flash \in Flash /\ FlashOK(flash) /\ flash.files \in [Files -> File]
      /\ list \in Seq(Stored) /\ Len(list) >= 1 /\ Len(list) <= TOTALSTEP_NUM
      /\ file_info \in [Files -> File] /\ current_file \in Files
      /\ Counted(file_info) /\ TotalIsSize /\ Synced(flash)
  BY <1>1, AtRest
<1>5. ASSUME NEW row \in {[en |-> b, totalstep |-> 1] : b \in BOOLEAN},
             file_info' = [file_info EXCEPT ![Sel] = row]
      PROVE  /\ row \in File /\ file_info' \in [Files -> File]
             /\ \A n \in Files : file_info'[n] = IF n = Sel THEN row ELSE file_info[n]
             /\ Counted(file_info')
  <2>1. row \in File /\ row.totalstep = 1
    BY StoreAssumption DEF File
  <2>2. /\ file_info' \in [Files -> File]
        /\ \A n \in Files : file_info'[n] = IF n = Sel THEN row ELSE file_info[n]
    BY <1>4, <1>5, <2>1
  <2>3. file_info'[0].totalstep >= 1
    BY <1>1, <1>4, <2>2, ZeroIsFile DEF Counted
  <2>4. ASSUME NEW n \in Files, file_info'[n].en
        PROVE  file_info'[n].totalstep >= 1
    <3>1. CASE n = Sel
      BY <2>1, <2>2, <3>1
    <3>2. CASE n # Sel
      BY <1>4, <2>2, <2>4, <3>2 DEF Counted
    <3> QED BY <3>1, <3>2
  <2>5. Counted(file_info')
    BY <2>3, <2>4 DEF Counted
  <2> QED BY <2>1, <2>2, <2>5
<1>6. CASE /\ file_info' = [file_info EXCEPT ![Sel] = [en |-> FALSE, totalstep |-> 1]]
           /\ UNCHANGED <<list, todo>>
  <2> DEFINE row == [en |-> FALSE, totalstep |-> 1]
  <2>1. /\ row.en = FALSE /\ row.totalstep = 1
        /\ row \in {[en |-> b, totalstep |-> 1] : b \in BOOLEAN}
        /\ file_info' = [file_info EXCEPT ![Sel] = row]
    BY <1>6
  <2> HIDE DEF row
  <2>2. /\ file_info' \in [Files -> File] /\ Counted(file_info')
        /\ \A n \in Files : file_info'[n] = IF n = Sel THEN row ELSE file_info[n]
    BY <1>5, <2>1
  <2>3. TypeOK'
    BY <1>1, <1>2, <1>3, <1>4, <1>6, <2>2 DEF TypeOK
  <2>4. FlashInv' /\ Final' = Final /\ Final = flash
    BY <1>1, <1>3, <1>4, <1>6, KeyIsQuiet, AtRest
  <2>5. InUse' => InUse /\ file_info'[current_file] = file_info[current_file]
    BY <1>1, <1>4, <2>1, <2>2 DEF InUse
  <2>6. TotalIsSize'
    BY <1>1, <1>3, <1>4, <1>6, <2>5 DEF TotalIsSize
  <2>7. ASSUME NEW n \in Files
        PROVE  /\ flash.files[n].en = file_info'[n].en
               /\ n = 0 \/ file_info'[n].en => flash.files[n].totalstep = file_info'[n].totalstep
    <3>1. CASE n = Sel
      <4>1. file_info'[n].en = FALSE /\ n # 0
        BY <1>1, <2>1, <2>2, <3>1
      <4>2. flash.files[n].en = file_info[n].en /\ flash.files[n] \in File
        BY <1>4 DEF Synced
      <4>3. flash.files[n].en = FALSE
        BY <1>1, <3>1, <4>2 DEF File
      <4> QED BY <4>1, <4>3
    <3>2. CASE n # Sel
      BY <1>4, <2>2, <3>2 DEF Synced
    <3> QED BY <3>1, <3>2
  <2>8. Synced(Final)'
    BY <1>1, <1>4, <1>6, <2>4, <2>5, <2>7 DEF Synced
  <2>9. RamInv'
    BY <1>4, <1>6, <2>2, <2>6, <2>8 DEF RamInv
  <2> QED BY <1>3, <2>3, <2>4, <2>9 DEF Inv
<1>7. CASE /\ file_info' = [file_info EXCEPT ![Sel] = [en |-> TRUE, totalstep |-> 1]]
           /\ todo' = SaveHeaderSteps(flash, file_info', Sel, NewList)
           /\ list' = Reload(Last(todo'), file_info', current_file)
  <2> DEFINE row == [en |-> TRUE, totalstep |-> 1]
             f == Last(todo')
  <2>1. /\ row.en = TRUE /\ row.totalstep = 1
        /\ row \in {[en |-> b, totalstep |-> 1] : b \in BOOLEAN}
        /\ file_info' = [file_info EXCEPT ![Sel] = row]
    BY <1>7
  <2> HIDE DEF row
  <2>2. /\ file_info' \in [Files -> File] /\ Counted(file_info')
        /\ \A n \in Files : file_info'[n] = IF n = Sel THEN row ELSE file_info[n]
    BY <1>5, <2>1
  <2>3. NewList \in Seq(Stored) /\ Len(NewList) >= 1 /\ Len(NewList) <= TOTALSTEP_NUM
    <3>1. Step(1, Default) \in Stored /\ TOTALSTEP_NUM \in 1..254
      BY ZeroIsFile, StoreAssumption DEF Step, Stored, Steps
    <3> HIDE DEF Stored
    <3> QED BY <3>1 DEF NewList
  <2>4. HeaderStepsWritten(todo', flash, file_info', Sel, NewList)
    BY <1>1, <1>4, <1>7, <2>2, <2>3, SaveHeaderStepsFacts
  <2>5. /\ Writes(todo') /\ f.bkp = flash.bkp /\ f.current_file = flash.current_file
        /\ f.files = [flash.files EXCEPT ![Sel] = file_info'[Sel]]
    BY <2>4 DEF HeaderStepsWritten
  <2>6. FlashInv' /\ todo' \in Seq(Flash) /\ Final' = f /\ f \in Flash
    BY <1>3, <1>4, <2>5, KeyWrites
  <2> HIDE DEF f
  <2>7. list' = Load(f, file_info', current_file)
    BY <1>7 DEF Reload, f
  <2>8. /\ list' \in Seq(Stored) /\ Len(list') >= 1 /\ Len(list') <= TOTALSTEP_NUM
        /\ file_info'[current_file].totalstep >= 1 =>
              Len(list') = file_info'[current_file].totalstep
    BY <1>4, <2>2, <2>6, <2>7, LoadFacts
  <2>9. TypeOK'
    BY <1>1, <1>2, <1>3, <1>4, <2>2, <2>6, <2>8 DEF TypeOK, Stored
  <2>10. TotalIsSize'
    BY <1>1, <1>4, <2>2, <2>8 DEF TotalIsSize, InUse, Counted
  <2>11. ASSUME NEW n \in Files
         PROVE  /\ f.files[n].en = file_info'[n].en
                /\ n = 0 \/ file_info'[n].en => f.files[n].totalstep = file_info'[n].totalstep
    <3>1. CASE n = Sel
      BY <1>1, <1>4, <2>5, <3>1
    <3>2. CASE n # Sel
      BY <1>4, <2>2, <2>5, <3>2 DEF Synced
    <3> QED BY <3>1, <3>2
  <2>12. InUse' => Load(f, f.files, current_file) = list'
    <3>1. InUse' => f.files[current_file].totalstep = file_info'[current_file].totalstep
      BY <1>1, <1>4, <2>11 DEF InUse
    <3> QED BY <2>7, <3>1 DEF Load
  <2>13. f.bkp /\ f.current_file = current_file
    BY <1>4, <2>5 DEF Synced
  <2>14. Synced(Final)'
    BY <1>1, <2>6, <2>11, <2>12, <2>13 DEF Synced
  <2>15. RamInv'
    BY <1>4, <2>2, <2>8, <2>10, <2>14 DEF RamInv
  <2> QED BY <1>3, <2>6, <2>9, <2>15 DEF Inv
<1> QED BY <1>6, <1>7 DEF NewKey

\* A key that loads a file and remembers which: F3, and F5 whose window is left.
LEMMA LoadingInv ==
  ASSUME Inv, Idle, Untouched, UNCHANGED <<file_info, current_item>>,
         NEW n \in Files, current_file' = n,
         list' = Load(flash, file_info, n), todo' = SaveInfo(flash, n)
  PROVE  Inv'
<1>1. /\ TypeOK /\ FlashInv /\ on
      /\ flash \in Flash /\ FlashOK(flash) /\ flash.files \in [Files -> File]
      /\ file_info \in [Files -> File] /\ Counted(file_info) /\ Synced(flash)
      /\ flash.files[0].totalstep >= 1
  BY AtRest
<1>2. /\ on' = on /\ flash' = flash
      /\ edit' \in Seq(Seq(Steps)) /\ Len(edit') \in {0, 2} /\ CutInv'
  BY UntouchedFacts
<1> DEFINE f == Last(todo')
<1>3. Writes(todo') /\ InfoWritten(f, flash, n)
  BY <1>1, SaveInfoFacts
<1>4. FlashInv' /\ todo' \in Seq(Flash) /\ Final' = f /\ f \in Flash
  BY <1>1, <1>2, <1>3, KeyWrites
<1> HIDE DEF f
<1>5. /\ list' \in Seq(Stored) /\ Len(list') >= 1 /\ Len(list') <= TOTALSTEP_NUM
      /\ file_info[n].totalstep >= 1 => Len(list') = file_info[n].totalstep
  BY <1>1, LoadFacts
<1>6. TypeOK'
  BY <1>1, <1>2, <1>4, <1>5 DEF TypeOK, Stored
<1>7. TotalIsSize'
  BY <1>1, <1>5 DEF TotalIsSize, InUse, Counted
<1>8. InUse' => Load(f, f.files, n) = list'
  <2>1. InUse' => flash.files[n].totalstep = file_info[n].totalstep
    BY <1>1 DEF InUse, Synced
  <2> QED BY <1>3, <2>1 DEF Load, InfoWritten
<1>9. \A m \in Files :
         /\ f.files[m].en = file_info'[m].en
         /\ m = 0 \/ file_info'[m].en => f.files[m].totalstep = file_info'[m].totalstep
  BY <1>1, <1>3 DEF Synced, InfoWritten
<1>10. Synced(Final)'
  BY <1>3, <1>4, <1>8, <1>9 DEF Synced, InfoWritten
<1>11. RamInv'
  BY <1>1, <1>5, <1>7, <1>10 DEF RamInv
<1> QED BY <1>2, <1>4, <1>6, <1>11 DEF Inv

\* F3 loads the file of the selected row.
LEMMA ReadKeyInv ==
  ASSUME Inv, ReadKey
  PROVE  Inv'
BY LoadingInv DEF ReadKey, OnRow

\* A key that takes files out of use and loads the default file.
LEMMA ForgettingInv ==
  ASSUME Inv, Idle, Untouched, UNCHANGED current_item,
         NEW headers \in [Files -> File], Counted(headers), file_info' = headers,
         current_file' = 0, list' = Load(flash, headers, 0),
         NEW images, Writes(images), NEW F, HeadersWritten(Last(images), flash, F),
         \A m \in Files : /\ F[m].en = headers[m].en
                          /\ m = 0 \/ headers[m].en => F[m].totalstep = headers[m].totalstep,
         todo' = images \o SaveInfo(Last(images), 0)
  PROVE  Inv'
<1>1. TypeOK /\ FlashInv /\ on /\ flash \in Flash /\ 0 \in Files
  BY AtRest, ZeroIsFile
<1>2. /\ on' = on /\ flash' = flash
      /\ edit' \in Seq(Seq(Steps)) /\ Len(edit') \in {0, 2} /\ CutInv'
  BY UntouchedFacts
<1>3. /\ Last(images) \in Flash /\ FlashOK(Last(images))
      /\ Last(images).files = F /\ Last(images).steps = flash.steps
      /\ F[0].totalstep = headers[0].totalstep /\ headers[0].totalstep >= 1
  BY <1>1 DEF Writes, HeadersWritten, Counted
<1> DEFINE info == SaveInfo(Last(images), 0)
           f == Last(todo')
<1>4. Writes(info) /\ InfoWritten(Last(info), Last(images), 0)
  BY <1>1, <1>3, SaveInfoFacts
<1> HIDE DEF info
<1>5. Writes(todo') /\ f = Last(info)
  BY <1>4, ThenWrites DEF info
<1>6. FlashInv' /\ todo' \in Seq(Flash) /\ Final' = f /\ f \in Flash
  BY <1>1, <1>2, <1>5, KeyWrites
<1> HIDE DEF f
<1>7. /\ f.bkp /\ f.current_file = 0 /\ f.files = F /\ f.steps = flash.steps
  BY <1>3, <1>4, <1>5 DEF InfoWritten
<1>8. /\ list' \in Seq(Stored) /\ Len(list') >= 1 /\ Len(list') <= TOTALSTEP_NUM
      /\ Len(list') = headers[0].totalstep
  BY <1>1, <1>3, LoadFacts
<1>9. TypeOK'
  BY <1>1, <1>2, <1>6, <1>8 DEF TypeOK, Stored
<1>10. TotalIsSize'
  BY <1>8 DEF TotalIsSize
<1>11. Load(f, f.files, 0) = list'
  BY <1>3, <1>7 DEF Load
<1>12. Synced(Final)'
  BY <1>6, <1>7, <1>11 DEF Synced
<1>13. RamInv'
  BY <1>1, <1>8, <1>10, <1>12 DEF RamInv
<1> QED BY <1>2, <1>6, <1>9, <1>13 DEF Inv

\* F5: one file, all files, or none.
LEMMA DeleteKeyInv ==
  ASSUME Inv, DeleteKey
  PROVE  Inv'
<1>1. /\ Idle /\ Untouched /\ UNCHANGED current_item
      /\ Sel \in Files /\ Sel # 0 /\ list' = Load(flash, file_info', current_file')
  BY StoreAssumption DEF DeleteKey, OnRow, Inv, TypeOK, Sel
<1>2. /\ flash \in Flash /\ FlashOK(flash) /\ flash.files \in [Files -> File]
      /\ file_info \in [Files -> File] /\ current_file \in Files
      /\ Counted(file_info) /\ Synced(flash) /\ 0 \in Files
  BY <1>1, AtRest, ZeroIsFile
<1> DEFINE one == [file_info EXCEPT ![Sel].en = FALSE]
           none == [n \in Files |-> [file_info[n] EXCEPT !.en = FALSE]]
<1>3. ASSUME NEW r \in File
      PROVE  /\ [r EXCEPT !.en = FALSE] \in File
             /\ [r EXCEPT !.en = FALSE].en = FALSE
             /\ [r EXCEPT !.en = FALSE].totalstep = r.totalstep
  BY DEF File
<1>4. CASE /\ file_info' = one /\ current_file' = 0
           /\ todo' = SaveFile(flash, one, Sel) \o SaveInfo(Last(SaveFile(flash, one, Sel)), 0)
  <2> DEFINE row == [file_info[Sel] EXCEPT !.en = FALSE]
  <2>1. row \in File /\ row.en = FALSE /\ one = [file_info EXCEPT ![Sel] = row]
    BY <1>1, <1>2, <1>3
  <2> HIDE DEF row
  <2>2. /\ one \in [Files -> File]
        /\ \A n \in Files : one[n] = IF n = Sel THEN row ELSE file_info[n]
    BY <1>2, <2>1
  <2>3. current_file' = 0 /\ file_info' = one
    BY <1>4
  <2>4. todo' = SaveFile(flash, one, Sel) \o SaveInfo(Last(SaveFile(flash, one, Sel)), 0)
    BY <1>4
  <2> HIDE DEF one
  <2>5. Counted(one)
    BY <1>1, <1>2, <2>1, <2>2 DEF Counted
  <2> DEFINE F == [flash.files EXCEPT ![Sel] = one[Sel]]
             images == SaveFile(flash, one, Sel)
  <2>6. Writes(images) /\ HeadersWritten(Last(images), flash, F)
    BY <1>1, <1>2, <2>2, <2>5, SaveFileFacts
  <2>7. \A n \in Files : F[n] = IF n = Sel THEN row ELSE flash.files[n]
    BY <1>1, <1>2, <2>2
  <2> HIDE DEF F
  <2>8. \A m \in Files :
           /\ F[m].en = one[m].en
           /\ m = 0 \/ one[m].en => F[m].totalstep = one[m].totalstep
    BY <1>1, <1>2, <2>1, <2>2, <2>7 DEF Synced
  <2> HIDE DEF images
  <2>9. todo' = images \o SaveInfo(Last(images), 0)
    BY <2>4 DEF images
  <2>10. list' = Load(flash, one, 0)
    BY <1>1, <2>3
  <2> QED BY <1>1, <2>2, <2>3, <2>5, <2>6, <2>8, <2>9, <2>10, ForgettingInv
<1>5. CASE /\ file_info' = none /\ current_file' = 0
           /\ todo' = SaveFiles(flash, none) \o SaveInfo(Last(SaveFiles(flash, none)), 0)
  <2>1. \A n \in Files : none[n] = [file_info[n] EXCEPT !.en = FALSE]
    OBVIOUS
  <2>2. none \in [Files -> File]
    BY <1>2, <1>3
  <2>3. current_file' = 0 /\ file_info' = none
    BY <1>5
  <2> DEFINE images == SaveFiles(flash, none)
  <2>4. todo' = images \o SaveInfo(Last(images), 0)
    BY <1>5
  <2> HIDE DEF none
  <2>5. Counted(none)
    BY <1>2, <1>3, <2>1 DEF Counted
  <2>6. Writes(images) /\ HeadersWritten(Last(images), flash, none)
    BY <1>2, <2>2, <2>5, SaveFilesFacts
  <2> HIDE DEF images
  <2>7. list' = Load(flash, none, 0)
    BY <1>1, <2>3
  <2> QED BY <1>1, <2>2, <2>3, <2>4, <2>5, <2>6, <2>7, ForgettingInv
<1>6. CASE todo' = SaveInfo(flash, current_file) /\ UNCHANGED <<file_info, current_file>>
  BY <1>1, <1>2, <1>6, LoadingInv
<1> QED BY <1>4, <1>5, <1>6 DEF DeleteKey

\* A key of the step panel: the steps are written one by one, and then the
\* header, so that every image is cut between the old list and the new one.
LEMMA EditStepsInv ==
  ASSUME Inv, EditSteps
  PROVE  Inv'
<1> DEFINE s == [k \in DOMAIN list |-> list[k].data]
           new == list'
           h == file_info'
           steps == SaveSteps(flash, current_file, new)
           header == SaveFile(Last(steps), h, current_file)
           row == [file_info[current_file] EXCEPT !.totalstep = Len(new)]
<1>1. /\ Idle /\ WellNumbered(list) /\ new \in Edited(s)
      /\ file_info' = [file_info EXCEPT ![current_file].totalstep = Len(new)]
      /\ todo' = steps \o header
      /\ edit' = <<list, new>>
      /\ on' = on /\ current_file' = current_file
      /\ current_item' = current_item /\ flash' = flash
  BY DEF EditSteps, SaveEdit
<1>2. /\ TypeOK /\ FlashInv /\ on
      /\ flash \in Flash /\ FlashOK(flash) /\ flash.files \in [Files -> File]
      /\ list \in Seq(Stored) /\ Len(list) >= 1 /\ Len(list) <= TOTALSTEP_NUM
      /\ file_info \in [Files -> File] /\ current_file \in Files
      /\ Counted(file_info) /\ TotalIsSize /\ Synced(flash)
  BY <1>1, AtRest
<1>3. list \in Seq(Steps)
  <2>1. Len(list) \in Nat /\ Len(list) <= TOTALSTEP_NUM /\ TOTALSTEP_NUM \in 1..254
        /\ \A k \in 1..Len(list) : list[k] \in Stored
    BY <1>2, StoreAssumption
  <2>2. ASSUME NEW k \in 1..Len(list) PROVE list[k] \in Steps
    <3>1. list[k].step = k
      BY <1>1, <1>2 DEF WellNumbered
    <3>2. k # 255 /\ list[k] \in Stored
      BY <2>1
    <3> QED BY <3>1, <3>2 DEF Stored, Erased
  <2>3. list \in [1..Len(list) -> Steps]
    <3>1. list = [k \in 1..Len(list) |-> list[k]]
      BY <1>2
    <3> HIDE DEF Stored
    <3> QED BY <2>2, <3>1
  <2> QED BY <2>1, <2>3
<1>4. s \in Seq(Payloads) /\ Len(s) = Len(list)
  <2>1. Len(list) \in Nat /\ DOMAIN list = 1..Len(list) /\ \A k \in 1..Len(list) : list[k] \in Steps
    BY <1>3
  <2>2. \A k \in 1..Len(list) : list[k].data \in Payloads
    BY <2>1 DEF Steps
  <2>3. s \in [1..Len(list) -> Payloads]
    BY <2>1, <2>2
  <2> HIDE DEF s
  <2> QED BY <2>1, <2>3
<1> HIDE DEF s
<1>5. new \in Seq(Steps) /\ Len(new) >= 1 /\ Len(new) <= TOTALSTEP_NUM /\ Len(new) \in Nat
  <2>1. new \in Seq(Steps) /\ Len(new) >= 1 /\ Len(new) <= TOTALSTEP_NUM
    BY <1>1, <1>2, <1>4, EditedFacts
  <2> QED BY <2>1
<1>6. new \in Seq(Stored)
  BY <1>5 DEF Stored
<1>7. /\ row \in File /\ row.en = file_info[current_file].en /\ row.totalstep = Len(new)
      /\ file_info' = [file_info EXCEPT ![current_file] = row]
  BY <1>1, <1>2, <1>5, StoreAssumption DEF File
<1> HIDE DEF row
<1>8. /\ file_info' \in [Files -> File]
      /\ \A n \in Files : file_info'[n] = IF n = current_file THEN row ELSE file_info[n]
  BY <1>2, <1>7
<1>9. Counted(file_info')
  <2>1. file_info'[0].totalstep >= 1
    BY <1>2, <1>5, <1>7, <1>8, ZeroIsFile DEF Counted
  <2>2. ASSUME NEW n \in Files, file_info'[n].en
        PROVE  file_info'[n].totalstep >= 1
    <3>1. CASE n = current_file
      BY <1>5, <1>7, <1>8, <3>1
    <3>2. CASE n # current_file
      BY <1>2, <1>8, <2>2, <3>2 DEF Counted
    <3> QED BY <3>1, <3>2
  <2> QED BY <2>1, <2>2 DEF Counted
<1>10. edit' \in Seq(Seq(Steps)) /\ Len(edit') = 2 /\ edit'[1] = list /\ edit'[2] = new
  BY <1>1, <1>3, <1>5
<1> HIDE DEF new, h
<1>11. /\ Writes(steps)
       /\ \A im \in Images(steps) :
             /\ SameHeaders(im, flash)
             /\ \E k \in 1..Len(new) : StepsWritten(im, flash, current_file, new, k)
       /\ SameHeaders(Last(steps), flash)
       /\ StepsWritten(Last(steps), flash, current_file, new, Len(new))
  <2>1. Writes(steps)
    BY <1>2, <1>5, <1>6, SaveStepsWrites
  <2>2. /\ \A im \in Images(steps) :
              /\ SameHeaders(im, flash)
              /\ \E k \in 1..Len(new) : StepsWritten(im, flash, current_file, new, k)
        /\ SameHeaders(Last(steps), flash)
        /\ StepsWritten(Last(steps), flash, current_file, new, Len(new))
    BY <1>2, <1>5, <1>6, SaveStepsFacts
  <2> QED BY <2>1, <2>2
<1> HIDE DEF steps
<1>12. h \in [Files -> File] /\ Counted(h) /\ h = file_info'
  BY <1>8, <1>9 DEF h
<1>13. /\ Writes(header)
       /\ HeadersWritten(Last(header), Last(steps), [Last(steps).files EXCEPT ![current_file] = h[current_file]])
       /\ Images(header) = {Last(header)}
  <2>1. Last(steps) \in Flash /\ FlashOK(Last(steps))
    BY <1>11 DEF Writes
  <2> QED BY <1>2, <1>12, <2>1, SaveFileFacts
<1> HIDE DEF header
<1>14. /\ Writes(todo') /\ Last(todo') = Last(header)
       /\ Images(todo') \subseteq Images(steps) \cup {Last(header)}
  BY <1>1, <1>11, <1>13, ThenWrites
<1> DEFINE f == Last(header)
<1>15. FlashInv' /\ todo' \in Seq(Flash) /\ Final' = f /\ f \in Flash
  BY <1>1, <1>2, <1>14, KeyWrites
<1>16. /\ f.bkp = flash.bkp /\ f.current_file = flash.current_file
       /\ f.files = [flash.files EXCEPT ![current_file] = row]
       /\ \A k \in 1..Len(new) : f.steps[current_file][k] = new[k]
  <2>1. h[current_file] = row
    BY <1>2, <1>8, <1>12
  <2>2. 1..Len(new) \subseteq Slots
    BY <1>5, StoreAssumption DEF Slots
  <2> QED BY <1>11, <1>13, <2>1, <2>2 DEF HeadersWritten, SameHeaders, StepsWritten
<1> HIDE DEF f
<1>17. TypeOK'
  BY <1>1, <1>2, <1>5, <1>6, <1>8, <1>10, <1>15 DEF TypeOK, new, Stored
<1>18. TotalIsSize'
  BY <1>1, <1>2, <1>7, <1>8 DEF TotalIsSize, new
<1>19. f.files[current_file] = row /\ \A n \in Files \ {current_file} : f.files[n] = flash.files[n]
  BY <1>2, <1>16
<1>20. Load(f, f.files, current_file) = new
  <2>1. f.files \in [Files -> File] /\ f.files[current_file].totalstep = Len(new)
    BY <1>7, <1>15, <1>19 DEF Flash
  <2>2. current_file \in Files /\ f \in Flash /\ new \in Seq(Stored) /\ Len(new) >= 1
    BY <1>2, <1>5, <1>6, <1>15
  <2>3. \A k \in 1..Len(new) : f.steps[current_file][k] = new[k]
    BY <1>16
  <2> QED BY <2>1, <2>2, <2>3, LoadIs
<1>21. Synced(Final)'
  <2>1. ASSUME NEW n \in Files
        PROVE  /\ f.files[n].en = file_info'[n].en
               /\ n = 0 \/ file_info'[n].en => f.files[n].totalstep = file_info'[n].totalstep
    <3>1. CASE n = current_file
      BY <1>8, <1>19, <3>1
    <3>2. CASE n # current_file
      BY <1>2, <1>8, <1>19, <3>2 DEF Synced
    <3> QED BY <3>1, <3>2
  <2>2. f.bkp /\ f.current_file = current_file
    BY <1>2, <1>16 DEF Synced
  <2> QED BY <1>1, <1>15, <1>20, <2>1, <2>2 DEF Synced, new
<1>22. RamInv'
  BY <1>1, <1>2, <1>5, <1>9, <1>18, <1>21 DEF RamInv, new
<1>23. CutInv'
  <2> DEFINE FromEither(fl, k) ==
               \E l \in {list, new} : k \in DOMAIN l /\ fl.steps[current_file][k] = l[k]
  <2>1. flash.bkp /\ flash.current_file = current_file
    BY <1>2 DEF Synced
  <2>2. DOMAIN list = 1..Len(list) /\ DOMAIN new = 1..Len(new) /\ Len(list) \in Nat
    BY <1>3, <1>5
  <2>3. ASSUME current_file = 0 \/ flash.files[current_file].en
        PROVE  /\ flash.files[current_file].totalstep = Len(list)
               /\ \A k \in 1..Len(list) : flash.steps[current_file][k] = list[k]
    <3>1. InUse
      BY <1>2, <2>3 DEF InUse, Synced
    <3> QED BY <1>1, <3>1, LoadedSteps
  <2>4. ASSUME NEW im, SameHeaders(im, flash),
               \A k \in 1..Len(list) :
                  flash.steps[current_file][k] = list[k] => FromEither(im, k)
        PROVE  CutBetween(im, list, new)
    <3>1. im.bkp /\ im.current_file = current_file /\ im.files = flash.files
      BY <2>1, <2>4 DEF SameHeaders
    <3>2. ASSUME current_file = 0 \/ im.files[current_file].en
          PROVE  /\ im.files[current_file].totalstep = Len(list)
                 /\ \A k \in 1..Len(list) : FromEither(im, k)
      BY <2>3, <2>4, <3>1, <3>2
    <3> QED BY <3>1, <3>2 DEF CutBetween
  <2>5. CutBetween(flash, list, new)
    <3>1. SameHeaders(flash, flash)
      BY <1>2 DEF SameHeaders
    <3>2. \A k \in 1..Len(list) :
             flash.steps[current_file][k] = list[k] => FromEither(flash, k)
      BY <2>2
    <3> QED BY <2>4, <3>1, <3>2
  <2>6. ASSUME NEW im \in Images(steps)
        PROVE  CutBetween(im, list, new)
    <3>1. PICK n \in 1..Len(new) : StepsWritten(im, flash, current_file, new, n)
      BY <1>11
    <3>2. ASSUME NEW k \in 1..Len(list), flash.steps[current_file][k] = list[k]
          PROVE  FromEither(im, k)
      <4>1. k \in Slots /\ k \in Nat /\ n \in Nat /\ n <= Len(new)
        BY <1>2, <1>5, StoreAssumption DEF Slots
      <4>2. CASE k <= n
        <5>1. k \in DOMAIN new /\ im.steps[current_file][k] = new[k]
          BY <2>2, <1>5, <3>1, <4>1, <4>2 DEF StepsWritten
        <5> QED BY <5>1
      <4>3. CASE ~(k <= n)
        <5>1. k \in DOMAIN list /\ im.steps[current_file][k] = list[k]
          BY <2>2, <3>1, <3>2, <4>1, <4>3 DEF StepsWritten
        <5> QED BY <5>1
      <4> QED BY <4>2, <4>3
    <3> QED BY <1>11, <2>4, <3>2
  <2>7. CutBetween(f, list, new)
    <3>1. f.bkp /\ f.current_file = current_file /\ f.files[current_file].totalstep = Len(new)
      BY <1>7, <1>16, <1>19, <2>1
    <3>2. ASSUME NEW k \in 1..Len(new)
          PROVE  FromEither(f, k)
      BY <1>16, <2>2
    <3> QED BY <3>1, <3>2 DEF CutBetween
  <2>8. \A im \in {flash'} \cup Images(todo') : CutBetween(im, list, new)
    BY <1>1, <1>14, <2>5, <2>6, <2>7 DEF f
  <2>9. \A im : CutBetween(im, list, new) => CutBetween(im, edit'[1], edit'[2])
    BY <1>10
  <2> QED BY <2>8, <2>9 DEF CutInv, CutOK
<1> QED BY <1>15, <1>17, <1>22, <1>23 DEF Inv

\* A step of something else.
LEMMA StutterInv ==
  ASSUME Inv, UNCHANGED vars
  PROVE  Inv'
<1>1. /\ on' = on /\ file_info' = file_info /\ current_file' = current_file /\ list' = list
      /\ current_item' = current_item /\ flash' = flash /\ todo' = todo /\ edit' = edit
  BY DEF vars, ram
<1>2. FlashInv' /\ Final' = Final
  BY <1>1, KeyIsQuiet DEF Inv
<1>3. TypeOK' /\ CutInv'
  BY <1>1 DEF Inv, TypeOK, CutInv, CutOK
<1>4. RamInv'
  BY <1>1, <1>2 DEF Inv, RamInv, TotalIsSize, InUse, Synced
<1> QED BY <1>2, <1>3, <1>4 DEF Inv

\* Every step of the instrument keeps the invariant.
LEMMA StepInv ==
  ASSUME Inv, [Next]_vars
  PROVE  Inv'
BY BootInv, PowerCutInv, WriteInv, EditStepsInv, StoreKeyInv, NewKeyInv, ReadKeyInv,
   DeleteKeyInv, MoveInv, StutterInv DEF Next

\* The inductive invariant holds in every reachable state.
THEOREM Invariant == Spec => []Inv
<1>1. Inv /\ [Next]_vars => Inv'
  BY StepInv
<1> QED BY InitInv, <1>1, PTL DEF Spec

\* Every variable keeps its type: a list never grows past TOTALSTEP_NUM steps and
\* the selection never leaves the rows of file_info.
THEOREM TypeCorrect == Spec => []TypeOK
<1>1. Inv => TypeOK
  BY DEF Inv
<1> QED BY Invariant, <1>1, PTL

\* The header of the loaded file counts the loaded steps, whatever keys of the
\* file panel were pressed and wherever the power went.
THEOREM TotalCountsSteps == Spec => []TotalIsSize
<1>1. Inv => TotalIsSize
  BY DEF Inv, RamInv, TotalIsSize
<1> QED BY Invariant, <1>1, PTL

\* Whenever no write is pending, the next boot restores the loaded file, its
\* steps and the rows in use.
THEOREM FlashIsDurable == Spec => []Durable
<1>1. Inv => Durable
  <2> SUFFICES ASSUME Inv, Idle, InUse PROVE Durable
    BY DEF Durable
  <2>1. Synced(flash)
    BY AtRest
  <2> QED BY <2>1 DEF Synced, Durable
<1> QED BY Invariant, <1>1, PTL

\* After a power cut in the save of an edit the next boot finds, at every place,
\* the step from before the key or the one from after it.
THEOREM CutKeepsOldOrNew == Spec => CutKeepsSteps
<1> DEFINE A == Boot /\ edit # <<>> /\ InUse' =>
                  /\ Len(list') \in {Len(edit[1]), Len(edit[2])}
                  /\ \A k \in DOMAIN list' :
                        \E l \in {edit[1], edit[2]} : k \in DOMAIN l /\ list'[k] = l[k]
<1>1. Inv => A
  <2> SUFFICES ASSUME Inv, Boot, edit # <<>>, InUse'
               PROVE  /\ Len(list') \in {Len(edit[1]), Len(edit[2])}
                      /\ \A k \in DOMAIN list' :
                            \E l \in {edit[1], edit[2]} : k \in DOMAIN l /\ list'[k] = l[k]
    OBVIOUS
  <2> DEFINE n == flash.current_file
  <2>1. flash.bkp /\ CutOK(flash) /\ FlashOK(flash) /\ flash \in Flash
    BY DEF Inv, CutInv, CutOK, CutBetween, FlashInv, TypeOK
  <2>2. file_info' = flash.files /\ current_file' = n /\ list' = Load(flash, flash.files, n)
    BY <2>1 DEF Boot, LaterBoot
  <2>3. flash.files \in [Files -> File] /\ n \in Files
    BY <2>1 DEF Flash
  <2>4. n = 0 \/ flash.files[n].en
    BY <2>2 DEF InUse
  <2>5. flash.files[n].totalstep >= 1
    BY <2>1, <2>3, <2>4 DEF FlashOK
  <2>6. /\ list' \in Seq(Stored) /\ Len(list') = flash.files[n].totalstep
        /\ \A k \in 1..flash.files[n].totalstep : list'[k] = flash.steps[n][k]
    BY <2>1, <2>2, <2>3, <2>5, LoadFacts
  <2>7. DOMAIN list' = 1..flash.files[n].totalstep
    BY <2>6
  <2> QED BY <2>1, <2>4, <2>6, <2>7 DEF CutOK, CutBetween
<1> HIDE DEF A
<1>2. Spec => [][A]_vars
  BY Invariant, <1>1, PTL DEF Spec
<1> QED BY <1>2 DEF A, CutKeepsSteps
=============================================================================
