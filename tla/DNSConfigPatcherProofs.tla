----------------------- MODULE DNSConfigPatcherProofs -----------------------
(* Proofs about the dns-config-patcher Job, for any Corefile of users and  *)
(* Jobs, any number of Jobs, retries, edits and faults.                    *)
EXTENDS DNSConfigPatcher, SequenceFacts

Pods == [at : PodStates, expired : BOOLEAN, ip : IPs \cup {NoIP}, got : Seq(Items),
         gotVersion : Nat, retries : Nat]

(* A pod that is to patch has an IP, the copy it holds is not newer than   *)
(* the ConfigMap with Corefile file and version v, and equals it as long   *)
(* as their versions do.                                                   *)
PodOK(p, file, v) ==
    /\ p.at \in {"get", "update"} => p.ip # NoIP
    /\ p.gotVersion <= v
    /\ p.at = "update" /\ p.gotVersion = v => p.got = file /\ file # NoData
    /\ p.retries <= BackoffLimit
    /\ p.at = "backoff" => p.retries < BackoffLimit

ConfigMapOK == WellFormed(corefile) /\ version \in Nat /\ clusterIP \in IPs \cup {NoIP}

CountersOK ==
    edits \in 0..MaxEdits /\ serviceChanges \in 0..MaxServiceChanges /\ faults \in 0..MaxFaults

(* The Corefile has a section with this body. *)
HasSection(file, body) ==
    \E i \in DOMAIN file : file[i] = Begin /\ i + 1 \in DOMAIN file /\ file[i + 1] = body

(* The section with ip is what Job p wrote or found, or wrote in an        *)
(* attempt that failed.                                                    *)
Wrote(p, ip) == IF p.at = "complete" THEN p.ip = ip ELSE HasFailed(p)

(* Once a Job reported success there is a section that a Job wrote. *)
CompleteHasSection ==
    (\E d \in DomainSuffixes : pod[d].at = "complete")
        => \E d \in DomainSuffixes, ip \in IPs :
              HasSection(corefile, <<d, ip>>) /\ Wrote(pod[d], ip)

PatcherInv ==
    /\ ConfigMapOK /\ CountersOK /\ CompleteHasSection
    /\ pod \in [DomainSuffixes -> Pods]
    /\ \A d \in DomainSuffixes : PodOK(pod[d], corefile, version)

-----------------------------------------------------------------------------
(* The text operations. *)

(* What "%s\n" makes of the trimmed text: an empty one is an empty line. *)
Trimmed(file) == IF TrimSpace(file) = <<>> THEN <<Blank>> ELSE TrimSpace(file)

(* t is the l lines after the first s ones, and all others are empty. *)
Trims(file, t, s, l) ==
    /\ s \in Nat /\ l \in Nat /\ l >= 1 /\ s + l <= Len(file)
    /\ t \in Seq(Items) /\ Len(t) = l
    /\ \A i \in 1..l : t[i] = file[s + i]
    /\ \A i \in 1..Len(file) : (i <= s \/ i > s + l) => file[i] = Blank

(* TrimSpace takes empty lines from both ends of a file, and nothing else. *)
LEMMA TrimSpaceFacts ==
    ASSUME NEW file \in Seq(Items), file # <<>>
    PROVE  \E s, l : Trims(file, Trimmed(file), s, l)
  <1> DEFINE text == {i \in DOMAIN file : file[i] # Blank}
  <1>1. /\ DOMAIN file = 1..Len(file) /\ Len(file) \in Nat /\ Len(file) >= 1
        /\ \A i \in 1..Len(file) : file[i] \in Items
    BY LenProperties, ElementOfSeq, EmptySeq
  <1>2. CASE text = {}
    <2> DEFINE t == <<Blank>>
    <2>1. TrimSpace(file) = <<>>
      BY <1>2 DEF TrimSpace
    <2>2. Trimmed(file) = t
      BY <2>1 DEF Trimmed
    <2>3. t \in Seq(Items) /\ Len(t) = 1 /\ t[1] = Blank
      BY DEF Items
    <2>4. \A i \in 1..Len(file) : file[i] = Blank
      BY <1>1, <1>2
    <2> HIDE DEF t
    <2>5. \A i \in 1..1 : t[i] = file[0 + i]
      BY <1>1, <2>3, <2>4
    <2>6. Trims(file, t, 0, 1)
      BY <1>1, <2>3, <2>4, <2>5 DEF Trims
    <2> QED
      BY <2>2, <2>6
  <1>3. CASE text # {}
    <2>1. text \in SUBSET Nat /\ text \in SUBSET (0..Len(file))
      BY <1>1
    <2>2. PICK z : z = Max(text) /\ z \in text /\ \A i \in text : i <= z
      <3> HIDE DEF text
      <3> QED
        BY <1>1, <1>3, <2>1, MaxFacts
    <2>3. PICK a : a = Min(text) /\ a \in text /\ \A i \in text : a <= i
      <3> HIDE DEF text
      <3> QED
        BY <1>3, <2>1, MinFacts
    <2> DEFINE t == SubSeq(file, a, z)
    <2>4. TrimSpace(file) = t
      BY <1>3, <2>2, <2>3 DEF TrimSpace
    <2>5. a \in 1..Len(file) /\ z \in 1..Len(file) /\ a <= z
      BY <1>1, <2>2, <2>3
    <2>6. /\ t \in Seq(Items) /\ Len(t) = z - a + 1
          /\ \A i \in 1..(z - a + 1) : t[i] = file[a + i - 1]
      <3>1. a \in Int /\ z \in Int /\ \A i \in a..z : file[i] \in Items
        BY <1>1, <2>5
      <3>2. a <= z
        BY <2>5
      <3> QED
        BY <3>1, <3>2, SubSeqProperties
    <2> HIDE DEF t
    <2>7. PICK l : l = z - a + 1
      OBVIOUS
    <2>8. PICK s : s = a - 1
      OBVIOUS
    <2>9. s \in Nat /\ l \in Nat /\ l >= 1 /\ s + l = z
      BY <1>1, <2>5, <2>7, <2>8
    <2>10. t # <<>> /\ Len(t) = l
      BY <2>6, <2>7, <2>9, EmptySeq
    <2>11. Trimmed(file) = t
      BY <2>4, <2>10 DEF Trimmed
    <2>12. ASSUME NEW i \in 1..l PROVE t[i] = file[s + i]
      <3>1. i \in 1..(z - a + 1) /\ a + i - 1 = s + i
        BY <2>5, <2>7, <2>8
      <3> QED
        BY <2>6, <3>1
    <2>13. ASSUME NEW i \in 1..Len(file), i <= s \/ i > s + l PROVE file[i] = Blank
      <3>1. ~(a <= i /\ i <= z)
        BY <1>1, <2>5, <2>8, <2>9, <2>13
      <3>2. i \notin text
        BY <2>2, <2>3, <3>1
      <3> QED
        BY <1>1, <3>2
    <2>14. s + l <= Len(file)
      BY <2>5, <2>9
    <2>15. Trims(file, t, s, l)
      BY <2>6, <2>9, <2>10, <2>12, <2>13, <2>14 DEF Trims
    <2> QED
      BY <2>11, <2>15
  <1> QED
    BY <1>2, <1>3

(* Where the markers of a Corefile are. *)
LEMMA WellFormedFacts ==
    ASSUME NEW file, WellFormed(file)
    PROVE  /\ file \in Seq(Items) /\ Len(file) \in Nat
           /\ DOMAIN file = 1..Len(file) /\ \A i \in 1..Len(file) : file[i] \in Items
           /\ \A i \in 1..Len(file) :
                 file[i] = Begin => /\ i > 1 /\ i + 2 \in 1..Len(file) /\ file[i + 2] = End
                                    /\ file[i + 1] \in DomainSuffixes \X IPs
           /\ \A i, j \in 1..Len(file) : file[i] = Begin /\ file[j] = Begin => i = j
           /\ \A i \in 1..Len(file) :
                 file[i] = End => i - 2 \in 1..Len(file) /\ file[i - 2] = Begin
  <1>1. /\ file \in Seq(Items) /\ Len(file) \in Nat /\ DOMAIN file = 1..Len(file)
        /\ \A i \in 1..Len(file) : file[i] \in Items
    BY LenProperties, ElementOfSeq DEF WellFormed
  <1>2. ASSUME NEW i \in 1..Len(file), file[i] = Begin
        PROVE  /\ i > 1 /\ i + 2 \in 1..Len(file) /\ file[i + 2] = End
               /\ file[i + 1] \in DomainSuffixes \X IPs
    <2>1. file # <<>>
      BY <1>1, EmptySeq
    <2>2. file[1] # Begin
      BY <2>1, ItemsAssumption DEF WellFormed, NoData
    <2>3. i \in DOMAIN file
      BY <1>1
    <2>4. i + 2 \in DOMAIN file /\ file[i + 2] = End /\ file[i + 1] \in DomainSuffixes \X IPs
      BY <1>2, <2>3 DEF WellFormed
    <2>5. i > 1
      BY <1>2, <2>2
    <2> QED
      BY <1>1, <2>4, <2>5
  <1>3. ASSUME NEW i \in 1..Len(file), file[i] = End
        PROVE  i - 2 \in 1..Len(file) /\ file[i - 2] = Begin
    <2>1. i \in DOMAIN file
      BY <1>1
    <2>2. i > 2 /\ file[i - 2] = Begin
      BY <1>3, <2>1 DEF WellFormed
    <2> QED
      BY <1>1, <2>2
  <1>4. \A i, j \in 1..Len(file) : file[i] = Begin /\ file[j] = Begin => i = j
    BY <1>1 DEF WellFormed
  <1> QED
    BY <1>1, <1>2, <1>3, <1>4

(* What a file is without its section: k lines from line b on are cut out, *)
(* none of them a user's block, and no marker is left.                     *)
CutOut(file, rest, b, k) ==
    /\ rest \in Seq(Items) /\ Len(rest) = Len(file) - k
    /\ \A i \in 1..Len(rest) :
          rest[i] = (IF i < b THEN file[i] ELSE file[i + k]) /\ rest[i] \notin {Begin, End}
    /\ \A i \in b..(b + k - 1) : file[i] \notin UserBlocks

(* Without a begin marker there is nothing to strip ... *)
LEMMA StripWithoutSection ==
    ASSUME NEW file, WellFormed(file), file # <<>>, Sections(file) = {}
    PROVE  /\ StripXCCBlock(file) = TrimSpace(file)
           /\ CutOut(file, file, Len(file) + 1, 0)
  <1>1. file \in Seq(Items) /\ DOMAIN file = 1..Len(file) /\ Len(file) \in Nat
    BY WellFormedFacts
  <1>2. {i \in DOMAIN file : i > 1 /\ file[i] = Begin} = {}
    BY DEF Sections
  <1>3. StripXCCBlock(file) = TrimSpace(file)
    BY <1>2 DEF StripXCCBlock
  <1>4. \A i \in 1..Len(file) : file[i] # Begin
    BY <1>1 DEF Sections
  <1>5. \A i \in 1..Len(file) : file[i] # End
    BY <1>4, WellFormedFacts
  <1> QED
    BY <1>1, <1>3, <1>4, <1>5 DEF CutOut

(* ... and with one, the pattern matches the section and nothing else. *)
LEMMA StripSection ==
    ASSUME NEW file, WellFormed(file), file # <<>>, NEW b \in Sections(file)
    PROVE  LET rest == SubSeq(file, 1, b - 1) \o SubSeq(file, b + 3, Len(file))
           IN  /\ StripXCCBlock(file) = TrimSpace(rest)
               /\ b > 1 /\ b + 2 \in 1..Len(file)
               /\ CutOut(file, rest, b, 3)
  <1> DEFINE rest == SubSeq(file, 1, b - 1) \o SubSeq(file, b + 3, Len(file))
             begins == {i \in DOMAIN file : i > 1 /\ file[i] = Begin}
             ends == {i \in DOMAIN file : file[i] = End /\ begins # {} /\ i > Min(begins)}
  <1>1. /\ file \in Seq(Items) /\ DOMAIN file = 1..Len(file) /\ Len(file) \in Nat
        /\ \A i \in 1..Len(file) : file[i] \in Items
    BY WellFormedFacts
  <1>2. b \in 1..Len(file) /\ file[b] = Begin
    BY <1>1 DEF Sections
  <1>3. /\ b > 1 /\ b + 2 \in 1..Len(file) /\ file[b + 2] = End
        /\ file[b + 1] \in DomainSuffixes \X IPs
        /\ \A i \in 1..Len(file) : file[i] = Begin => i = b
    BY <1>2, WellFormedFacts
  <1>4. begins = {b}
    BY <1>1, <1>2, <1>3
  <1>5. Min(begins) = b
    <2>1. begins \in SUBSET Nat /\ begins # {}
      BY <1>2, <1>4
    <2> QED
      BY <1>4, <2>1, MinFacts
  <1>6. ASSUME NEW i \in 1..Len(file), file[i] = End PROVE i = b + 2
    <2>1. i - 2 \in 1..Len(file) /\ file[i - 2] = Begin
      BY <1>6, WellFormedFacts
    <2>2. i - 2 = b
      BY <1>3, <2>1
    <2> QED
      BY <1>2, <2>2
  <1>7. ends = {b + 2}
    <2>1. ends = {i \in 1..Len(file) : file[i] = End /\ i > b}
      BY <1>1, <1>4, <1>5
    <2> QED
      BY <1>2, <1>3, <1>6, <2>1
  <1>8. Max(ends) = b + 2
    <2>1. ends \in SUBSET (0..Len(file)) /\ ends # {}
      BY <1>3, <1>7
    <2> QED
      BY <1>1, <1>7, <2>1, MaxFacts
  <1>9. StripXCCBlock(file) = TrimSpace(rest)
    <2>1. StripXCCBlock(file)
            = TrimSpace(SubSeq(file, 1, Min(begins) - 1) \o SubSeq(file, Max(ends) + 1, Len(file)))
      BY <1>7 DEF StripXCCBlock
    <2>2. Max(ends) + 1 = b + 3
      BY <1>2, <1>8
    <2> QED
      BY <1>5, <2>1, <2>2
  <1>10. /\ SubSeq(file, 1, b - 1) \in Seq(Items) /\ Len(SubSeq(file, 1, b - 1)) = b - 1
         /\ \A i \in 1..(b - 1) : SubSeq(file, 1, b - 1)[i] = file[i]
    <2>1. \A i \in 1..(b - 1) : file[i] \in Items
      BY <1>1, <1>2
    <2> QED
      BY <1>2, <2>1, SubSeqProperties
  <1>11. /\ SubSeq(file, b + 3, Len(file)) \in Seq(Items)
         /\ Len(SubSeq(file, b + 3, Len(file))) = Len(file) - b - 2
         /\ \A i \in 1..(Len(file) - b - 2) :
               SubSeq(file, b + 3, Len(file))[i] = file[b + 2 + i]
    <2> DEFINE m == b + 3
               t == SubSeq(file, m, Len(file))
    <2>1. m \in Int /\ Len(file) \in Int /\ \A i \in m..Len(file) : file[i] \in Items
      BY <1>1, <1>2
    <2> HIDE DEF m
    <2>2. /\ t \in Seq(Items)
          /\ Len(t) = IF m <= Len(file) THEN Len(file) - m + 1 ELSE 0
          /\ \A i \in 1..(Len(file) - m + 1) : t[i] = file[m + i - 1]
      BY <2>1, SubSeqProperties
    <2>3. m = b + 3 /\ t = SubSeq(file, b + 3, Len(file))
      BY DEF m
    <2> HIDE DEF t
    <2>4. Len(t) = Len(file) - b - 2
      <3>1. b \in Nat /\ Len(file) \in Nat /\ b + 2 <= Len(file)
        BY <1>1, <1>2, <1>3
      <3> QED
        BY <2>2, <2>3, <3>1
    <2>5. ASSUME NEW i \in 1..(Len(file) - b - 2)
          PROVE  t[i] = file[b + 2 + i]
      <3>1. i \in 1..(Len(file) - m + 1) /\ m + i - 1 = b + 2 + i
        BY <1>1, <1>2, <2>3
      <3> QED
        BY <2>2, <3>1
    <2> QED
      BY <2>2, <2>3, <2>4, <2>5
  <1>12. /\ rest \in Seq(Items) /\ Len(rest) = Len(file) - 3
         /\ \A i \in 1..Len(rest) : rest[i] = IF i < b THEN file[i] ELSE file[i + 3]
    <2> DEFINE s == SubSeq(file, 1, b - 1)
               t == SubSeq(file, b + 3, Len(file))
    <2>1. /\ s \in Seq(Items) /\ Len(s) = b - 1 /\ t \in Seq(Items) /\ Len(t) = Len(file) - b - 2
          /\ \A i \in 1..(b - 1) : s[i] = file[i]
          /\ \A i \in 1..(Len(file) - b - 2) : t[i] = file[b + 2 + i]
          /\ rest = s \o t
      BY <1>10, <1>11
    <2> HIDE DEF s, t, rest
    <2>2. /\ rest \in Seq(Items) /\ Len(rest) = Len(s) + Len(t)
          /\ \A i \in 1..(Len(s) + Len(t)) :
                rest[i] = IF i <= Len(s) THEN s[i] ELSE t[i - Len(s)]
      BY <2>1, ConcatProperties
    <2>3. Len(rest) = Len(file) - 3
      BY <1>1, <1>2, <2>1, <2>2
    <2>4. ASSUME NEW i \in 1..Len(rest), i < b PROVE rest[i] = file[i]
      BY <1>1, <1>2, <2>1, <2>2, <2>3, <2>4
    <2>5. ASSUME NEW i \in 1..Len(rest), ~(i < b) PROVE rest[i] = file[i + 3]
      <3>1. rest[i] = t[i - (b - 1)]
        BY <1>1, <1>2, <2>1, <2>2, <2>5
      <3>2. i - (b - 1) \in 1..(Len(file) - b - 2) /\ b + 2 + (i - (b - 1)) = i + 3
        BY <1>1, <1>2, <2>3, <2>5
      <3> QED
        BY <2>1, <3>1, <3>2
    <2> QED
      BY <2>2, <2>3, <2>4, <2>5
  <1>13. CutOut(file, rest, b, 3)
    <2> HIDE DEF rest
    <2>1. \A i \in b..(b + 3 - 1) : file[i] \notin UserBlocks
      BY <1>2, <1>3, ItemsAssumption
    <2>2. ASSUME NEW i \in 1..Len(rest) PROVE rest[i] \notin {Begin, End}
      <3>1. PICK j \in 1..Len(file) : rest[i] = file[j] /\ j # b /\ j # b + 2
        BY <1>1, <1>2, <1>12
      <3> QED
        BY <1>3, <1>6, <3>1
    <2> QED
      BY <1>12, <2>1, <2>2 DEF CutOut
  <1> QED
    BY <1>2, <1>3, <1>9, <1>13

(* What is left of a Corefile when its section is cut out, and trimmed. *)
Stripped(file, rest, b, k) ==
    /\ b \in Nat /\ b > 1 /\ k \in Nat /\ b + k - 1 <= Len(file)
    /\ CutOut(file, rest, b, k) /\ rest # <<>>
    /\ StripXCCBlock(file) = TrimSpace(rest)

(* Whatever the section, stripping it keeps the users' lines. *)
LEMMA StripFacts ==
    ASSUME NEW file, WellFormed(file), file # <<>>
    PROVE  \E rest, b, k : Stripped(file, rest, b, k)
  <1>1. Len(file) \in Nat /\ Len(file) >= 1 /\ file \in Seq(Items)
    BY EmptySeq DEF WellFormed
  <1>2. CASE Sections(file) = {}
    <2>1. StripXCCBlock(file) = TrimSpace(file) /\ CutOut(file, file, Len(file) + 1, 0)
      BY <1>2, StripWithoutSection
    <2>2. Len(file) + 1 \in Nat /\ Len(file) + 1 > 1 /\ Len(file) + 1 + 0 - 1 <= Len(file)
      BY <1>1
    <2>3. Stripped(file, file, Len(file) + 1, 0)
      BY <2>1, <2>2 DEF Stripped
    <2> QED
      BY <2>3
  <1>3. ASSUME NEW b \in Sections(file)
        PROVE  \E rest : Stripped(file, rest, b, 3)
    <2> DEFINE rest == SubSeq(file, 1, b - 1) \o SubSeq(file, b + 3, Len(file))
    <2>1. /\ StripXCCBlock(file) = TrimSpace(rest)
          /\ b > 1 /\ b + 2 \in 1..Len(file) /\ CutOut(file, rest, b, 3)
      BY <1>3, StripSection
    <2>2. b \in Nat
      BY WellFormedFacts DEF Sections
    <2> HIDE DEF rest
    <2>3. rest \in Seq(Items) /\ Len(rest) = Len(file) - 3
      BY <2>1 DEF CutOut
    <2>4. rest # <<>>
      BY <1>1, <2>1, <2>2, <2>3, EmptySeq
    <2>5. b + 3 - 1 <= Len(file)
      BY <1>1, <2>1, <2>2
    <2>6. Stripped(file, rest, b, 3)
      BY <2>1, <2>2, <2>4, <2>5 DEF Stripped
    <2> QED
      BY <2>6
  <1> QED
    BY <1>2, <1>3

(* Line i of a file whose k lines from line b on are cut out. *)
LineOf(file, b, k, i) == IF i < b THEN file[i] ELSE file[i + k]

(* The Corefile that is written: the lines that are not cut out, without   *)
(* the empty ones at both ends, then the Job's section.                    *)
PatchedFrom(file, h, b, k, s, l, body) ==
    /\ b \in Nat /\ b > 1 /\ k \in Nat /\ b + k - 1 <= Len(file)
    /\ s \in Nat /\ l \in Nat /\ l >= 1 /\ s + l + k <= Len(file)
    /\ h \in Seq(Items) /\ Len(h) = l + 3
    /\ \A i \in 1..l : h[i] = LineOf(file, b, k, s + i) /\ h[i] \notin {Begin, End}
    /\ h[l + 1] = Begin /\ h[l + 2] = body /\ h[l + 3] = End
    /\ \A i \in 1..(Len(file) - k) :
          (i <= s \/ i > s + l) => LineOf(file, b, k, i) = Blank
    /\ \A i \in b..(b + k - 1) : file[i] \notin UserBlocks

(* What patchCorefile returns for a file of the model's shape: strip and   *)
(* trim leave the user's blocks and the section is appended once.          *)
LEMMA PatchedShape ==
    ASSUME NEW file, WellFormed(file), file # <<>>, NEW d \in DomainSuffixes, NEW ip \in IPs
    PROVE  \E b, k, s, l : PatchedFrom(file, Patched(file, d, ip), b, k, s, l, <<d, ip>>)
  <1>1. PICK rest, b, k : Stripped(file, rest, b, k)
    BY StripFacts
  <1>2. /\ b \in Nat /\ b > 1 /\ k \in Nat /\ b + k - 1 <= Len(file)
        /\ CutOut(file, rest, b, k) /\ rest # <<>> /\ StripXCCBlock(file) = TrimSpace(rest)
    BY <1>1 DEF Stripped
  <1>3. /\ Len(file) \in Nat /\ rest \in Seq(Items) /\ Len(rest) = Len(file) - k
        /\ \A i \in 1..Len(rest) :
              rest[i] = LineOf(file, b, k, i) /\ rest[i] \notin {Begin, End}
        /\ \A i \in b..(b + k - 1) : file[i] \notin UserBlocks
    BY <1>2, WellFormedFacts DEF CutOut, LineOf
  <1> DEFINE t == Trimmed(rest)
             x == XCCBlock(d, ip)
             h == Patched(file, d, ip)
  <1>4. PICK s, l : Trims(rest, t, s, l)
    BY <1>2, <1>3, TrimSpaceFacts
  <1>5. h = t \o x
    <2>1. h = (IF TrimSpace(rest) = <<>> THEN <<Blank>> ELSE TrimSpace(rest)) \o x
      BY <1>2 DEF Patched
    <2> QED
      BY <2>1 DEF Trimmed
  <1>6. /\ x \in Seq(Items) /\ Len(x) = 3
        /\ x[1] = Begin /\ x[2] = <<d, ip>> /\ x[3] = End
    BY DEF XCCBlock, Forward, Items
  <1> HIDE DEF t, x, h
  <1>7. /\ s \in Nat /\ l \in Nat /\ l >= 1 /\ s + l <= Len(rest)
        /\ t \in Seq(Items) /\ Len(t) = l
        /\ \A i \in 1..l : t[i] = rest[s + i]
        /\ \A i \in 1..Len(rest) : (i <= s \/ i > s + l) => rest[i] = Blank
    BY <1>4 DEF Trims
  <1>8. /\ h \in Seq(Items) /\ Len(h) = l + 3
        /\ \A i \in 1..(l + 3) : h[i] = IF i <= l THEN t[i] ELSE x[i - l]
    <2>1. t \in Seq(Items) /\ x \in Seq(Items)
      BY <1>6, <1>7
    <2>2. /\ h \in Seq(Items) /\ Len(h) = Len(t) + Len(x)
          /\ \A i \in 1..(Len(t) + Len(x)) : h[i] = IF i <= Len(t) THEN t[i] ELSE x[i - Len(t)]
      BY <1>5, <2>1, ConcatProperties
    <2>3. Len(t) = l /\ Len(x) = 3
      BY <1>6, <1>7
    <2> QED
      BY <2>2, <2>3
  <1>9. h[l + 1] = Begin /\ h[l + 2] = <<d, ip>> /\ h[l + 3] = End
    <2>1. ASSUME NEW i \in 1..3 PROVE h[l + i] = x[i]
      <3>1. PICK j : j = l + i
        OBVIOUS
      <3>2. j \in 1..(l + 3) /\ ~(j <= l) /\ j - l = i
        BY <1>7, <3>1
      <3>3. h[j] = x[j - l]
        BY <1>8, <3>2
      <3> QED
        BY <3>1, <3>2, <3>3
    <2> QED
      BY <1>6, <2>1
  <1>10. ASSUME NEW i \in 1..l
         PROVE  h[i] = LineOf(file, b, k, s + i) /\ h[i] \notin {Begin, End}
    <2>1. i \in 1..(l + 3) /\ i <= l /\ s + i \in 1..Len(rest)
      BY <1>2, <1>3, <1>7
    <2>2. h[i] = rest[s + i]
      BY <1>7, <1>8, <2>1
    <2> QED
      BY <1>3, <2>1, <2>2
  <1>11. ASSUME NEW i \in 1..(Len(file) - k), i <= s \/ i > s + l
         PROVE  LineOf(file, b, k, i) = Blank
    BY <1>3, <1>7, <1>11
  <1>12. s + l + k <= Len(file)
    BY <1>2, <1>3, <1>7
  <1>13. PatchedFrom(file, h, b, k, s, l, <<d, ip>>)
    BY <1>2, <1>3, <1>7, <1>8, <1>9, <1>10, <1>11, <1>12 DEF PatchedFrom
  <1> QED
    BY <1>13 DEF h

(* A patched Corefile is one again, with the Job's section ... *)
LEMMA PatchedWellFormed ==
    ASSUME NEW file, WellFormed(file), file # <<>>, NEW d \in DomainSuffixes, NEW ip \in IPs
    PROVE  /\ WellFormed(Patched(file, d, ip))
           /\ HasSection(Patched(file, d, ip), <<d, ip>>)
  <1> DEFINE h == Patched(file, d, ip)
  <1>1. PICK b, k, s, n : PatchedFrom(file, h, b, k, s, n, <<d, ip>>)
    BY PatchedShape
  <1> HIDE DEF h
  <1>2. /\ n \in Nat /\ n >= 1
        /\ h \in Seq(Items) /\ Len(h) = n + 3
        /\ h[n + 1] = Begin /\ h[n + 2] = <<d, ip>> /\ h[n + 3] = End
        /\ \A i \in 1..n : h[i] \notin {Begin, End}
    BY <1>1 DEF PatchedFrom
  <1>3. h[1] # Begin
    BY <1>2
  <1>4. DOMAIN h = 1..(n + 3)
    BY <1>2, LenProperties
  <1>5. h[n + 2] # Begin /\ h[n + 2] # End
    BY <1>2, ItemsAssumption
  <1>6. ASSUME NEW i \in DOMAIN h
        PROVE  /\ h[i] = Begin => i = n + 1
               /\ h[i] = End => i = n + 3
    <2>1. i \in 1..n \/ i = n + 1 \/ i = n + 2 \/ i = n + 3
      BY <1>2, <1>4
    <2>2. Begin # End
      BY DEF Begin, End
    <2> QED
      BY <1>2, <1>5, <2>1, <2>2
  <1>7. n + 1 \in DOMAIN h /\ n + 2 \in DOMAIN h /\ n + 3 \in DOMAIN h
    BY <1>2, <1>4
  <1>8. ASSUME NEW i \in DOMAIN h, h[i] = Begin
        PROVE  i + 2 \in DOMAIN h /\ h[i + 2] = End /\ h[i + 1] \in DomainSuffixes \X IPs
    <2>1. i + 1 = n + 2 /\ i + 2 = n + 3
      BY <1>2, <1>6, <1>8
    <2> QED
      BY <1>2, <1>7, <2>1
  <1>9. ASSUME NEW i \in DOMAIN h, h[i] = End PROVE i > 2 /\ h[i - 2] = Begin
    <2>1. i = n + 3
      BY <1>6, <1>9
    <2>2. i > 2 /\ i - 2 = n + 1
      BY <1>2, <2>1
    <2> QED
      BY <1>2, <2>2
  <1>10. WellFormed(h)
    BY <1>2, <1>3, <1>6, <1>8, <1>9 DEF WellFormed
  <1>11. HasSection(h, <<d, ip>>)
    <2>1. n + 1 + 1 = n + 2
      BY <1>2
    <2> QED
      BY <1>2, <1>7, <2>1 DEF HasSection
  <1> QED
    BY <1>10, <1>11 DEF h

(* ... and with the users' blocks, in their order. *)
LEMMA PatchedKeepsUserBlocks ==
    ASSUME NEW file, WellFormed(file), file # <<>>, NEW d \in DomainSuffixes, NEW ip \in IPs
    PROVE  SameUserBlocks(file, Patched(file, d, ip))
  <1> DEFINE h == Patched(file, d, ip)
  <1>1. PICK b, k, s, l : PatchedFrom(file, h, b, k, s, l, <<d, ip>>)
    BY PatchedShape
  <1> HIDE DEF h
  <1>2. /\ b \in Nat /\ b > 1 /\ k \in Nat /\ b + k - 1 <= Len(file)
        /\ s \in Nat /\ l \in Nat /\ s + l + k <= Len(file) /\ Len(file) \in Nat
        /\ DOMAIN file = 1..Len(file) /\ DOMAIN h = 1..(l + 3)
    BY <1>1, LenProperties, WellFormedFacts DEF PatchedFrom
  <1> DEFINE U == UserBlocksAt(file)
             m == [i \in U |-> IF i < b THEN i - s ELSE i - k - s]
  <1>3. ASSUME NEW i \in U
        PROVE  /\ m[i] \in 1..l /\ h[m[i]] = file[i]
               /\ i \in 1..Len(file) /\ (i < b \/ i >= b + k)
    <2>1. i \in 1..Len(file) /\ file[i] \in UserBlocks
      BY <1>2 DEF UserBlocksAt
    <2>2. i < b \/ i >= b + k
      BY <1>1, <1>2, <2>1 DEF PatchedFrom
    <2>3. PICK j : j = IF i < b THEN i ELSE i - k
      OBVIOUS
    <2>4. m[i] = j - s
      BY <2>3
    <2> HIDE DEF m
    <2>5. j \in 1..(Len(file) - k) /\ (i < b => j = i /\ j < b) /\ (i >= b + k => j + k = i /\ ~(j < b))
      BY <1>2, <2>1, <2>2, <2>3
    <2>6. file[i] = LineOf(file, b, k, j)
      BY <2>2, <2>5 DEF LineOf
    <2>7. file[i] # Blank
      BY <2>1, ItemsAssumption
    <2>8. ~(j <= s \/ j > s + l)
      BY <1>1, <2>5, <2>6, <2>7 DEF PatchedFrom
    <2>9. m[i] \in 1..l /\ s + m[i] = j
      BY <1>2, <2>4, <2>5, <2>8
    <2>10. h[m[i]] = file[i]
      BY <1>1, <2>6, <2>9 DEF PatchedFrom
    <2> QED
      BY <2>1, <2>2, <2>9, <2>10
  <1>4. ASSUME NEW i \in U PROVE m[i] \in UserBlocksAt(h)
    <2>1. file[i] \in UserBlocks
      BY DEF UserBlocksAt
    <2>2. m[i] \in 1..l /\ h[m[i]] = file[i]
      BY <1>3
    <2> HIDE DEF m, U
    <2>3. m[i] \in DOMAIN h
      BY <1>2, <2>2
    <2> QED
      BY <2>1, <2>2, <2>3 DEF UserBlocksAt
  <1>5. ASSUME NEW i \in U, NEW j \in U, i < j PROVE m[i] < m[j]
    <2>1. /\ i \in Nat /\ j \in Nat /\ (i < b \/ i >= b + k) /\ (j < b \/ j >= b + k)
      BY <1>2, <1>3
    <2>2. m[i] = (IF i < b THEN i - s ELSE i - k - s) /\ m[j] = (IF j < b THEN j - s ELSE j - k - s)
      OBVIOUS
    <2> HIDE DEF m, U
    <2> QED
      BY <1>2, <1>5, <2>1, <2>2
  <1>6. ASSUME NEW j \in UserBlocksAt(h) PROVE \E i \in U : m[i] = j
    <2>1. j \in 1..(l + 3) /\ h[j] \in UserBlocks
      BY <1>2 DEF UserBlocksAt
    <2>2. j \in 1..l
      <3>1. h[l + 1] \notin UserBlocks /\ h[l + 2] \notin UserBlocks /\ h[l + 3] \notin UserBlocks
        BY <1>1, ItemsAssumption DEF PatchedFrom
      <3>2. j \in 1..l \/ j = l + 1 \/ j = l + 2 \/ j = l + 3
        BY <1>2, <2>1
      <3> QED
        BY <2>1, <3>1, <3>2
    <2>3. PICK i : i = IF s + j < b THEN s + j ELSE s + j + k
      OBVIOUS
    <2>4. i \in 1..Len(file)
      BY <1>2, <2>2, <2>3
    <2>5. h[j] = file[i]
      BY <1>1, <2>2, <2>3 DEF PatchedFrom, LineOf
    <2>6. i \in U
      BY <1>2, <2>1, <2>4, <2>5 DEF UserBlocksAt
    <2>7. m[i] = j
      <3>1. m[i] = IF i < b THEN i - s ELSE i - k - s
        BY <2>6
      <3> HIDE DEF m
      <3> QED
        BY <1>2, <2>2, <2>3, <3>1
    <2> QED
      BY <2>6, <2>7
  <1>7. m \in [U -> UserBlocksAt(h)]
    BY <1>4
  <1> HIDE DEF m, U
  <1>8. SameUserBlocks(file, h)
    BY <1>3, <1>5, <1>6, <1>7 DEF SameUserBlocks, U
  <1> QED
    BY <1>8 DEF h

(* A user's block that is put before, after or between, but not into, the  *)
(* section leaves a Corefile well formed and the section where it was.     *)
LEMMA AddBlockWellFormed ==
    ASSUME NEW file, WellFormed(file), file # <<>>, NEW u \in UserBlocks,
           NEW i \in 1..(Len(file) + 1), ~InSection(file, i)
    PROVE  /\ WellFormed(InsertAt(file, i, u))
           /\ \A body : HasSection(file, body) => HasSection(InsertAt(file, i, u), body)
  <1> DEFINE h == InsertAt(file, i, u)
  <1>1. /\ file \in Seq(Items) /\ Len(file) \in Nat /\ DOMAIN file = 1..Len(file)
        /\ \A p \in 1..Len(file) :
              file[p] = Begin => /\ p > 1 /\ p + 2 \in 1..Len(file) /\ file[p + 2] = End
                                 /\ file[p + 1] \in DomainSuffixes \X IPs
        /\ \A p, q \in 1..Len(file) : file[p] = Begin /\ file[q] = Begin => p = q
        /\ \A p \in 1..Len(file) :
              file[p] = End => p - 2 \in 1..Len(file) /\ file[p - 2] = Begin
    BY WellFormedFacts
  <1>2. i \in Nat /\ i >= 1 /\ i <= Len(file) + 1 /\ i \in 1..(Len(file) + 1)
    BY <1>1
  <1>3. /\ h \in Seq(Items) /\ Len(h) = Len(file) + 1
        /\ \A j \in 1..(Len(file) + 1) :
              h[j] = IF j < i THEN file[j] ELSE IF j = i THEN u ELSE file[j - 1]
    <2>1. u \in Items
      BY DEF Items
    <2>2. file \in Seq(Items) /\ i \in 1..(Len(file) + 1)
      BY <1>1, <1>2
    <2> QED
      BY <2>1, <2>2, InsertAtFacts
  <1> HIDE DEF h
  <1>4. DOMAIN h = 1..(Len(file) + 1)
    BY <1>3, LenProperties
  <1>5. ASSUME NEW p \in 1..Len(file), file[p] = Begin PROVE i <= p \/ i > p + 2
    <2>1. p + 2 \in 1..Len(file) /\ file[p + 2] = End /\ file[p + 1] \in DomainSuffixes \X IPs
      BY <1>1, <1>5
    <2>2. file[p] # End /\ file[p + 1] # End
      BY <1>5, <2>1, ItemsAssumption DEF Begin, End
    <2>3. \A j \in p..(p + 2 - 1) : file[j] # End
      BY <2>2
    <2>4. ~(p \in 1..(i - 1) /\ p + 2 \in i..Len(file))
      BY <1>5, <2>1, <2>3 DEF InSection
    <2> QED
      BY <1>2, <2>1, <2>4
  <1>6. ASSUME NEW j \in DOMAIN h, h[j] \in {Begin, End}
        PROVE  \/ j < i /\ j \in 1..Len(file) /\ file[j] = h[j]
               \/ j > i /\ j - 1 \in 1..Len(file) /\ file[j - 1] = h[j]
    <2>1. h[j] # u
      BY <1>6, ItemsAssumption
    <2> QED
      BY <1>2, <1>3, <1>4, <2>1
  <1>7. ASSUME NEW j \in DOMAIN h, NEW l \in DOMAIN h, h[j] = Begin, h[l] = Begin PROVE j = l
    <2>1. (j < i /\ j \in 1..Len(file) /\ file[j] = Begin)
            \/ (j > i /\ j - 1 \in 1..Len(file) /\ file[j - 1] = Begin)
      BY <1>6, <1>7
    <2>2. (l < i /\ l \in 1..Len(file) /\ file[l] = Begin)
            \/ (l > i /\ l - 1 \in 1..Len(file) /\ file[l - 1] = Begin)
      BY <1>6, <1>7
    <2>3. j \in Nat /\ l \in Nat
      BY <1>4
    <2> QED
      BY <1>1, <1>2, <2>1, <2>2, <2>3
  <1>8. ASSUME NEW j \in DOMAIN h, h[j] = Begin
        PROVE  /\ j + 2 \in DOMAIN h /\ h[j + 2] = End
               /\ h[j + 1] \in DomainSuffixes \X IPs
    <2>1. CASE j < i /\ j \in 1..Len(file) /\ file[j] = Begin
      <3>1. i > j + 2
        BY <1>2, <1>5, <2>1
      <3>2. /\ j + 2 \in 1..(Len(file) + 1) /\ j + 1 \in 1..(Len(file) + 1)
            /\ j + 2 < i /\ j + 1 < i
        BY <1>1, <1>2, <2>1, <3>1
      <3>3. h[j + 2] = file[j + 2] /\ h[j + 1] = file[j + 1]
        BY <1>3, <3>2
      <3> QED
        BY <1>1, <1>4, <2>1, <3>2, <3>3
    <2>2. CASE j > i /\ j - 1 \in 1..Len(file) /\ file[j - 1] = Begin
      <3> DEFINE p == j - 1
      <3>1. p + 2 \in 1..Len(file) /\ file[p + 2] = End /\ file[p + 1] \in DomainSuffixes \X IPs
        BY <1>1, <2>2
      <3>2. /\ j + 2 \in 1..(Len(file) + 1) /\ j + 1 \in 1..(Len(file) + 1)
            /\ ~(j + 2 < i) /\ j + 2 # i /\ ~(j + 1 < i) /\ j + 1 # i
            /\ j + 2 - 1 = p + 2 /\ j + 1 - 1 = p + 1
        BY <1>1, <1>2, <1>4, <2>2, <3>1
      <3>3. h[j + 2] = file[j + 2 - 1] /\ h[j + 1] = file[j + 1 - 1]
        BY <1>3, <3>2
      <3> QED
        BY <1>4, <3>1, <3>2, <3>3
    <2> QED
      BY <1>6, <1>8, <2>1, <2>2
  <1>9. ASSUME NEW j \in DOMAIN h, h[j] = End PROVE j > 2 /\ h[j - 2] = Begin
    <2>1. CASE j < i /\ j \in 1..Len(file) /\ file[j] = End
      <3>1. j - 2 \in 1..Len(file) /\ file[j - 2] = Begin
        BY <1>1, <2>1
      <3>2. j > 2 /\ j - 2 < i /\ j - 2 \in 1..(Len(file) + 1)
        BY <1>1, <1>2, <2>1, <3>1
      <3> QED
        BY <1>3, <3>1, <3>2
    <2>2. CASE j > i /\ j - 1 \in 1..Len(file) /\ file[j - 1] = End
      <3> DEFINE p == j - 1 - 2
      <3>1. p \in 1..Len(file) /\ file[p] = Begin
        BY <1>1, <2>2
      <3>2. i <= p \/ i > p + 2
        BY <1>5, <3>1
      <3>3. i <= p
        BY <1>2, <1>4, <2>2, <3>2
      <3>4. /\ j > 2 /\ j - 2 \in 1..(Len(file) + 1) /\ ~(j - 2 < i) /\ j - 2 # i
            /\ j - 2 - 1 = p
        BY <1>1, <1>2, <1>4, <3>1, <3>3
      <3>5. h[j - 2] = file[j - 2 - 1]
        BY <1>3, <3>4
      <3> QED
        BY <3>1, <3>4, <3>5
    <2> QED
      BY <1>6, <1>9, <2>1, <2>2
  <1>10. h[1] # Begin
    <2>1. CASE i = 1
      BY <1>1, <1>3, <2>1, ItemsAssumption
    <2>2. CASE i # 1
      <3>1. h[1] = file[1]
        BY <1>1, <1>2, <1>3, <2>2
      <3> QED
        BY <3>1 DEF WellFormed, NoData
    <2> QED
      BY <2>1, <2>2
  <1>11. WellFormed(h)
    BY <1>3, <1>7, <1>8, <1>9, <1>10 DEF WellFormed
  <1>12. ASSUME NEW body, HasSection(file, body) PROVE HasSection(h, body)
    <2>1. PICK p \in 1..Len(file) :
              file[p] = Begin /\ p + 1 \in 1..Len(file) /\ file[p + 1] = body
      BY <1>1, <1>12 DEF HasSection
    <2>2. CASE i <= p
      <3>1. PICK q : q = p + 1
        OBVIOUS
      <3>2. /\ q \in 1..(Len(file) + 1) /\ ~(q < i) /\ q # i /\ q - 1 = p
            /\ q + 1 \in 1..(Len(file) + 1) /\ ~(q + 1 < i) /\ q + 1 # i /\ q + 1 - 1 = p + 1
        BY <1>1, <1>2, <2>1, <2>2, <3>1
      <3>3. h[q] = Begin /\ h[q + 1] = body
        BY <1>3, <2>1, <3>2
      <3> QED
        BY <1>4, <3>2, <3>3 DEF HasSection
    <2>3. CASE i > p + 2
      <3>1. /\ p \in 1..(Len(file) + 1) /\ p < i /\ p + 1 \in 1..(Len(file) + 1) /\ p + 1 < i
        BY <1>1, <1>2, <2>1, <2>3
      <3>2. h[p] = Begin /\ h[p + 1] = body
        BY <1>3, <2>1, <3>1
      <3> QED
        BY <1>4, <3>1, <3>2 DEF HasSection
    <2> QED
      BY <1>5, <2>1, <2>2, <2>3
  <1> QED
    BY <1>11, <1>12 DEF h

(* So does the removal of a user's block that the section does not need    *)
(* before it.                                                              *)
LEMMA RemoveBlockWellFormed ==
    ASSUME NEW file, WellFormed(file), NEW i \in 1..Len(file), file[i] \in UserBlocks,
           i = 1 => Len(file) > 1 /\ file[2] # Begin
    PROVE  /\ WellFormed(RemoveAt(file, i))
           /\ \A body : HasSection(file, body) => HasSection(RemoveAt(file, i), body)
  <1> DEFINE h == RemoveAt(file, i)
             N == Len(file) - 1
  <1>1. /\ file \in Seq(Items) /\ Len(file) \in Nat /\ DOMAIN file = 1..Len(file)
        /\ \A p \in 1..Len(file) :
              file[p] = Begin => /\ p > 1 /\ p + 2 \in 1..Len(file) /\ file[p + 2] = End
                                 /\ file[p + 1] \in DomainSuffixes \X IPs
        /\ \A p, q \in 1..Len(file) : file[p] = Begin /\ file[q] = Begin => p = q
        /\ \A p \in 1..Len(file) :
              file[p] = End => p - 2 \in 1..Len(file) /\ file[p - 2] = Begin
    BY WellFormedFacts
  <1>2. i \in Nat /\ i >= 1 /\ i <= Len(file) /\ i \in 1..Len(file)
    BY <1>1
  <1>3. /\ h \in Seq(Items) /\ Len(h) = N
        /\ \A j \in 1..N : h[j] = IF j < i THEN file[j] ELSE file[j + 1]
    <2>1. file \in Seq(Items) /\ i \in 1..Len(file)
      BY <1>1, <1>2
    <2> QED
      BY <2>1, RemoveAtFacts
  <1> HIDE DEF h
  <1>4. DOMAIN h = 1..N
    BY <1>3, LenProperties
  <1>5. ASSUME NEW p \in 1..Len(file), file[p] = Begin PROVE i < p \/ i > p + 2
    <2>1. p + 2 \in 1..Len(file) /\ file[p + 2] = End /\ file[p + 1] \in DomainSuffixes \X IPs
      BY <1>1, <1>5
    <2>2. i # p /\ i # p + 1 /\ i # p + 2
      BY <1>5, <2>1, ItemsAssumption
    <2> QED
      BY <1>2, <2>2
  <1>6. ASSUME NEW j \in DOMAIN h
        PROVE  \/ j < i /\ j \in 1..Len(file) /\ file[j] = h[j]
               \/ j >= i /\ j + 1 \in 1..Len(file) /\ file[j + 1] = h[j]
    BY <1>1, <1>2, <1>3, <1>4
  <1>7. ASSUME NEW j \in DOMAIN h, NEW l \in DOMAIN h, h[j] = Begin, h[l] = Begin PROVE j = l
    <2>1. (j < i /\ j \in 1..Len(file) /\ file[j] = Begin)
            \/ (j >= i /\ j + 1 \in 1..Len(file) /\ file[j + 1] = Begin)
      BY <1>6, <1>7
    <2>2. (l < i /\ l \in 1..Len(file) /\ file[l] = Begin)
            \/ (l >= i /\ l + 1 \in 1..Len(file) /\ file[l + 1] = Begin)
      BY <1>6, <1>7
    <2>3. j \in Nat /\ l \in Nat
      BY <1>1, <1>4
    <2>4. CASE j < i /\ l >= i
      <3>1. j = l + 1
        BY <1>1, <1>2, <2>1, <2>2, <2>3, <2>4
      <3> QED
        BY <1>2, <2>3, <2>4, <3>1
    <2>5. CASE j >= i /\ l < i
      <3>1. l = j + 1
        BY <1>1, <1>2, <2>1, <2>2, <2>3, <2>5
      <3> QED
        BY <1>2, <2>3, <2>5, <3>1
    <2> QED
      BY <1>1, <1>2, <2>1, <2>2, <2>3, <2>4, <2>5
  <1>8. ASSUME NEW j \in DOMAIN h, h[j] = Begin
        PROVE  /\ j + 2 \in DOMAIN h /\ h[j + 2] = End
               /\ h[j + 1] \in DomainSuffixes \X IPs
    <2>1. CASE j < i /\ j \in 1..Len(file) /\ file[j] = Begin
      <3>1. i > j + 2
        BY <1>2, <1>5, <2>1
      <3>2. j + 2 \in 1..N /\ j + 1 \in 1..N /\ j + 2 < i /\ j + 1 < i
        BY <1>1, <1>2, <2>1, <3>1
      <3>3. h[j + 2] = file[j + 2] /\ h[j + 1] = file[j + 1]
        BY <1>3, <3>2
      <3> QED
        BY <1>1, <1>4, <2>1, <3>2, <3>3
    <2>2. CASE j >= i /\ j + 1 \in 1..Len(file) /\ file[j + 1] = Begin
      <3> DEFINE p == j + 1
      <3>1. p + 2 \in 1..Len(file) /\ file[p + 2] = End /\ file[p + 1] \in DomainSuffixes \X IPs
        BY <1>1, <2>2
      <3>2. /\ j + 2 \in 1..N /\ j + 1 \in 1..N /\ ~(j + 2 < i) /\ ~(j + 1 < i)
            /\ j + 2 + 1 = p + 2 /\ j + 1 + 1 = p + 1
        BY <1>1, <1>2, <1>4, <2>2, <3>1
      <3>3. h[j + 2] = file[j + 2 + 1] /\ h[j + 1] = file[j + 1 + 1]
        BY <1>3, <3>2
      <3> QED
        BY <1>4, <3>1, <3>2, <3>3
    <2> QED
      BY <1>6, <1>8, <2>1, <2>2
  <1>9. ASSUME NEW j \in DOMAIN h, h[j] = End PROVE j > 2 /\ h[j - 2] = Begin
    <2>1. CASE j < i /\ j \in 1..Len(file) /\ file[j] = End
      <3>1. j - 2 \in 1..Len(file) /\ file[j - 2] = Begin
        BY <1>1, <2>1
      <3>2. j > 2 /\ j - 2 < i /\ j - 2 \in 1..N
        BY <1>1, <1>2, <2>1, <3>1
      <3> QED
        BY <1>3, <3>1, <3>2
    <2>2. CASE j >= i /\ j + 1 \in 1..Len(file) /\ file[j + 1] = End
      <3> DEFINE q == j + 1
                 p == q - 2
      <3>1. p \in 1..Len(file) /\ file[p] = Begin
        <4>1. q \in 1..Len(file) /\ file[q] = End
          BY <2>2
        <4> HIDE DEF q
        <4> QED
          BY <1>1, <4>1
      <3>2. i < p \/ i > p + 2
        BY <1>5, <3>1
      <3>3. i < p
        BY <1>1, <1>2, <1>4, <2>2, <3>2
      <3>4. j > 2 /\ j - 2 \in 1..N /\ ~(j - 2 < i) /\ j - 2 + 1 = p
        BY <1>1, <1>2, <1>4, <3>1, <3>3
      <3>5. h[j - 2] = file[j - 2 + 1]
        BY <1>3, <3>4
      <3> QED
        BY <3>1, <3>4, <3>5
    <2> QED
      BY <1>6, <1>9, <2>1, <2>2
  <1>10. h # NoData => h[1] # Begin
    <2> SUFFICES ASSUME h # <<>> PROVE h[1] # Begin
      BY DEF NoData
    <2>1. 1 \in 1..N
      BY <1>1, <1>3, EmptySeq
    <2>2. CASE i = 1
      <3>1. h[1] = file[1 + 1]
        BY <1>3, <2>1, <2>2
      <3> QED
        BY <2>2, <3>1
    <2>3. CASE i # 1
      <3>1. h[1] = file[1]
        BY <1>2, <1>3, <2>1, <2>3
      <3>2. file # <<>>
        BY <1>1, <1>2, EmptySeq
      <3> QED
        BY <3>1, <3>2 DEF WellFormed, NoData
    <2> QED
      BY <2>2, <2>3
  <1>11. WellFormed(h)
    BY <1>3, <1>7, <1>8, <1>9, <1>10 DEF WellFormed
  <1>12. ASSUME NEW body, HasSection(file, body) PROVE HasSection(h, body)
    <2>1. PICK p \in 1..Len(file) :
              file[p] = Begin /\ p + 1 \in 1..Len(file) /\ file[p + 1] = body
      BY <1>1, <1>12 DEF HasSection
    <2>2. CASE i < p
      <3>1. PICK q : q = p - 1
        OBVIOUS
      <3>2. /\ q \in 1..N /\ ~(q < i) /\ q + 1 = p
            /\ q + 1 \in 1..N /\ ~(q + 1 < i) /\ q + 1 + 1 = p + 1
        BY <1>1, <1>2, <2>1, <2>2, <3>1
      <3>3. h[q] = file[q + 1] /\ h[q + 1] = file[q + 1 + 1]
        BY <1>3, <3>2
      <3> QED
        BY <1>4, <2>1, <3>2, <3>3 DEF HasSection
    <2>3. CASE i > p + 2
      <3>1. p \in 1..N /\ p < i /\ p + 1 \in 1..N /\ p + 1 < i
        BY <1>1, <1>2, <2>1, <2>3
      <3>2. h[p] = Begin /\ h[p + 1] = body
        BY <1>3, <2>1, <3>1
      <3> QED
        BY <1>4, <3>1, <3>2 DEF HasSection
    <2> QED
      BY <1>5, <2>1, <2>2, <2>3
  <1> QED
    BY <1>11, <1>12 DEF h

-----------------------------------------------------------------------------
(* The inductive invariant. *)

(* It holds of every ConfigMap the Jobs may find. *)
LEMMA PatcherInitInv == PatcherInit => PatcherInv
  <1> SUFFICES ASSUME PatcherInit PROVE PatcherInv
    OBVIOUS
  <1>1. ConfigMapOK /\ CountersOK
    BY CorefilesAssumption, PatcherBounds DEF PatcherInit, ConfigMapOK, CountersOK
  <1>2. NewPod(0) \in Pods /\ PodOK(NewPod(0), corefile, 0) /\ NewPod(0).at # "complete"
    BY PatcherBounds DEF NewPod, Pods, PodStates, PodOK
  <1>3. version = 0 /\ \A d \in DomainSuffixes : pod[d] = NewPod(0)
    BY DEF PatcherInit
  <1>4. pod \in [DomainSuffixes -> Pods]
    BY <1>2 DEF PatcherInit
  <1> QED
    BY <1>1, <1>2, <1>3, <1>4 DEF PatcherInv, CompleteHasSection

(* A Corefile that contains a Job's block has its section ... *)
LEMMA ContainsBlockHasSection ==
    ASSUME NEW file \in Seq(Items), NEW d, NEW ip, ContainsBlock(file, XCCBlock(d, ip))
    PROVE  HasSection(file, <<d, ip>>)
  <1>1. /\ Len(XCCBlock(d, ip)) = 3 /\ XCCBlock(d, ip)[1] = Begin
        /\ XCCBlock(d, ip)[2] = <<d, ip>>
    BY DEF XCCBlock, Forward
  <1>2. Len(file) \in Nat /\ DOMAIN file = 1..Len(file) /\ \A j \in 1..Len(file) : file[j] \in Items
    BY LenProperties, ElementOfSeq
  <1>3. PICK i \in 1..(Len(file) - 3 + 1) : SubSeq(file, i, i + 3 - 1) = XCCBlock(d, ip)
    BY <1>1 DEF ContainsBlock
  <1>4. /\ i \in Nat /\ i + 3 - 1 \in Int /\ i \in DOMAIN file /\ i + 1 \in DOMAIN file
        /\ \A j \in i..(i + 3 - 1) : file[j] \in Items
    BY <1>2
  <1>5. /\ SubSeq(file, i, i + 3 - 1)[1] = file[i]
        /\ SubSeq(file, i, i + 3 - 1)[2] = file[i + 1]
    <2> DEFINE m == i + 3 - 1
    <2>1. /\ m \in Int /\ 1 \in 1..(m - i + 1) /\ 2 \in 1..(m - i + 1)
          /\ \A j \in i..m : file[j] \in Items
      BY <1>4
    <2> HIDE DEF m
    <2>2. SubSeq(file, i, m)[1] = file[i + 1 - 1] /\ SubSeq(file, i, m)[2] = file[i + 2 - 1]
      BY <1>4, <2>1, SubSeqProperties
    <2>3. i + 1 - 1 = i /\ i + 2 - 1 = i + 1
      BY <1>4
    <2> QED
      BY <2>2, <2>3 DEF m
  <1>6. file[i] = Begin /\ file[i + 1] = <<d, ip>>
    BY <1>1, <1>3, <1>5
  <1> QED
    BY <1>4, <1>6 DEF HasSection

(* ... and the other way round. *)
LEMMA HasSectionContainsBlock ==
    ASSUME NEW file, WellFormed(file), NEW d \in DomainSuffixes, NEW ip \in IPs,
           HasSection(file, <<d, ip>>)
    PROVE  ContainsBlock(file, XCCBlock(d, ip))
  <1>1. /\ Len(file) \in Nat /\ DOMAIN file = 1..Len(file)
        /\ \A j \in 1..Len(file) : file[j] \in Items
    BY WellFormedFacts
  <1>2. PICK b \in 1..Len(file) : file[b] = Begin /\ file[b + 1] = <<d, ip>>
    BY <1>1 DEF HasSection
  <1>3. b + 2 \in 1..Len(file) /\ file[b + 2] = End
    BY <1>2, WellFormedFacts
  <1> DEFINE n == b + 3 - 1
             t == SubSeq(file, b, n)
  <1>4. b \in Int /\ n \in Int /\ n = b + 2 /\ \A j \in b..n : file[j] \in Items
    BY <1>1, <1>2, <1>3
  <1> HIDE DEF n
  <1>5. /\ t \in Seq(Items) /\ Len(t) = (IF b <= n THEN n - b + 1 ELSE 0)
        /\ \A i \in 1..(n - b + 1) : t[i] = file[b + i - 1]
    BY <1>4, SubSeqProperties
  <1> HIDE DEF t
  <1>6. Len(t) = 3 /\ t[1] = file[b] /\ t[2] = file[b + 1] /\ t[3] = file[b + 2]
    <2>1. n - b + 1 = 3 /\ b + 1 - 1 = b /\ b + 2 - 1 = b + 1 /\ b + 3 - 1 = b + 2 /\ b <= n
      BY <1>4
    <2> QED
      BY <1>5, <2>1
  <1>7. t = XCCBlock(d, ip)
    <2>1. /\ XCCBlock(d, ip) \in Seq(Items) /\ Len(XCCBlock(d, ip)) = 3
          /\ XCCBlock(d, ip)[1] = Begin /\ XCCBlock(d, ip)[2] = <<d, ip>>
          /\ XCCBlock(d, ip)[3] = End
      BY DEF XCCBlock, Forward, Items
    <2>2. \A i \in 1..3 : t[i] = XCCBlock(d, ip)[i]
      <3>1. \A i \in 1..3 : i = 1 \/ i = 2 \/ i = 3
        OBVIOUS
      <3> QED
        BY <1>2, <1>3, <1>6, <2>1, <3>1
    <2> QED
      BY <1>5, <1>6, <2>1, <2>2, SeqEqual
  <1>8. b \in 1..(Len(file) - 3 + 1) /\ Len(XCCBlock(d, ip)) = 3
    BY <1>1, <1>2, <1>3 DEF XCCBlock
  <1> QED
    BY <1>7, <1>8 DEF ContainsBlock, t, n

(* What a step may do to the Corefile: the users' blocks stay, or it is an *)
(* edit.                                                                   *)
Keeps == SameUserBlocks(corefile, corefile') \/ edits' # edits

(* What a Job that reports success leaves: its own section. *)
Reports ==
    \A d \in DomainSuffixes :
        pod[d].at # "complete" /\ pod'[d].at = "complete"
           => ContainsBlock(corefile', XCCBlock(d, pod'[d].ip))

(* The same Corefile has the same blocks. *)
LEMMA UnchangedKeeps == corefile' = corefile => Keeps
  <1> SUFFICES ASSUME corefile' = corefile PROVE SameUserBlocks(corefile, corefile')
    BY DEF Keeps
  <1> DEFINE m == [i \in UserBlocksAt(corefile) |-> i]
  <1>1. m \in [UserBlocksAt(corefile) -> UserBlocksAt(corefile)]
    OBVIOUS
  <1>2. \A i \in UserBlocksAt(corefile) : m[i] = i
    OBVIOUS
  <1> HIDE DEF m
  <1> QED
    BY <1>1, <1>2 DEF SameUserBlocks

(* A write of the ConfigMap leaves pods with a copy that is out of date. *)
LEMMA PodOKAfterWrite ==
    ASSUME NEW p \in Pods, NEW file, NEW v \in Nat, PodOK(p, file, v), NEW g
    PROVE  PodOK(p, g, v + 1)
  BY DEF PodOK, Pods

(* A step of one pod, with the ConfigMap left alone or written. *)
LEMMA PodMoves ==
    ASSUME PatcherInv, NEW d \in DomainSuffixes, NEW p \in Pods,
           pod' = [pod EXCEPT ![d] = p], PodOK(p, corefile', version'),
           WellFormed(corefile'), clusterIP' = clusterIP, CountersOK',
           UNCHANGED <<corefile, version>> \/ version' = version + 1,
           CompleteHasSection',
           p.at = "complete" => HasSection(corefile', <<d, p.ip>>) /\ p.ip \in IPs
    PROVE  PatcherInv' /\ Reports
  <1>1. version \in Nat /\ ConfigMapOK'
    BY DEF PatcherInv, ConfigMapOK
  <1>2. /\ pod' \in [DomainSuffixes -> Pods] /\ pod'[d] = p
        /\ \A e \in DomainSuffixes \ {d} : pod'[e] = pod[e]
    BY DEF PatcherInv
  <1>3. ASSUME NEW e \in DomainSuffixes PROVE PodOK(pod'[e], corefile', version')
    <2>1. PodOK(pod[e], corefile, version) /\ pod[e] \in Pods
      BY DEF PatcherInv
    <2>2. PodOK(pod[e], corefile', version')
      BY <1>1, <2>1, PodOKAfterWrite
    <2> QED
      BY <1>2, <2>2
  <1>4. PatcherInv'
    BY <1>1, <1>2, <1>3 DEF PatcherInv
  <1>5. ASSUME NEW e \in DomainSuffixes, pod[e].at # "complete", pod'[e].at = "complete"
        PROVE  ContainsBlock(corefile', XCCBlock(e, pod'[e].ip))
    <2>1. e = d
      BY <1>2, <1>5
    <2>2. HasSection(corefile', <<d, p.ip>>) /\ p.ip \in IPs
      BY <1>2, <1>5, <2>1
    <2>3. ContainsBlock(corefile', XCCBlock(d, p.ip))
      BY <2>2, HasSectionContainsBlock
    <2> QED
      BY <1>2, <2>1, <2>3
  <1> QED
    BY <1>4, <1>5 DEF Reports

(* A step of one pod that leaves the ConfigMap alone: it does not forget   *)
(* that it failed, and succeeds only over its own section.                 *)
LEMMA PodMovesAlone ==
    ASSUME PatcherInv, NEW d \in DomainSuffixes, NEW p \in Pods,
           pod' = [pod EXCEPT ![d] = p], PodOK(p, corefile, version), CountersOK',
           UNCHANGED <<corefile, version, clusterIP>>,
           pod[d].at # "complete", HasFailed(pod[d]) => HasFailed(p),
           p.at = "complete" => HasSection(corefile, <<d, p.ip>>) /\ p.ip \in IPs
    PROVE  PatcherInv' /\ Keeps /\ Reports
  <1>1. WellFormed(corefile) /\ CompleteHasSection
    BY DEF PatcherInv, ConfigMapOK
  <1>2. pod'[d] = p /\ \A e \in DomainSuffixes \ {d} : pod'[e] = pod[e]
    BY DEF PatcherInv
  <1>3. CompleteHasSection'
    <2> SUFFICES ASSUME NEW c \in DomainSuffixes, pod'[c].at = "complete"
                 PROVE  \E e \in DomainSuffixes, ip \in IPs :
                           HasSection(corefile, <<e, ip>>) /\ Wrote(pod'[e], ip)
      BY DEF CompleteHasSection
    <2>1. CASE p.at = "complete"
      <3>1. HasSection(corefile, <<d, p.ip>>) /\ p.ip \in IPs /\ Wrote(pod'[d], p.ip)
        BY <1>2, <2>1 DEF Wrote
      <3> QED
        BY <3>1
    <2>2. CASE p.at # "complete"
      <3>1. pod[c].at = "complete"
        BY <1>2, <2>2
      <3>2. PICK e \in DomainSuffixes, ip \in IPs :
                HasSection(corefile, <<e, ip>>) /\ Wrote(pod[e], ip)
        BY <1>1, <3>1 DEF CompleteHasSection
      <3>3. Wrote(pod'[e], ip)
        BY <1>2, <2>2, <3>2 DEF Wrote
      <3> QED
        BY <3>2, <3>3
    <2> QED
      BY <2>1, <2>2
  <1>4. PatcherInv' /\ Reports
    BY <1>1, <1>3, PodMoves
  <1> QED
    BY <1>4, UnchangedKeeps

(* A pod as it is created is one. *)
LEMMA NewPodType ==
    ASSUME NEW r \in Nat
    PROVE  NewPod(r) \in Pods
  BY DEF NewPod, Pods, PodStates

(* The pod that os.Exit(1), a panic or a kill leaves. *)
FailedPod(p) ==
    [NewPod(p.retries) EXCEPT !.at = IF p.retries < BackoffLimit THEN "backoff" ELSE "failed"]

(* A failed pod holds no copy of the ConfigMap and has not succeeded. *)
LEMMA FailedPodFacts ==
    ASSUME NEW p \in Pods, NEW f, NEW v \in Nat, PodOK(p, f, v), NEW file, NEW w \in Nat
    PROVE  /\ FailedPod(p) \in Pods /\ PodOK(FailedPod(p), file, w)
           /\ FailedPod(p).at # "complete" /\ HasFailed(FailedPod(p))
  <1> DEFINE q == FailedPod(p)
  <1>1. p.retries \in Nat /\ p.retries <= BackoffLimit
    BY DEF Pods, PodOK
  <1>2. /\ q.at = (IF p.retries < BackoffLimit THEN "backoff" ELSE "failed")
        /\ q.retries = p.retries /\ q.gotVersion = 0
    BY DEF FailedPod, NewPod
  <1>3. q \in Pods
    <2>1. NewPod(p.retries) \in Pods
      BY <1>1, NewPodType
    <2> QED
      BY <1>2, <2>1 DEF FailedPod, Pods, PodStates
  <1> QED
    BY <1>1, <1>2, <1>3 DEF PodOK, HasFailed

(* The pod that has ended with success. *)
CompletePod(p) == [NewPod(p.retries) EXCEPT !.at = "complete", !.ip = p.ip]

(* A complete pod holds no copy of the ConfigMap either. *)
LEMMA CompletePodFacts ==
    ASSUME NEW p \in Pods, NEW f, NEW v \in Nat, PodOK(p, f, v), NEW file, NEW w \in Nat
    PROVE  /\ CompletePod(p) \in Pods /\ PodOK(CompletePod(p), file, w)
           /\ CompletePod(p).at = "complete" /\ CompletePod(p).ip = p.ip
           /\ CompletePod(p).retries = p.retries
  <1> DEFINE q == CompletePod(p)
  <1>1. p.retries \in Nat /\ p.retries <= BackoffLimit /\ p.ip \in IPs \cup {NoIP}
    BY DEF Pods, PodOK
  <1>2. q.at = "complete" /\ q.retries = p.retries /\ q.gotVersion = 0 /\ q.ip = p.ip
    BY DEF CompletePod, NewPod
  <1>3. q \in Pods
    <2>1. NewPod(p.retries) \in Pods
      BY <1>1, NewPodType
    <2> QED
      BY <1>1, <2>1 DEF CompletePod, Pods, PodStates
  <1> QED
    BY <1>1, <1>2, <1>3 DEF PodOK

(* Nothing else changed a counter, or one fault was counted. *)
LEMMA CountersPreserved ==
    ASSUME CountersOK, UNCHANGED <<edits, serviceChanges>>, Fault \/ UNCHANGED faults
    PROVE  CountersOK'
  BY PatcherBounds DEF CountersOK, Fault

(* A pod that fails without having written. *)
LEMMA PodFailsPreserves ==
    ASSUME PatcherInv, NEW d \in DomainSuffixes, PodFails(d), pod[d].at # "complete",
           UNCHANGED <<corefile, version, clusterIP, edits, serviceChanges>>,
           Fault \/ UNCHANGED faults
    PROVE  PatcherInv' /\ Keeps /\ Reports
  <1>1. pod[d] \in Pods /\ PodOK(pod[d], corefile, version) /\ version \in Nat /\ CountersOK
    BY DEF PatcherInv, ConfigMapOK
  <1>2. pod' = [pod EXCEPT ![d] = FailedPod(pod[d])]
    BY DEF PodFails, FailedPod
  <1>3. CountersOK'
    BY <1>1, CountersPreserved
  <1>4. /\ FailedPod(pod[d]) \in Pods /\ PodOK(FailedPod(pod[d]), corefile, version)
        /\ FailedPod(pod[d]).at # "complete" /\ HasFailed(FailedPod(pod[d]))
    BY <1>1, FailedPodFacts
  <1> QED
    BY <1>2, <1>3, <1>4, PodMovesAlone

(* The users' steps. *)
LEMMA UsersPreserve ==
    ASSUME PatcherInv, Users
    PROVE  PatcherInv' /\ Keeps /\ Reports
  <1>1. ASSUME NEW ip \in IPs, AssignClusterIP(ip) PROVE PatcherInv' /\ Keeps /\ Reports
    <2>1. ConfigMapOK' /\ CountersOK'
      BY <1>1, PatcherBounds DEF AssignClusterIP, PatcherInv, ConfigMapOK, CountersOK
    <2>2. UNCHANGED <<pod, corefile, version>>
      BY <1>1 DEF AssignClusterIP
    <2>3. PatcherInv' /\ Reports
      BY <2>1, <2>2 DEF PatcherInv, CompleteHasSection, Reports
    <2> QED
      BY <2>2, <2>3, UnchangedKeeps
  <1>2. ASSUME NEW file, EditTo(file), WellFormed(file),
               \A body : HasSection(corefile, body) => HasSection(file, body)
        PROVE  PatcherInv' /\ Keeps /\ Reports
    <2>1. /\ version \in Nat /\ edits \in Nat /\ CountersOK /\ ConfigMapOK
          /\ CompleteHasSection /\ pod \in [DomainSuffixes -> Pods]
          /\ \A d \in DomainSuffixes : PodOK(pod[d], corefile, version)
      BY DEF PatcherInv, ConfigMapOK, CountersOK
    <2>2. corefile' = file /\ version' = version + 1 /\ pod' = pod /\ edits' = edits + 1
      BY <1>2 DEF EditTo
    <2>3. ConfigMapOK' /\ CountersOK'
      BY <1>2, <2>1, PatcherBounds DEF EditTo, ConfigMapOK, CountersOK
    <2>4. \A d \in DomainSuffixes : PodOK(pod'[d], corefile', version')
      BY <2>1, <2>2, PodOKAfterWrite
    <2>5. CompleteHasSection'
      BY <1>2, <2>1, <2>2 DEF CompleteHasSection
    <2>6. Keeps /\ Reports
      BY <2>1, <2>2 DEF Keeps, Reports
    <2> QED
      BY <2>1, <2>2, <2>3, <2>4, <2>5, <2>6 DEF PatcherInv
  <1>3. WellFormed(corefile)
    BY DEF PatcherInv, ConfigMapOK
  <1>4. ASSUME NEW u \in UserBlocks, NEW i \in 1..(Len(corefile) + 1), AddBlock(u, i)
        PROVE  PatcherInv' /\ Keeps /\ Reports
    <2>1. /\ corefile # <<>> /\ i \in 1..(Len(corefile) + 1) /\ ~InSection(corefile, i)
          /\ EditTo(InsertAt(corefile, i, u))
      BY <1>4 DEF AddBlock, NoData
    <2> QED
      BY <1>2, <1>3, <2>1, AddBlockWellFormed
  <1>5. ASSUME NEW i \in 1..Len(corefile), RemoveBlock(i) PROVE PatcherInv' /\ Keeps /\ Reports
    <2>1. corefile[i] \in UserBlocks /\ EditTo(RemoveAt(corefile, i))
      BY <1>5 DEF RemoveBlock
    <2>2. i = 1 => Len(corefile) > 1 /\ corefile[2] # Begin
      BY <1>5 DEF RemoveBlock
    <2> QED
      BY <1>2, <1>3, <2>1, <2>2, RemoveBlockWellFormed
  <1> QED
    BY <1>1, <1>4, <1>5 DEF Users

(* The Job's update: it writes what it got only over what it got. *)
LEMMA UpdatePreserves ==
    ASSUME PatcherInv, NEW d \in DomainSuffixes, UpdateConfigMap(d)
    PROVE  PatcherInv' /\ Keeps /\ Reports
  <1> DEFINE p == pod[d]
             file == Patched(corefile, d, p.ip)
  <1>1. /\ p \in Pods /\ PodOK(p, corefile, version) /\ version \in Nat
        /\ WellFormed(corefile) /\ CountersOK
    BY DEF PatcherInv, ConfigMapOK
  <1>2. p.at = "update" /\ p.gotVersion = version
    BY DEF UpdateConfigMap
  <1>3. p.got = corefile /\ corefile # <<>> /\ p.ip \in IPs
    BY <1>1, <1>2 DEF PodOK, Pods, NoData
  <1>4. corefile' = file /\ version' = version + 1 /\ clusterIP' = clusterIP
    BY <1>3 DEF UpdateConfigMap
  <1>5. WellFormed(file) /\ HasSection(file, <<d, p.ip>>)
    BY <1>1, <1>3, PatchedWellFormed
  <1>6. SameUserBlocks(corefile, file)
    BY <1>1, <1>3, PatchedKeepsUserBlocks
  <1>7. CountersOK'
    BY <1>1, CountersPreserved DEF UpdateConfigMap
  <1>8. ASSUME NEW q \in Pods, PodOK(q, corefile', version'), pod' = [pod EXCEPT ![d] = q],
               q.at = "complete" => q.ip = p.ip, q.at # "complete" => HasFailed(q)
        PROVE  PatcherInv' /\ Reports
    <2>1. pod'[d] = q
      BY <1>8 DEF PatcherInv
    <2> HIDE DEF p, file
    <2>2. Wrote(pod'[d], p.ip)
      BY <1>8, <2>1 DEF Wrote
    <2>3. HasSection(corefile', <<d, p.ip>>) /\ WellFormed(corefile')
      BY <1>4, <1>5
    <2>4. CompleteHasSection'
      BY <1>3, <2>2, <2>3 DEF CompleteHasSection
    <2>5. q.at = "complete" => HasSection(corefile', <<d, q.ip>>) /\ q.ip \in IPs
      BY <1>3, <1>8, <2>3
    <2> QED
      BY <1>4, <1>7, <1>8, <2>3, <2>4, <2>5, PodMoves
  <1>9. version' \in Nat
    BY <1>1, <1>4
  <1>10. CASE PodCompletes(d)
    <2>1. pod' = [pod EXCEPT ![d] = CompletePod(p)]
      BY <1>10 DEF PodCompletes, CompletePod
    <2>2. /\ CompletePod(p) \in Pods /\ PodOK(CompletePod(p), corefile', version')
          /\ CompletePod(p).at = "complete" /\ CompletePod(p).ip = p.ip
      BY <1>1, <1>9, CompletePodFacts
    <2>3. PatcherInv' /\ Reports
      BY <1>8, <2>1, <2>2
    <2> QED
      BY <1>4, <1>6, <2>3 DEF Keeps
  <1>11. CASE PodFails(d)
    <2>1. pod' = [pod EXCEPT ![d] = FailedPod(p)]
      BY <1>11 DEF PodFails, FailedPod
    <2>2. /\ FailedPod(p) \in Pods /\ PodOK(FailedPod(p), corefile', version')
          /\ FailedPod(p).at # "complete" /\ HasFailed(FailedPod(p))
      BY <1>1, <1>9, FailedPodFacts
    <2>3. PatcherInv' /\ Reports
      BY <1>8, <2>1, <2>2
    <2> QED
      BY <1>4, <1>6, <2>3 DEF Keeps
  <1> QED
    BY <1>10, <1>11 DEF UpdateConfigMap

(* The pod's other steps leave the ConfigMap alone. *)
LEMMA PodPreserves ==
    ASSUME PatcherInv, NEW d \in DomainSuffixes,
           \/ PodStep(d) \/ GetServiceFails(d) \/ Deadline(d) \/ PollAgain(d) \/ TimedOut(d)
           \/ PodKilled(d)
    PROVE  PatcherInv' /\ Keeps /\ Reports
  <1> DEFINE p == pod[d]
  <1>1. /\ p \in Pods /\ PodOK(p, corefile, version) /\ version \in Nat
        /\ WellFormed(corefile) /\ CountersOK /\ clusterIP \in IPs \cup {NoIP}
        /\ corefile \in Seq(Items) /\ pod \in [DomainSuffixes -> Pods]
    BY DEF PatcherInv, ConfigMapOK, WellFormed
  <1>2. ASSUME GetClusterIP(d) PROVE PatcherInv' /\ Keeps /\ Reports
    <2> DEFINE q == [p EXCEPT !.at = "get", !.ip = clusterIP]
    <2>1. pod' = [pod EXCEPT ![d] = q] /\ CountersOK' /\ UNCHANGED <<corefile, version, clusterIP>>
      BY <1>1, <1>2, CountersPreserved DEF GetClusterIP
    <2>2. /\ q \in Pods /\ PodOK(q, corefile, version) /\ q.at = "get"
          /\ q.retries = p.retries /\ p.at = "poll"
      BY <1>1, <1>2 DEF GetClusterIP, Pods, PodStates, PodOK
    <2> HIDE DEF q
    <2>3. HasFailed(p) => HasFailed(q)
      BY <2>2 DEF HasFailed
    <2> QED
      BY <2>1, <2>2, <2>3, PodMovesAlone
  <1>3. ASSUME NEW s \in {"select", "poll"}, pod' = [pod EXCEPT ![d].at = s],
               UNCHANGED <<corefile, version, clusterIP, edits, serviceChanges>>,
               Fault \/ UNCHANGED faults, p.at \in {"poll", "select"}
        PROVE  PatcherInv' /\ Keeps /\ Reports
    <2> DEFINE q == [p EXCEPT !.at = s]
    <2>1. pod' = [pod EXCEPT ![d] = q] /\ CountersOK'
      BY <1>1, <1>3, CountersPreserved
    <2>2. /\ q \in Pods /\ PodOK(q, corefile, version) /\ q.at # "complete"
          /\ q.retries = p.retries
      BY <1>1 DEF Pods, PodStates, PodOK
    <2> HIDE DEF q
    <2>3. HasFailed(p) => HasFailed(q)
      BY <1>3, <2>2 DEF HasFailed
    <2>4. p.at # "complete"
      BY <1>3
    <2> QED
      BY <1>3, <2>1, <2>2, <2>3, <2>4, PodMovesAlone
  <1>4. ASSUME NoClusterIP(d) \/ GetServiceFails(d) \/ PollAgain(d) PROVE PatcherInv' /\ Keeps /\ Reports
    BY <1>3, <1>4 DEF NoClusterIP, GetServiceFails, PollAgain
  <1>5. ASSUME Deadline(d) PROVE PatcherInv' /\ Keeps /\ Reports
    <2> DEFINE q == [p EXCEPT !.expired = TRUE]
    <2>1. pod' = [pod EXCEPT ![d] = q] /\ CountersOK' /\ UNCHANGED <<corefile, version, clusterIP>>
      BY <1>1, <1>5, CountersPreserved DEF Deadline
    <2>2. /\ q \in Pods /\ PodOK(q, corefile, version) /\ q.at # "complete"
          /\ q.retries = p.retries /\ p.at \in {"poll", "select"}
      BY <1>1, <1>5 DEF Deadline, Pods, PodStates, PodOK
    <2> HIDE DEF q
    <2>3. (HasFailed(p) => HasFailed(q)) /\ p.at # "complete"
      BY <2>2 DEF HasFailed
    <2> QED
      BY <2>1, <2>2, <2>3, PodMovesAlone
  <1>6. ASSUME UpToDate(d) PROVE PatcherInv' /\ Keeps /\ Reports
    <2> DEFINE q == CompletePod(p)
    <2>1. pod' = [pod EXCEPT ![d] = q] /\ CountersOK' /\ UNCHANGED <<corefile, version, clusterIP>>
      BY <1>1, <1>6, CountersPreserved DEF UpToDate, PodCompletes, CompletePod
    <2>2. /\ q \in Pods /\ PodOK(q, corefile, version)
          /\ q.at = "complete" /\ q.ip = p.ip /\ q.retries = p.retries
      BY <1>1, CompletePodFacts
    <2>3. HasSection(corefile, <<d, p.ip>>)
      BY <1>1, <1>6, ContainsBlockHasSection DEF UpToDate
    <2>4. p.at = "get" /\ p.ip \in IPs
      BY <1>1, <1>6 DEF UpToDate, Pods, PodOK
    <2> HIDE DEF q
    <2>5. (HasFailed(p) => HasFailed(q)) /\ p.at # "complete"
      BY <2>2, <2>4 DEF HasFailed
    <2>6. HasSection(corefile, <<d, q.ip>>) /\ q.ip \in IPs
      BY <2>2, <2>3, <2>4
    <2> QED
      BY <2>1, <2>2, <2>5, <2>6, PodMovesAlone
  <1>7. ASSUME GetConfigMap(d) PROVE PatcherInv' /\ Keeps /\ Reports
    <2> DEFINE q == [p EXCEPT !.at = "update", !.got = corefile, !.gotVersion = version]
    <2>1. pod' = [pod EXCEPT ![d] = q] /\ CountersOK' /\ UNCHANGED <<corefile, version, clusterIP>>
      BY <1>1, <1>7, CountersPreserved DEF GetConfigMap
    <2>2. /\ q.at = "update" /\ q.got = corefile /\ q.gotVersion = version
          /\ q.ip = p.ip /\ q.retries = p.retries /\ q.expired = p.expired
      BY <1>1 DEF Pods
    <2>3. q \in Pods
      BY <1>1 DEF Pods, PodStates
    <2>4. p.at = "get" /\ corefile # NoData
      BY <1>7 DEF GetConfigMap
    <2>5. PodOK(q, corefile, version) /\ q.at # "complete"
      <3> HIDE DEF q
      <3> QED
        BY <1>1, <2>2, <2>4 DEF PodOK
    <2> HIDE DEF q
    <2>6. (HasFailed(p) => HasFailed(q)) /\ p.at # "complete"
      BY <2>2, <2>4 DEF HasFailed
    <2> QED
      BY <2>1, <2>3, <2>5, <2>6, PodMovesAlone
  <1>8. ASSUME NilDataPanic(d) \/ UpdateConflict(d) \/ TimedOut(d) \/ PodKilled(d)
        PROVE  PatcherInv' /\ Keeps /\ Reports
    BY <1>8, PodFailsPreserves
    DEF NilDataPanic, UpdateConflict, TimedOut, PodKilled
  <1>9. ASSUME RestartPod(d) PROVE PatcherInv' /\ Keeps /\ Reports
    <2> DEFINE q == NewPod(p.retries + 1)
    <2>1. pod' = [pod EXCEPT ![d] = q] /\ CountersOK' /\ UNCHANGED <<corefile, version, clusterIP>>
      BY <1>1, <1>9, CountersPreserved DEF RestartPod
    <2>2. p.retries \in Nat /\ p.retries < BackoffLimit /\ BackoffLimit \in Nat
      BY <1>1, <1>9, PatcherBounds DEF RestartPod, PodOK, Pods
    <2>3. q \in Pods
      BY <2>2, NewPodType
    <2>4. PodOK(q, corefile, version) /\ q.at # "complete" /\ HasFailed(q)
      BY <1>1, <2>2 DEF NewPod, PodOK, HasFailed
    <2>5. p.at # "complete"
      BY <1>9 DEF RestartPod
    <2> HIDE DEF q
    <2> QED
      BY <2>1, <2>3, <2>4, <2>5, PodMovesAlone
  <1>10. ASSUME UpdateConfigMap(d) PROVE PatcherInv' /\ Keeps /\ Reports
    BY <1>10, UpdatePreserves
  <1> QED
    BY <1>2, <1>4, <1>5, <1>6, <1>7, <1>8, <1>9, <1>10 DEF PodStep

(* The invariant is inductive, and each step keeps the users' blocks and   *)
(* reports only what it did.                                               *)
LEMMA PatcherNextInv ==
    PatcherInv /\ [PatcherNext]_patcherVars => PatcherInv' /\ Keeps /\ Reports
  <1> SUFFICES ASSUME PatcherInv, [PatcherNext]_patcherVars PROVE PatcherInv' /\ Keeps /\ Reports
    OBVIOUS
  <1>1. CASE UNCHANGED patcherVars
    <2>1. PatcherInv' /\ Reports
      BY <1>1 DEF patcherVars, PatcherInv, ConfigMapOK, CountersOK, CompleteHasSection, Reports
    <2> QED
      BY <1>1, <2>1, UnchangedKeeps DEF patcherVars
  <1> QED
    BY <1>1, UsersPreserve, PodPreserves DEF PatcherNext

(* It is an invariant of the specification. *)
LEMMA PatcherInvariant == PatcherSpec => []PatcherInv
  BY PatcherInitInv, PatcherNextInv, PTL DEF PatcherSpec

-----------------------------------------------------------------------------
(* The ConfigMap, the Service and the pods keep their types, a pod that    *)
(* patches has an IP, and no Job is retried beyond its limit.              *)
THEOREM PatcherTypeCorrect == PatcherSpec => []PatcherTypeOK
  <1>1. PatcherInv => PatcherTypeOK
    BY DEF PatcherInv, ConfigMapOK, CountersOK, WellFormed, PodOK, Pods, PatcherTypeOK
  <1> QED
    BY <1>1, PatcherInvariant, PTL

(* However the reads and writes of any number of Jobs, their retries, lost *)
(* answers and edits of users interleave, AppendStubDomainBlock never      *)
(* leaves a second section.                                                *)
THEOREM NeverTwoSections == PatcherSpec => []OneSection
  <1>1. PatcherInv => OneSection
    BY DEF PatcherInv, ConfigMapOK, WellFormed, OneSection, Sections
  <1> QED
    BY <1>1, PatcherInvariant, PTL

(* Once a Job reported success the root DNS server forwards the zone of a  *)
(* Job to the IP this Job got, for good: the last writer of the ConfigMap  *)
(* reported success too, or only the answer to its Update was lost.        *)
THEOREM SuccessIsForwarded == PatcherSpec => []CompleteIsForwarded
  <1>1. PatcherInv => CompleteIsForwarded
    <2> SUFFICES ASSUME PatcherInv, NEW c \in DomainSuffixes, pod[c].at = "complete"
                 PROVE  \E d \in DomainSuffixes, ip \in IPs :
                           /\ ContainsBlock(corefile, XCCBlock(d, ip))
                           /\ IF pod[d].at = "complete" THEN pod[d].ip = ip
                              ELSE HasFailed(pod[d])
      BY DEF CompleteIsForwarded
    <2>1. WellFormed(corefile) /\ CompleteHasSection
      BY DEF PatcherInv, ConfigMapOK
    <2>2. PICK d \in DomainSuffixes, ip \in IPs :
              HasSection(corefile, <<d, ip>>) /\ Wrote(pod[d], ip)
      BY <2>1 DEF CompleteHasSection
    <2>3. ContainsBlock(corefile, XCCBlock(d, ip))
      BY <2>1, <2>2, HasSectionContainsBlock
    <2> QED
      BY <2>2, <2>3 DEF Wrote
  <1> QED
    BY <1>1, PatcherInvariant, PTL

(* AppendStubDomainBlock reports success only when the ConfigMap has the   *)
(* Job's own section: no conflict and no section of another Job passes for *)
(* it.                                                                     *)
THEOREM SuccessMeansOwnSection == PatcherSpec => SuccessIsOwnSection
  <1>1. PatcherInv /\ [PatcherNext]_patcherVars
          => [\A d \in DomainSuffixes :
                pod[d].at # "complete" /\ pod'[d].at = "complete"
                   => ContainsBlock(corefile', XCCBlock(d, pod'[d].ip))]_patcherVars
    BY PatcherNextInv DEF Reports
  <1> QED
    BY <1>1, PatcherInvariant, PTL DEF PatcherSpec, SuccessIsOwnSection

(* No Job drops, moves or restores a block of a user: neither the removal  *)
(* of a section does, wherever it stands, nor a write of an outdated copy, *)
(* for any Corefile that has one section at most and not as its first      *)
(* line.                                                                   *)
THEOREM UserBlocksAreKept == PatcherSpec => UserBlocksKept
  <1>1. PatcherInv /\ [PatcherNext]_patcherVars
          => [SameUserBlocks(corefile, corefile') \/ edits' # edits]_patcherVars
    BY PatcherNextInv DEF Keeps
  <1> QED
    BY <1>1, PatcherInvariant, PTL DEF PatcherSpec, UserBlocksKept
=============================================================================
