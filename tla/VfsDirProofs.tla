--------------------------- MODULE VfsDirProofs ----------------------------
(***************************************************************************)
(* Proofs about the listings of module VfsDir, for every archive, set of    *)
(* paths and number of open directories.                                    *)
(***************************************************************************)
EXTENDS VfsDir, VfsCoreProofs, SequenceTheorems

-----------------------------------------------------------------------------
(* Sequences. *)

LEMMA PrefixByIndex ==
    ASSUME NEW S, NEW s \in Seq(S), NEW t \in Seq(S)
    PROVE  IsPrefix(s, t) <=> /\ Len(s) <= Len(t)
                              /\ \A k \in 1 .. Len(s) : s[k] = t[k]
<1>1. CASE Len(s) <= Len(t)
  <2>1. /\ SubSeq(s, 1, Len(s)) \in Seq(S) /\ Len(SubSeq(s, 1, Len(s))) = Len(s)
        /\ \A k \in 1 .. Len(s) : SubSeq(s, 1, Len(s))[k] = s[k]
    OBVIOUS
  <2>2. /\ SubSeq(t, 1, Len(s)) \in Seq(S) /\ Len(SubSeq(t, 1, Len(s))) = Len(s)
        /\ \A k \in 1 .. Len(s) : SubSeq(t, 1, Len(s))[k] = t[k]
    BY <1>1
  <2>3. ASSUME \A k \in 1 .. Len(s) : s[k] = t[k]
        PROVE  SubSeq(s, 1, Len(s)) = SubSeq(t, 1, Len(s))
    BY <2>1, <2>2, <2>3, SeqEqual
  <2>. QED
    BY <1>1, <2>1, <2>2, <2>3 DEF IsPrefix
<1>2. CASE ~(Len(s) <= Len(t))
  BY <1>2 DEF IsPrefix
<1>. QED
  BY <1>1, <1>2

LEMMA SubSeqByIndex ==
    ASSUME NEW S, NEW s \in Seq(S), NEW t \in Seq(S),
           NEW n \in 1 .. Len(s), n <= Len(t)
    PROVE  SubSeq(s, 1, n) = SubSeq(t, 1, n) <=> \A k \in 1 .. n : s[k] = t[k]
<1>1. /\ SubSeq(s, 1, n) \in Seq(S) /\ Len(SubSeq(s, 1, n)) = n
      /\ \A k \in 1 .. n : SubSeq(s, 1, n)[k] = s[k]
  OBVIOUS
<1>2. /\ SubSeq(t, 1, n) \in Seq(S) /\ Len(SubSeq(t, 1, n)) = n
      /\ \A k \in 1 .. n : SubSeq(t, 1, n)[k] = t[k]
  OBVIOUS
<1>3. ASSUME \A k \in 1 .. n : s[k] = t[k]
      PROVE  SubSeq(s, 1, n) = SubSeq(t, 1, n)
  BY <1>1, <1>2, <1>3, SeqEqual
<1>. QED
  BY <1>1, <1>2, <1>3

-----------------------------------------------------------------------------
(* The listing against the tree. *)

(* What IsChild tests of a record, index by index. *)
LEMMA ChildByIndex ==
    ASSUME NEW z \in Archive, NEW key \in Key, NEW i \in DOMAIN z.cdir
    PROVE  /\ z.cdir[i] \in Entry /\ z.cdir[i].name \in Key
           /\ IsChild(z, i, key) <=>
                /\ Len(z.cdir[i].name) > Len(key)
                /\ ~vfs_hidden(z.cdir[i].name)
                /\ \A k \in 1 .. Len(key) : key[k] = z.cdir[i].name[k]
                /\ SegLen[z.cdir[i].name[Len(key) + 1]] < NameMax
           /\ IsChild(z, i, key) => ChildName(z, i, key) \in Name
<1>1. z.cdir[i] \in Entry
  BY ElementOfSeq DEF Archive
<1>2. z.cdir[i].name \in Key
  BY <1>1 DEF Entry
<1>3. IsPrefix(key, z.cdir[i].name) <=>
        /\ Len(key) <= Len(z.cdir[i].name)
        /\ \A k \in 1 .. Len(key) : key[k] = z.cdir[i].name[k]
  BY <1>2, PrefixByIndex DEF Key
<1>4. Len(z.cdir[i].name) \in Nat /\ Len(key) \in Nat
  BY <1>2 DEF Key
<1>5. IsChild(z, i, key) => ChildName(z, i, key) \in Name
  BY <1>2, <1>4, ElementOfSeq DEF IsChild, ChildName, Key
<1>. QED
  BY <1>1, <1>2, <1>3, <1>4, <1>5 DEF IsChild

(* A name that is hidden below `key` is hidden for its first segment. *)
LEMMA HiddenByFirst ==
    ASSUME NEW key \in Key, NEW name \in Key, Len(name) > Len(key),
           \A k \in 1 .. Len(key) : key[k] = name[k]
    PROVE  vfs_hidden(Append(key, name[Len(key) + 1])) <=> vfs_hidden(name)
<1>1. Len(key) \in Nat /\ Len(name) \in Nat /\ name # << >>
  BY DEF Key
<1>2. name[Len(key) + 1] \in Name
  BY <1>1, ElementOfSeq DEF Key
<1>3. Append(key, name[Len(key) + 1])[1] = name[1] /\ Append(key, name[Len(key) + 1]) # << >>
  BY <1>1, <1>2, AppendProperties DEF Key
<1>. QED
  BY <1>1, <1>3 DEF vfs_hidden

(* The names listed from the records are the names that exist in the tree:  *)
(* the loop of readdir and the lookups of stat have the same idea of what   *)
(* lies under a directory.                                                  *)
LEMMA ChildrenAreTheListed ==
    ASSUME NEW z \in Archive, NEW key \in Key
    PROVE  Children(z, key) =
            {ChildName(z, i, key) : i \in {j \in DOMAIN z.cdir : IsChild(z, j, key)}}
<1>. DEFINE Listed == {ChildName(z, i, key) : i \in {j \in DOMAIN z.cdir : IsChild(z, j, key)}}
<1>0. Len(key) \in Nat
  BY DEF Key
<1>1. ASSUME NEW i \in DOMAIN z.cdir, IsChild(z, i, key)
      PROVE  ChildName(z, i, key) \in Children(z, key)
  <2>. DEFINE name == z.cdir[i].name
  <2>. DEFINE n == ChildName(z, i, key)
  <2>. DEFINE sub == Append(key, n)
  <2>1. /\ name \in Key /\ Len(name) \in Nat /\ Len(name) > Len(key) /\ n \in Name
        /\ n = name[Len(key) + 1] /\ SegLen[n] < NameMax /\ ~vfs_hidden(name)
        /\ \A k \in 1 .. Len(key) : key[k] = name[k]
    BY <1>1, ChildByIndex DEF ChildName, Key
  <2>2. ~vfs_hidden(sub)
    BY <2>1, HiddenByFirst
  <2>3. /\ sub \in Key /\ Len(sub) = Len(key) + 1 /\ sub # << >>
        /\ \A k \in 1 .. Len(sub) : sub[k] = name[k]
    BY <1>0, <2>1, AppendProperties DEF Key
  <2>4. Exists(z, sub)
    <3>1. IsPrefix(sub, name)
      <4>. HIDE DEF sub, name
      <4>1. sub \in Seq(Name) /\ name \in Seq(Name) /\ Len(sub) <= Len(name)
        BY <1>0, <2>1, <2>3 DEF Key
      <4>. QED
        BY <2>3, <4>1, PrefixByIndex
    <3>2. CASE Len(name) = Len(key) + 1
      <4>1. sub = name
        BY <1>0, <2>1, <2>3, <3>2, SeqEqual DEF Key
      <4>2. z.cdir[i].dir => Under(z, i, sub)
        BY <3>1 DEF Under
      <4>3. z.cdir[i].dir \in BOOLEAN
        BY ChildByIndex DEF Entry
      <4>. QED
        BY <4>1, <4>2, <4>3 DEF Exists, HasFile, HasDir, is_implicit_dir
    <3>3. CASE Len(name) # Len(key) + 1
      BY <1>0, <2>1, <2>3, <3>1, <3>3 DEF Exists, HasDir, is_implicit_dir, Under
    <3>. QED
      BY <3>2, <3>3
  <2>. QED
    BY <2>1, <2>2, <2>4 DEF Children
<1>2. ASSUME NEW n \in Children(z, key)
      PROVE  n \in Listed
  <2>. DEFINE sub == Append(key, n)
  <2>1. n \in Name /\ Exists(z, sub) /\ ~vfs_hidden(sub) /\ SegLen[n] < NameMax
    BY <1>2 DEF Children
  <2>2. /\ sub \in Key /\ Len(sub) = Len(key) + 1 /\ sub # << >>
        /\ sub[Len(key) + 1] = n
        /\ \A k \in 1 .. Len(key) : sub[k] = key[k]
    BY <1>0, <2>1, AppendProperties DEF Key
  <2>3. PICK i \in DOMAIN z.cdir : IsPrefix(sub, z.cdir[i].name)
    <3>1. CASE HasFile(z, sub)
      <4>1. PICK i \in DOMAIN z.cdir : z.cdir[i].name = sub
        BY <3>1 DEF HasFile
      <4>2. IsPrefix(sub, sub)
        <5>. HIDE DEF sub
        <5>1. sub \in Seq(Name) /\ Len(sub) <= Len(sub)
          BY <2>2 DEF Key
        <5>. QED
          BY <5>1, PrefixByIndex
      <4>. QED
        BY <4>1, <4>2
    <3>2. CASE HasDir(z, sub)
      BY <2>2, <3>2 DEF HasDir, is_implicit_dir, Under
    <3>. QED
      BY <2>1, <3>1, <3>2 DEF Exists
  <2>. DEFINE name == z.cdir[i].name
  <2>4. name \in Key /\ Len(name) \in Nat
    BY ChildByIndex DEF Key
  <2>5. Len(sub) <= Len(name) /\ \A k \in 1 .. Len(sub) : sub[k] = name[k]
    <3>. HIDE DEF sub, name
    <3>1. sub \in Seq(Name) /\ name \in Seq(Name) /\ IsPrefix(sub, name)
      BY <2>2, <2>3, <2>4 DEF Key, name
    <3>. QED
      BY <3>1, PrefixByIndex
  <2>6. /\ Len(name) > Len(key) /\ name[Len(key) + 1] = n
        /\ \A k \in 1 .. Len(key) : key[k] = name[k]
    BY <1>0, <2>2, <2>4, <2>5
  <2>7. ~vfs_hidden(name)
    BY <2>1, <2>4, <2>6, HiddenByFirst
  <2>8. IsChild(z, i, key) /\ ChildName(z, i, key) = n
    BY <2>1, <2>6, <2>7, ChildByIndex DEF ChildName
  <2>. QED
    BY <2>8
<1>. QED
  BY <1>1, <1>2

-----------------------------------------------------------------------------
(* One call of readdir keeps ReadInv. *)

LEMMA FreeReads == zip \in Archive => ReadInv(zip, Free) /\ Free \in DirState
  BY DEF ReadInv, Passed, Free, DirState, Key, NoName

LEMMA OpenedReads ==
    ASSUME NEW key \in Key, NEW kind \in {"real", "virtual"}
    PROVE  ReadInv(zip, Opened(kind, key)) /\ Opened(kind, key) \in DirState
<1>1. /\ Opened(kind, key).prefix = key /\ Opened(kind, key).cursor = 1
      /\ Opened(kind, key).last_emitted = NoName /\ Opened(kind, key).seen = << >>
      /\ Opened(kind, key).ended = FALSE
  BY DEF Opened, Free
<1>2. Opened(kind, key) \in DirState
  <2>1. Free \in DirState
    BY DEF Free, DirState, Key
  <2>. QED
    BY <2>1 DEF Opened, DirState
<1>3. Passed(zip, Opened(kind, key)) = {}
  BY <1>1 DEF Passed
<1>. QED
  <2>. HIDE DEF Opened
  <2>1. DOMAIN Opened(kind, key).seen = {}
    BY <1>1
  <2>. QED
    BY <1>1, <1>2, <1>3, <2>1 DEF ReadInv

(* The record where the loop stops is the first since the cursor that is a  *)
(* child other than the slot's: with it the listing holds the children of   *)
(* all records passed, and where the records of a directory are together it *)
(* is a new one.                                                            *)
LEMMA EmittingReads ==
    ASSUME zip \in Archive,
           NEW d \in DirState, d.cursor \in 1 .. Len(zip.cdir) + 1, ReadInv(zip, d),
           NEW i \in d.cursor .. Len(zip.cdir), Emits(d, i),
           \A j \in d.cursor .. i - 1 : ~Emits(d, j)
    PROVE  ReadInv(zip, Emitting(d, i)) /\ Emitting(d, i) \in DirState
<1>. DEFINE e == Emitting(d, i)
<1>. DEFINE P == d.prefix
<1>. DEFINE n == ChildName(zip, i, P)
<1>. DEFINE Names(S) == {ChildName(zip, j, P) : j \in S}
<1>1. /\ P \in Key /\ d.cursor \in Nat /\ d.seen \in Seq(Dirent)
      /\ zip.cdir \in Seq(Entry) /\ DOMAIN zip.cdir = 1 .. Len(zip.cdir) /\ i \in DOMAIN zip.cdir
      /\ Len(zip.cdir) \in Nat
  BY DEF DirState, Archive
<1>2. IsChild(zip, i, P) /\ n # d.last_emitted /\ n \in Name
  BY <1>1, ChildByIndex DEF Emits
<1>3. n # NoName
  BY <1>2, PathAssumption DEF NoName
<1>4. DirentOf(d, i) \in Dirent /\ DirentOf(d, i).name = n
  BY <1>2 DEF DirentOf, Dirent
<1>5. /\ e.kind = d.kind /\ e.prefix = P /\ e.cursor = i + 1 /\ e.last_emitted = n
      /\ e.seen = Append(d.seen, DirentOf(d, i)) /\ e.ended = d.ended
      /\ e \in DirState
  <2>1. Append(d.seen, DirentOf(d, i)) \in Seq(Dirent) /\ i + 1 \in Nat
    BY <1>1, <1>4, AppendProperties
  <2>2. e = [d EXCEPT !.cursor = i + 1, !.last_emitted = n, !.seen = Append(d.seen, DirentOf(d, i))]
    BY DEF Emitting
  <2>. HIDE DEF e, n
  <2>3. e \in DirState
    BY <1>2, <2>1, <2>2 DEF DirState
  <2>. QED
    BY <1>2, <2>2, <2>3 DEF DirState
<1>6. /\ Len(e.seen) = Len(d.seen) + 1
      /\ DOMAIN e.seen = 1 .. Len(d.seen) + 1 /\ DOMAIN d.seen = 1 .. Len(d.seen)
      /\ e.seen[Len(d.seen) + 1].name = n
      /\ \A k \in 1 .. Len(d.seen) : e.seen[k] = d.seen[k]
      /\ Len(d.seen) \in Nat
  BY <1>1, <1>4, <1>5, AppendProperties
<1>7. Passed(zip, d) = {j \in 1 .. d.cursor - 1 : IsChild(zip, j, P)}
      /\ Passed(zip, e) = {j \in 1 .. i : IsChild(zip, j, P)}
  BY <1>1, <1>5 DEF Passed
<1>8. /\ {d.seen[k].name : k \in DOMAIN d.seen} = Names(Passed(zip, d))
      /\ d.last_emitted = NoName => Passed(zip, d) = {}
      /\ d.last_emitted # NoName => \E m \in Passed(zip, d) : \A j \in Passed(zip, d) :
            j >= m => ChildName(zip, j, P) = d.last_emitted
      /\ Clustered(zip) => \A k, l \in DOMAIN d.seen : d.seen[k].name = d.seen[l].name => k = l
  BY DEF ReadInv
(* The children between the cursor and i are the one in the slot. *)
<1>9. ASSUME NEW j \in Passed(zip, e), j # i, j \notin Passed(zip, d)
      PROVE  ChildName(zip, j, P) = d.last_emitted /\ d.last_emitted # NoName
  <2>1. j \in d.cursor .. i - 1 /\ IsChild(zip, j, P) /\ j \in DOMAIN zip.cdir
    BY <1>1, <1>7, <1>9
  <2>2. ChildName(zip, j, P) = d.last_emitted
    BY <2>1 DEF Emits
  <2>3. ChildName(zip, j, P) \in Name
    BY <1>1, <2>1, ChildByIndex
  <2>. QED
    BY <2>2, <2>3, PathAssumption DEF NoName
<1>10. Names(Passed(zip, e)) = Names(Passed(zip, d)) \cup {n}
  <2>1. i \in Passed(zip, e) /\ Passed(zip, d) \subseteq Passed(zip, e)
    BY <1>1, <1>2, <1>7
  <2>2. ASSUME NEW j \in Passed(zip, e)
        PROVE  ChildName(zip, j, P) \in Names(Passed(zip, d)) \cup {n}
    <3>1. CASE j = i \/ j \in Passed(zip, d)
      BY <3>1
    <3>2. CASE j # i /\ j \notin Passed(zip, d)
      <4>1. ChildName(zip, j, P) = d.last_emitted /\ d.last_emitted # NoName
        BY <1>9, <3>2
      <4>2. PICK m \in Passed(zip, d) : \A l \in Passed(zip, d) :
                l >= m => ChildName(zip, l, P) = d.last_emitted
        BY <1>8, <4>1
      <4>3. ChildName(zip, m, P) = d.last_emitted
        BY <1>1, <1>7, <4>2
      <4>. QED
        BY <4>1, <4>3
    <3>. QED
      BY <3>1, <3>2
  <2>. QED
    BY <2>1, <2>2
<1>11. {e.seen[k].name : k \in DOMAIN e.seen} = {d.seen[k].name : k \in DOMAIN d.seen} \cup {n}
  <2>. HIDE DEF e, n
  <2>1. ASSUME NEW k \in DOMAIN e.seen
        PROVE  e.seen[k].name \in {d.seen[l].name : l \in DOMAIN d.seen} \cup {n}
    <3>1. CASE k = Len(d.seen) + 1
      BY <1>6, <3>1
    <3>2. CASE k \in 1 .. Len(d.seen)
      BY <1>6, <3>2
    <3>. QED
      BY <1>6, <2>1, <3>1, <3>2
  <2>2. ASSUME NEW l \in DOMAIN d.seen
        PROVE  d.seen[l].name \in {e.seen[k].name : k \in DOMAIN e.seen}
    <3>1. l \in DOMAIN e.seen /\ e.seen[l].name = d.seen[l].name
      BY <1>6, <2>2
    <3>. QED
      BY <3>1
  <2>3. n \in {e.seen[k].name : k \in DOMAIN e.seen}
    <3>1. Len(d.seen) + 1 \in DOMAIN e.seen
      BY <1>6
    <3>. QED
      BY <1>6, <3>1
  <2>. QED
    BY <2>1, <2>2, <2>3
<1>12. \E m \in Passed(zip, e) : \A j \in Passed(zip, e) : j >= m => ChildName(zip, j, P) = e.last_emitted
  BY <1>1, <1>2, <1>5, <1>7
<1>13. Clustered(zip) =>
        \A k, l \in DOMAIN e.seen : e.seen[k].name = e.seen[l].name => k = l
  <2>1. ASSUME Clustered(zip), n \in {d.seen[k].name : k \in DOMAIN d.seen}
        PROVE  FALSE
    <3>1. PICK k \in Passed(zip, d) : ChildName(zip, k, P) = n
      BY <1>8, <2>1
    <3>2. PICK m \in Passed(zip, d) : \A j \in Passed(zip, d) :
                j >= m => ChildName(zip, j, P) = d.last_emitted
      BY <1>8, <3>1
    <3>3. k < m /\ m < i /\ {k, m} \subseteq DOMAIN zip.cdir
          /\ IsChild(zip, k, P) /\ IsChild(zip, m, P)
      BY <1>1, <1>2, <1>7, <3>1, <3>2
    <3>4. ChildName(zip, m, P) # n
      BY <1>1, <1>2, <1>7, <3>2, <3>3
    <3>. DEFINE a == zip.cdir[k].name
    <3>. DEFINE b == zip.cdir[m].name
    <3>. DEFINE c == zip.cdir[i].name
    <3>5. /\ a \in Key /\ Len(a) > Len(P) /\ \A x \in 1 .. Len(P) : P[x] = a[x]
          /\ b \in Key /\ Len(b) > Len(P) /\ \A x \in 1 .. Len(P) : P[x] = b[x]
          /\ c \in Key /\ Len(c) > Len(P) /\ \A x \in 1 .. Len(P) : P[x] = c[x]
      BY <1>1, <1>2, <3>3, ChildByIndex
    <3>6. /\ a[Len(P) + 1] = n /\ c[Len(P) + 1] = n /\ b[Len(P) + 1] # n
          /\ Len(P) \in Nat /\ Len(a) \in Nat /\ Len(b) \in Nat /\ Len(c) \in Nat
      <4>1. a[Len(P) + 1] = n /\ c[Len(P) + 1] = n /\ b[Len(P) + 1] # n
        BY <3>1, <3>4 DEF ChildName
      <4>2. \A key \in Key : Len(key) \in Nat
        BY DEF Key
      <4>. QED
        BY <1>1, <3>5, <4>1, <4>2
    <3>7. SubSeq(a, 1, Len(P) + 1) = SubSeq(c, 1, Len(P) + 1)
      <4>. HIDE DEF a, b, c, P, n
      <4>1. a \in Seq(Name) /\ c \in Seq(Name) /\ Len(P) + 1 \in 1 .. Len(a) /\ Len(P) + 1 <= Len(c)
        BY <3>5, <3>6 DEF Key
      <4>2. ASSUME NEW x \in 1 .. Len(P) + 1
            PROVE  a[x] = c[x]
        <5>1. x \in 1 .. Len(P) \/ x = Len(P) + 1
          BY <3>6
        <5>. QED
          BY <3>5, <3>6, <5>1
      <4>. QED
        BY <4>1, <4>2, SubSeqByIndex
    <3>8. Len(b) >= Len(P) + 1 /\ SubSeq(b, 1, Len(P) + 1) = SubSeq(a, 1, Len(P) + 1)
      <4>1. Len(P) + 1 \in 1 .. Len(a) /\ Len(c) >= Len(P) + 1
        <5>. HIDE DEF a, b, c, P, n
        <5>. QED
          BY <3>5, <3>6
      <4>. QED
        BY <1>1, <2>1, <3>3, <3>7, <4>1 DEF Clustered
    <3>9. b[Len(P) + 1] = a[Len(P) + 1]
      <4>. HIDE DEF a, b, c, P, n
      <4>1. a \in Seq(Name) /\ b \in Seq(Name) /\ Len(P) + 1 \in 1 .. Len(b) /\ Len(P) + 1 <= Len(a)
        BY <3>5, <3>6, <3>8 DEF Key
      <4>2. \A x \in 1 .. Len(P) + 1 : b[x] = a[x]
        BY <3>8, <4>1, SubSeqByIndex
      <4>. QED
        BY <3>6, <4>2
    <3>. QED
      BY <3>6, <3>9
  <2>2. ASSUME Clustered(zip), NEW k \in DOMAIN e.seen, NEW l \in DOMAIN e.seen,
               e.seen[k].name = e.seen[l].name
        PROVE  k = l
    <3>. HIDE DEF e, n
    <3>1. ASSUME NEW x \in 1 .. Len(d.seen)  PROVE e.seen[x].name # n
      BY <1>6, <2>1, <2>2
    <3>2. CASE k \in 1 .. Len(d.seen) /\ l \in 1 .. Len(d.seen)
      BY <1>6, <1>8, <2>2, <3>2
    <3>3. /\ k \in 1 .. Len(d.seen) \/ k = Len(d.seen) + 1
          /\ l \in 1 .. Len(d.seen) \/ l = Len(d.seen) + 1
      BY <1>6, <2>2
    <3>4. CASE k = Len(d.seen) + 1
      BY <1>6, <2>2, <3>1, <3>3, <3>4
    <3>5. CASE l = Len(d.seen) + 1
      BY <1>6, <2>2, <3>1, <3>3, <3>5
    <3>. QED
      BY <3>2, <3>3, <3>4, <3>5
  <2>. QED
    BY <2>2
<1>14. ReadInv(zip, e)
  <2>1. {e.seen[k].name : k \in DOMAIN e.seen} = {ChildName(zip, j, e.prefix) : j \in Passed(zip, e)}
    <3>1. {e.seen[k].name : k \in DOMAIN e.seen} = Names(Passed(zip, e))
      <4>. HIDE DEF Names, e
      <4>. QED
        BY <1>8, <1>10, <1>11
    <3>. QED
      BY <1>5, <3>1
  <2>2. e.last_emitted # NoName /\ \E m \in Passed(zip, e) : \A j \in Passed(zip, e) :
            j >= m => ChildName(zip, j, e.prefix) = e.last_emitted
    BY <1>3, <1>5, <1>12
  <2>3. ~e.ended
    BY <1>1, <1>5 DEF ReadInv
  <2>. HIDE DEF e
  <2>. QED
    BY <1>13, <2>1, <2>2, <2>3 DEF ReadInv
<1>. QED
  BY <1>5, <1>14

(* When the loop runs out of records, those it skipped since the last entry *)
(* have no child but the one in the slot, which is listed already.          *)
LEMMA EndingReads ==
    ASSUME zip \in Archive,
           NEW d \in DirState, d.cursor \in 1 .. Len(zip.cdir) + 1, ReadInv(zip, d),
           \A i \in d.cursor .. Len(zip.cdir) : ~Emits(d, i)
    PROVE  /\ ReadInv(zip, [d EXCEPT !.cursor = Len(zip.cdir) + 1, !.ended = TRUE])
           /\ [d EXCEPT !.cursor = Len(zip.cdir) + 1, !.ended = TRUE] \in DirState
<1>. DEFINE e == [d EXCEPT !.cursor = Len(zip.cdir) + 1, !.ended = TRUE]
<1>. DEFINE P == d.prefix
<1>1. /\ P \in Key /\ DOMAIN zip.cdir = 1 .. Len(zip.cdir) /\ Len(zip.cdir) \in Nat
      /\ d.cursor \in Nat
  BY DEF DirState, Archive
<1>2. /\ e.prefix = P /\ e.cursor = Len(zip.cdir) + 1 /\ e.last_emitted = d.last_emitted
      /\ e.seen = d.seen
  BY DEF DirState
<1>. HIDE DEF e
<1>3. Passed(zip, d) = {j \in 1 .. d.cursor - 1 : IsChild(zip, j, P)}
      /\ Passed(zip, e) = {j \in 1 .. Len(zip.cdir) : IsChild(zip, j, P)}
  BY <1>1, <1>2 DEF Passed
<1>4. ASSUME NEW j \in Passed(zip, e), j \notin Passed(zip, d)
      PROVE  ChildName(zip, j, P) = d.last_emitted /\ d.last_emitted # NoName
  <2>1. j \in d.cursor .. Len(zip.cdir) /\ IsChild(zip, j, P) /\ j \in DOMAIN zip.cdir
    BY <1>1, <1>3, <1>4
  <2>2. ChildName(zip, j, P) = d.last_emitted
    BY <2>1 DEF Emits
  <2>3. ChildName(zip, j, P) \in Name
    BY <1>1, <2>1, ChildByIndex
  <2>. QED
    BY <2>2, <2>3, PathAssumption DEF NoName
<1>5. Passed(zip, d) \subseteq Passed(zip, e)
  BY <1>1, <1>3
<1>6. ASSUME d.last_emitted = NoName PROVE ReadInv(zip, e)
  <2>1. Passed(zip, d) = {} /\ Passed(zip, e) = {}
    BY <1>4, <1>6 DEF ReadInv
  <2>2. {e.seen[k].name : k \in DOMAIN e.seen} = {ChildName(zip, j, e.prefix) : j \in Passed(zip, e)}
    <3>1. {d.seen[k].name : k \in DOMAIN d.seen} = {ChildName(zip, j, P) : j \in Passed(zip, d)}
      BY DEF ReadInv
    <3>. QED
      BY <1>2, <2>1, <3>1
  <2>3. Clustered(zip) =>
            \A k, l \in DOMAIN e.seen : e.seen[k].name = e.seen[l].name => k = l
    BY <1>2 DEF ReadInv
  <2>. QED
    BY <1>2, <1>6, <2>1, <2>2, <2>3 DEF ReadInv
<1>7. ASSUME d.last_emitted # NoName PROVE ReadInv(zip, e)
  <2>1. PICK m \in Passed(zip, d) : \A j \in Passed(zip, d) :
            j >= m => ChildName(zip, j, P) = d.last_emitted
    BY <1>7 DEF ReadInv
  <2>2. ChildName(zip, m, P) = d.last_emitted
    BY <1>1, <1>3, <2>1
  <2>3. \A j \in Passed(zip, e) : j >= m => ChildName(zip, j, P) = d.last_emitted
    BY <1>4, <2>1
  <2>4. {ChildName(zip, j, P) : j \in Passed(zip, e)} = {ChildName(zip, j, P) : j \in Passed(zip, d)}
    BY <1>4, <1>5, <2>2
  <2>5. {e.seen[k].name : k \in DOMAIN e.seen} = {ChildName(zip, j, e.prefix) : j \in Passed(zip, e)}
    <3>1. {d.seen[k].name : k \in DOMAIN d.seen} = {ChildName(zip, j, P) : j \in Passed(zip, d)}
      BY DEF ReadInv
    <3>. QED
      BY <1>2, <2>4, <3>1
  <2>6. Clustered(zip) =>
            \A k, l \in DOMAIN e.seen : e.seen[k].name = e.seen[l].name => k = l
    BY <1>2 DEF ReadInv
  <2>7. m \in Passed(zip, e) /\ \A j \in Passed(zip, e) :
            j >= m => ChildName(zip, j, e.prefix) = e.last_emitted
    BY <1>2, <1>5, <2>1, <2>3
  <2>8. e.last_emitted # NoName
    BY <1>2, <1>7
  <2>. QED
    BY <1>2, <2>5, <2>6, <2>7, <2>8 DEF ReadInv
<1>8. e \in DirState
  <2>1. Len(zip.cdir) + 1 \in Nat
    BY <1>1
  <2>. QED
    BY <2>1 DEF DirState, e
<1>. QED
  BY <1>6, <1>7, <1>8 DEF e

-----------------------------------------------------------------------------
(* The invariant and the theorems. *)

Inv == TypeOK /\ ReadersInv

(* A step that replaces at most the state of one handle, by one that reads  *)
(* right, and leaves the archive alone.                                     *)
LEMMA OneHandle ==
    ASSUME Inv, zip' = zip, NEW h \in Handle, NEW d \in DirState,
           d.cursor \in 1 .. Len(zip.cdir) + 1, ReadInv(zip, d), Yields(h, d)
    PROVE  /\ dirs' \in [Handle -> DirState]
           /\ \A g \in Handle : dirs'[g].cursor \in 1 .. Len(zip'.cdir) + 1
           /\ ReadersInv'
<1>1. dirs' \in [Handle -> DirState] /\ \A g \in Handle : dirs'[g] = IF g = h THEN d ELSE dirs[g]
  BY DEF Inv, TypeOK, Yields
<1>2. ASSUME NEW g \in Handle
      PROVE  dirs'[g].cursor \in 1 .. Len(zip'.cdir) + 1 /\ ReadInv(zip, dirs[g])' 
  <2>1. CASE g = h
    <3>1. dirs'[g] = d
      BY <1>1, <2>1
    <3>. QED
      BY <3>1
  <2>2. CASE g # h
    <3>1. dirs'[g] = dirs[g]
      BY <1>1, <2>2
    <3>. QED
      BY <3>1 DEF Inv, TypeOK, ReadersInv
  <2>. QED
    BY <2>1, <2>2
<1>. QED
  BY <1>1, <1>2 DEF ReadersInv

LEMMA SameDirs ==
    ASSUME Inv, UNCHANGED <<zip, dirs>>
    PROVE  /\ dirs' \in [Handle -> DirState]
           /\ \A g \in Handle : dirs'[g].cursor \in 1 .. Len(zip'.cdir) + 1
           /\ ReadersInv'
  BY DEF Inv, TypeOK, ReadersInv

LEMMA InitInv == Init => Inv
<1>. SUFFICES ASSUME Init PROVE Inv
  OBVIOUS
<1>1. CoreTypeOK /\ zip \in Archive /\ Len(zip.cdir) \in Nat
  BY CoreInitTyped, ArchiveTyped DEF Init
<1>2. Free \in DirState /\ ReadInv(zip, Free) /\ Free.cursor = 1
  BY <1>1, FreeReads DEF Free
<1>3. dirs \in [Handle -> DirState] /\ \A h \in Handle : dirs[h] = Free
  BY <1>2 DEF Init
<1>. QED
  BY <1>1, <1>2, <1>3 DEF Init, Inv, TypeOK, ReadersInv

LEMMA StepInv == Inv /\ [Next]_vars => Inv'
<1>. SUFFICES ASSUME Inv, [Next]_vars PROVE Inv'
  OBVIOUS
<1>. USE DEF Inv
<1>0. /\ CoreTypeOK /\ zip \in Archive /\ Len(zip.cdir) \in Nat
      /\ dirs \in [Handle -> DirState]
      /\ \A h \in Handle : dirs[h] \in DirState /\ ReadInv(zip, dirs[h])
                          /\ dirs[h].cursor \in 1 .. Len(zip.cdir) + 1
  BY ArchiveTyped DEF TypeOK, ReadersInv
<1>1. ASSUME NEW h \in Handle, NEW p \in Paths, OPENDIR_FN(h, p)
      PROVE  Inv'
  <2>1. zip' = zip /\ off_env' = off_env /\ g_disabled' \in {0, 1}
    BY <1>0, <1>1, OffTyped DEF OPENDIR_FN
  <2>2. CASE Routed(p)
    <3>. DEFINE key == KeyOf(p)
    <3>1. key \in Key
      BY DirAssumption
    <3>2. OpendirVirtual(h, key)
      BY <1>1, <2>2 DEF OPENDIR_FN
    <3>3. CoreTypeOK'
      BY <1>0, <2>1, <3>2, ReaderTyped DEF OpendirVirtual, CoreTypeOK
    <3>4. dret' \in {"EIO", "ENOENT", "dir", "ENOMEM"}
      BY <3>2 DEF OpendirVirtual
    <3>5. CASE UNCHANGED dirs
      BY <2>1, <3>3, <3>4, <3>5, SameDirs DEF TypeOK
    <3>6. CASE Yields(h, Opened("virtual", key))
      <4>1. /\ Opened("virtual", key) \in DirState /\ ReadInv(zip, Opened("virtual", key))
            /\ Opened("virtual", key).cursor = 1
        BY <3>1, OpenedReads DEF Opened, Free
      <4>. HIDE DEF key
      <4>2. Opened("virtual", key).cursor \in 1 .. Len(zip.cdir) + 1
        BY <1>0, <4>1
      <4>. QED
        BY <2>1, <3>3, <3>4, <3>6, <4>1, <4>2, OneHandle DEF TypeOK
    <3>. QED
      BY <3>2, <3>5, <3>6 DEF OpendirVirtual
  <2>3. CASE ~Routed(p)
    <3>1. UNCHANGED <<reader, fds>> /\ dret' = "host"
          /\ (Yields(h, Opened("real", << >>)) \/ UNCHANGED dirs)
      BY <1>1, <2>3 DEF OPENDIR_FN
    <3>2. CoreTypeOK'
      BY <1>0, <2>1, <3>1 DEF CoreTypeOK, reader
    <3>3. CASE UNCHANGED dirs
      BY <2>1, <3>1, <3>2, <3>3, SameDirs DEF TypeOK
    <3>4. CASE Yields(h, Opened("real", << >>))
      <4>1. << >> \in Key
        BY DEF Key
      <4>2. /\ Opened("real", << >>) \in DirState /\ ReadInv(zip, Opened("real", << >>))
            /\ Opened("real", << >>).cursor = 1
        BY <4>1, OpenedReads DEF Opened, Free
      <4>3. Opened("real", << >>).cursor \in 1 .. Len(zip.cdir) + 1
        BY <1>0, <4>2
      <4>. QED
        BY <2>1, <3>1, <3>2, <3>4, <4>2, <4>3, OneHandle DEF TypeOK
    <3>. QED
      BY <3>1, <3>3, <3>4
  <2>. QED
    BY <2>2, <2>3
<1>2. ASSUME NEW h \in Handle, ReaddirEntry(h)
      PROVE  Inv'
  <2>. DEFINE d == dirs[h]
  <2>1. PICK i \in d.cursor .. Len(zip.cdir) :
            Emits(d, i) /\ (\A j \in d.cursor .. i - 1 : ~Emits(d, j)) /\ Yields(h, Emitting(d, i))
    BY <1>2 DEF ReaddirEntry
  <2>2. CoreTypeOK' /\ zip' = zip /\ dret' = "entry"
    BY <1>0, <1>2, CoreUnchanged DEF ReaddirEntry, core
  <2>3. ReadInv(zip, Emitting(d, i)) /\ Emitting(d, i) \in DirState
    BY <1>0, <2>1, EmittingReads
  <2>4. Emitting(d, i).cursor \in 1 .. Len(zip.cdir) + 1
    <3>1. i \in 1 .. Len(zip.cdir)
      BY <1>0, <2>1
    <3>2. Emitting(d, i).cursor = i + 1
      BY <1>0 DEF Emitting, DirState
    <3>. QED
      BY <1>0, <3>1, <3>2
  <2>. QED
    BY <2>1, <2>2, <2>3, <2>4, OneHandle DEF TypeOK
<1>3. ASSUME NEW h \in Handle, ReaddirEnd(h)
      PROVE  Inv'
  <2>. DEFINE d == dirs[h]
  <2>. DEFINE e == [d EXCEPT !.cursor = Len(zip.cdir) + 1, !.ended = TRUE]
  <2>1. (\A i \in d.cursor .. Len(zip.cdir) : ~Emits(d, i)) /\ Yields(h, e)
    BY <1>3 DEF ReaddirEnd
  <2>2. CoreTypeOK' /\ zip' = zip /\ dret' = "end"
    BY <1>0, <1>3, CoreUnchanged DEF ReaddirEnd, core
  <2>3. ReadInv(zip, e) /\ e \in DirState
    BY <1>0, <2>1, EndingReads
  <2>4. e.cursor \in 1 .. Len(zip.cdir) + 1
    BY <1>0 DEF DirState
  <2>. QED
    BY <2>1, <2>2, <2>3, <2>4, OneHandle DEF TypeOK
<1>4. ASSUME NEW h \in Handle, ReaddirReal(h)
      PROVE  Inv'
  BY <1>0, <1>4, CoreUnchanged, SameDirs DEF ReaddirReal, core, TypeOK
<1>5. ASSUME NEW h \in Handle, CLOSEDIR_FN(h)
      PROVE  Inv'
  <2>1. CoreTypeOK' /\ zip' = zip /\ dret' = "closed" /\ Yields(h, Free)
    BY <1>0, <1>5, CoreUnchanged DEF CLOSEDIR_FN, core
  <2>2. Free \in DirState /\ ReadInv(zip, Free) /\ Free.cursor \in 1 .. Len(zip.cdir) + 1
    BY <1>0, FreeReads DEF Free
  <2>. QED
    BY <2>1, <2>2, OneHandle DEF TypeOK
<1>6. CASE SetEnv
  <2>1. CoreTypeOK' /\ zip' = zip
    BY <1>0, <1>6 DEF SetEnv, CoreTypeOK, reader
  <2>. QED
    BY <1>6, <2>1, SameDirs DEF SetEnv, TypeOK
<1>7. CASE UNCHANGED vars
  BY <1>0, <1>7, CoreUnchanged, SameDirs DEF vars, core, TypeOK
<1>. QED
  BY <1>1, <1>2, <1>3, <1>4, <1>5, <1>6, <1>7 DEF Next

LEMMA AlwaysInv == Spec => []Inv
  BY InitInv, StepInv, PTL DEF Spec

(* In every reachable state each variable has its type; in particular no    *)
(* cursor leaves the central directory.                                     *)
THEOREM TypeCorrect == Spec => []TypeOK
<1>1. Inv => TypeOK
  BY DEF Inv
<1>. QED
  BY <1>1, AlwaysInv, PTL

(* The single slot of readdir suffices to list every child once, for any    *)
(* archive that keeps the records of a directory together and any number of *)
(* handles read in any order.                                               *)
THEOREM ListingHasNoDuplicates == Spec => []ListsOnce
<1>1. Inv => ListsOnce
  BY DEF Inv, ReadersInv, ReadInv, ListsOnce
<1>. QED
  BY <1>1, AlwaysInv, PTL

(* A listing read to its end is complete, and at no time shows a name that  *)
(* the lookups of stat would not find: for any archive, clustered or not.   *)
THEOREM ListingIsComplete == Spec => []ListsAll
<1>1. ASSUME Inv, NEW h \in Handle
      PROVE  /\ Listing(h) \subseteq Children(zip, dirs[h].prefix)
             /\ dirs[h].ended => Listing(h) = Children(zip, dirs[h].prefix)
  <2>. DEFINE d == dirs[h]
  <2>1. zip \in Archive /\ d \in DirState /\ d.prefix \in Key /\ d.cursor \in 1 .. Len(zip.cdir) + 1
        /\ DOMAIN zip.cdir = 1 .. Len(zip.cdir) /\ Len(zip.cdir) \in Nat /\ ReadInv(zip, d)
    <3>1. d \in DirState /\ d.cursor \in 1 .. Len(zip.cdir) + 1 /\ ReadInv(zip, d)
      BY <1>1 DEF Inv, TypeOK, ReadersInv
    <3>2. zip \in Archive /\ Len(zip.cdir) \in Nat
      BY <1>1, ArchiveTyped DEF Inv, TypeOK
    <3>. QED
      BY <3>1, <3>2 DEF DirState, Archive
  <2>2. Listing(h) = {ChildName(zip, i, d.prefix) : i \in Passed(zip, d)}
    BY <2>1 DEF Listing, ReadInv
  <2>3. Children(zip, d.prefix) =
            {ChildName(zip, i, d.prefix) : i \in {j \in DOMAIN zip.cdir : IsChild(zip, j, d.prefix)}}
    BY <2>1, ChildrenAreTheListed
  <2>4. Passed(zip, d) \subseteq {j \in DOMAIN zip.cdir : IsChild(zip, j, d.prefix)}
    BY <2>1 DEF Passed
  <2>5. d.ended => Passed(zip, d) = {j \in DOMAIN zip.cdir : IsChild(zip, j, d.prefix)}
    BY <2>1 DEF Passed, ReadInv
  <2>. QED
    BY <2>2, <2>3, <2>4, <2>5
<1>2. Inv => ListsAll
  BY <1>1 DEF ListsAll
<1>. QED
  BY <1>2, AlwaysInv, PTL
-----------------------------------------------------------------------------
(* What is listed against what stat and open find. *)

(* Two positions of equal domains are of sequences of one length. *)
LEMMA SameFold ==
    ASSUME NEW a \in Key, NEW b \in Key, FoldKey(a) = FoldKey(b)
    PROVE  Len(a) = Len(b)
<1>1. DOMAIN a = 1 .. Len(a) /\ DOMAIN b = 1 .. Len(b) /\ Len(a) \in Nat /\ Len(b) \in Nat
  BY DEF Key
<1>2. DOMAIN FoldKey(a) = DOMAIN a /\ DOMAIN FoldKey(b) = DOMAIN b
  BY DEF FoldKey
<1>3. DOMAIN a = DOMAIN b
  BY <1>2
<1>. HIDE DEF FoldKey
<1>4. \A x \in Nat : x \in 1 .. Len(a) <=> x \in 1 .. Len(b)
  BY <1>1, <1>3
<1>5. Len(a) <= Len(b)
  BY <1>1, <1>4
<1>6. Len(b) <= Len(a)
  BY <1>1, <1>4
<1>7. \A x, y \in Nat : x <= y /\ y <= x => x = y
  OBVIOUS
<1>. QED
  BY <1>1, <1>5, <1>6, <1>7

(* A name that begins a record's name is a spelling. *)
LEMMA SpellingOf ==
    ASSUME NEW z \in Archive, NEW i \in DOMAIN z.cdir, z.cdir[i].name # << >>
    PROVE  z.cdir[i].name \in Spellings(z)
<1>. DEFINE name == z.cdir[i].name
<1>1. name \in Seq(Name) /\ name # << >>
  <2>1. z.cdir[i] \in Entry
    BY ElementOfSeq DEF Archive
  <2>. QED
    BY <2>1 DEF Entry, Key
<1>. HIDE DEF name
<1>2. Len(name) \in 1 .. Len(name) /\ SubSeq(name, 1, Len(name)) = name
  BY <1>1
<1>. QED
  BY <1>2 DEF Spellings, name

(* The record a listed child was taken from settles what the look-ups find  *)
(* at the child's path, in an archive without two spellings of one name.    *)
LEMMA ChildIsFound ==
    ASSUME zip \in Archive, Unambiguous(zip),
           NEW key \in Key, NEW r \in DOMAIN zip.cdir, IsChild(zip, r, key),
           NEW sub, sub = Append(key, ChildName(zip, r, key))
    PROVE  /\ ~vfs_hidden(sub)
           /\ IsDirectory(sub) <=> ChildIsDir(zip, r, key)
           /\ ~ChildIsDir(zip, r, key) =>
                LET i == find_entry(zip, sub)
                IN  i # 0 /\ zip.cdir[i].name = sub /\ ~zip.cdir[i].dir
<1>. DEFINE name == zip.cdir[r].name
<1>0. Len(key) \in Nat
  BY DEF Key
<1>1. /\ name \in Key /\ Len(name) \in Nat /\ Len(name) > Len(key)
      /\ ChildName(zip, r, key) \in Name /\ ChildName(zip, r, key) = name[Len(key) + 1]
      /\ ~vfs_hidden(name)
      /\ \A k \in 1 .. Len(key) : key[k] = name[k]
  BY ChildByIndex DEF ChildName, Key
<1>2. ~vfs_hidden(sub)
  BY <1>1, HiddenByFirst
<1>3. /\ sub \in Key /\ Len(sub) = Len(key) + 1 /\ sub # << >>
      /\ \A k \in 1 .. Len(sub) : sub[k] = name[k]
  BY <1>0, <1>1, AppendProperties DEF Key
<1>4. IsPrefix(sub, name)
  <2>. HIDE DEF name
  <2>1. sub \in Seq(Name) /\ name \in Seq(Name) /\ Len(sub) <= Len(name)
    BY <1>0, <1>1, <1>3 DEF Key
  <2>. QED
    BY <1>3, <2>1, PrefixByIndex
<1>5. CASE ChildIsDir(zip, r, key)
  <2>1. Under(zip, r, sub)
    BY <1>0, <1>1, <1>3, <1>4, <1>5 DEF Under, ChildIsDir
  <2>. QED
    BY <1>2, <1>5, <2>1 DEF IsDirectory, is_implicit_dir
<1>6. CASE ~ChildIsDir(zip, r, key)
  <2>1. Len(name) = Len(sub) /\ ~zip.cdir[r].dir
    BY <1>0, <1>1, <1>3, <1>6 DEF ChildIsDir
  <2>2. sub = name
    <3>. HIDE DEF name
    <3>. QED
      BY <1>1, <1>3, <2>1, SeqEqual DEF Key
  <2>3. sub \in Spellings(zip)
    BY <1>3, <2>2, SpellingOf
  <2>4. ~is_implicit_dir(zip, sub)
    BY <2>1, <2>2, <2>3 DEF Unambiguous, HasFile, HasDir
  <2>. DEFINE i == Locate(zip, sub, FALSE)
  <2>5. zip.cdir[r].dir = FALSE
    BY <2>1, ChildByIndex DEF Entry
  <2>6. r \in Matches(zip, sub, FALSE)
    BY <2>2, <2>5 DEF Matches
  <2>7. i \in Matches(zip, sub, FALSE)
    BY <2>6 DEF Locate
  <2>8. /\ i \in DOMAIN zip.cdir /\ i # 0
        /\ zip.cdir[i].dir = FALSE /\ FoldKey(zip.cdir[i].name) = FoldKey(sub)
    <3>1. DOMAIN zip.cdir = 1 .. Len(zip.cdir) /\ Len(zip.cdir) \in Nat
      BY DEF Archive
    <3>. HIDE DEF i
    <3>. QED
      BY <2>7, <3>1 DEF Matches
  <2>9. zip.cdir[i].name = sub
    <3>. HIDE DEF i
    <3>1. zip.cdir[i].name \in Key
      BY <2>8, ChildByIndex
    <3>2. Len(zip.cdir[i].name) = Len(sub)
      BY <1>3, <2>8, <3>1, SameFold
    <3>3. zip.cdir[i].name # << >>
      BY <1>0, <1>3, <3>2
    <3>. QED
      BY <2>3, <2>8, <3>3, SpellingOf DEF Unambiguous
  <2>10. find_entry(zip, sub) = i
    BY <2>8 DEF find_entry
  <2>. HIDE DEF i
  <2>. QED
    BY <1>2, <1>6, <2>4, <2>8, <2>9, <2>10 DEF IsDirectory
<1>. QED
  BY <1>5, <1>6

(* Every entry a reader has returned was taken from a record. *)
Shown(d) ==
    \A k \in DOMAIN d.seen :
        \E r \in DOMAIN zip.cdir : IsChild(zip, r, d.prefix) /\ d.seen[k] = DirentOf(d, r)

ShownInv == \A h \in Handle : Shown(dirs[h])

LEMMA OneShown ==
    ASSUME Inv, ShownInv, zip' = zip, NEW h \in Handle, NEW d \in DirState, Shown(d), Yields(h, d)
    PROVE  ShownInv'
<1>1. \A g \in Handle : dirs'[g] = IF g = h THEN d ELSE dirs[g]
  BY DEF Inv, TypeOK, Yields
<1>2. ASSUME NEW g \in Handle
      PROVE  Shown(dirs[g])'
  <2>1. CASE g = h
    <3>1. dirs'[g] = d
      BY <1>1, <2>1
    <3>. QED
      BY <3>1 DEF Shown, DirentOf
  <2>2. CASE g # h
    <3>1. dirs'[g] = dirs[g]
      BY <1>1, <2>2
    <3>. QED
      BY <3>1 DEF Shown, DirentOf, ShownInv
  <2>. QED
    BY <2>1, <2>2
<1>. QED
  BY <1>2 DEF ShownInv

LEMMA SameShown == ShownInv /\ UNCHANGED <<zip, dirs>> => ShownInv'
  BY DEF ShownInv, Shown, DirentOf

(* A directory just opened has shown nothing. *)
LEMMA NothingShown ==
    ASSUME NEW d \in DirState, d.seen = << >>
    PROVE  Shown(d)
<1>1. DOMAIN d.seen = {}
  OBVIOUS
<1>. QED
  BY <1>1 DEF Shown

(* The entry readdir returns is taken from the record it stopped at. *)
LEMMA EmittingShows ==
    ASSUME zip \in Archive,
           NEW d \in DirState, d.cursor \in Nat \ {0}, Shown(d),
           NEW i \in d.cursor .. Len(zip.cdir), Emits(d, i),
           Emitting(d, i) \in DirState
    PROVE  Shown(Emitting(d, i))
<1>. DEFINE e == Emitting(d, i)
<1>1. /\ d.seen \in Seq(Dirent) /\ i \in DOMAIN zip.cdir
      /\ IsChild(zip, i, d.prefix)
  BY DEF DirState, Archive, Emits
<1>2. e.prefix = d.prefix /\ e.seen = Append(d.seen, DirentOf(d, i))
  BY DEF Emitting, DirState
<1>3. /\ e.seen \in Seq(Dirent) /\ Len(e.seen) = Len(d.seen) + 1
      /\ e.seen[Len(d.seen) + 1] = DirentOf(d, i)
      /\ \A k \in 1 .. Len(d.seen) : e.seen[k] = d.seen[k]
      /\ Len(d.seen) \in Nat
  <2>. HIDE DEF e
  <2>1. e.seen \in Seq(Dirent) /\ e \in DirState
    BY DEF e, DirState
  <2>. DEFINE x == DirentOf(d, i)
  <2>. HIDE DEF x
  <2>2. e.seen = Append(d.seen, x)
    BY <1>2 DEF x
  <2>3. /\ Len(e.seen) = Len(d.seen) + 1 /\ e.seen[Len(d.seen) + 1] = x
        /\ \A k \in 1 .. Len(d.seen) : e.seen[k] = d.seen[k]
    BY <1>1, <2>2
  <2>. QED
    BY <1>1, <2>1, <2>3 DEF x
<1>4. \A r : DirentOf(e, r) = DirentOf(d, r)
  BY <1>2 DEF DirentOf
<1>. HIDE DEF e
<1>5. ASSUME NEW k \in DOMAIN e.seen
      PROVE  \E r \in DOMAIN zip.cdir : IsChild(zip, r, e.prefix) /\ e.seen[k] = DirentOf(e, r)
  <2>1. k \in 1 .. Len(d.seen) \/ k = Len(d.seen) + 1
    BY <1>3
  <2>2. CASE k = Len(d.seen) + 1
    BY <1>1, <1>2, <1>3, <1>4, <2>2
  <2>3. CASE k \in 1 .. Len(d.seen)
    <3>1. k \in DOMAIN d.seen /\ e.seen[k] = d.seen[k]
      BY <1>1, <1>3, <2>3
    <3>. QED
      BY <1>2, <1>4, <3>1 DEF Shown
  <2>. QED
    BY <2>1, <2>2, <2>3
<1>. QED
  BY <1>5 DEF Shown, e

LEMMA InitShown == Init => ShownInv
<1>. SUFFICES ASSUME Init, NEW h \in Handle PROVE Shown(dirs[h])
  BY DEF ShownInv
<1>1. dirs[h] \in DirState /\ dirs[h].seen = << >>
  BY InitInv DEF Init, Inv, TypeOK, Free
<1>. QED
  BY <1>1, NothingShown

LEMMA StepShown == Inv /\ ShownInv /\ [Next]_vars => ShownInv'
<1>. SUFFICES ASSUME Inv, ShownInv, [Next]_vars PROVE ShownInv'
  OBVIOUS
<1>0. /\ zip \in Archive /\ Len(zip.cdir) \in Nat
      /\ \A h \in Handle : /\ dirs[h] \in DirState /\ ReadInv(zip, dirs[h]) /\ Shown(dirs[h])
                            /\ dirs[h].cursor \in 1 .. Len(zip.cdir) + 1
  BY ArchiveTyped DEF Inv, TypeOK, ReadersInv, ShownInv
<1>1. ASSUME NEW h \in Handle, NEW p \in Paths, OPENDIR_FN(h, p)
      PROVE  ShownInv'
  <2>. DEFINE key == KeyOf(p)
  <2>1. /\ zip' = zip
        /\ \/ UNCHANGED dirs
           \/ Yields(h, Opened("virtual", key))
           \/ Yields(h, Opened("real", << >>))
    BY <1>1 DEF OPENDIR_FN, OpendirVirtual
  <2>2. << >> \in Key /\ key \in Key
    BY DirAssumption DEF Key
  <2>. HIDE DEF key
  <2>3. ASSUME NEW kind \in {"real", "virtual"}, NEW prefix \in Key
        PROVE  Opened(kind, prefix) \in DirState /\ Shown(Opened(kind, prefix))
    <3>1. Opened(kind, prefix) \in DirState /\ Opened(kind, prefix).seen = << >>
      BY OpenedReads DEF Opened, Free
    <3>. QED
      BY <3>1, NothingShown
  <2>. QED
    BY <2>1, <2>2, <2>3, OneShown, SameShown
<1>2. ASSUME NEW h \in Handle, ReaddirEntry(h)
      PROVE  ShownInv'
  <2>. DEFINE d == dirs[h]
  <2>1. PICK i \in d.cursor .. Len(zip.cdir) :
            Emits(d, i) /\ (\A j \in d.cursor .. i - 1 : ~Emits(d, j)) /\ Yields(h, Emitting(d, i))
    BY <1>2 DEF ReaddirEntry
  <2>2. zip' = zip
    BY <1>2 DEF ReaddirEntry, core
  <2>3. Emitting(d, i) \in DirState
    BY <1>0, <2>1, EmittingReads
  <2>4. d.cursor \in Nat \ {0}
    BY <1>0
  <2>5. Shown(Emitting(d, i))
    BY <1>0, <2>1, <2>3, <2>4, EmittingShows
  <2>. QED
    BY <2>1, <2>2, <2>3, <2>5, OneShown
<1>3. ASSUME NEW h \in Handle, ReaddirEnd(h)
      PROVE  ShownInv'
  <2>. DEFINE d == dirs[h]
  <2>. DEFINE e == [d EXCEPT !.cursor = Len(zip.cdir) + 1, !.ended = TRUE]
  <2>1. zip' = zip /\ (\A i \in d.cursor .. Len(zip.cdir) : ~Emits(d, i)) /\ Yields(h, e)
    BY <1>3 DEF ReaddirEnd, core
  <2>2. e \in DirState
    BY <1>0, <2>1, EndingReads
  <2>3. e.seen = d.seen /\ e.prefix = d.prefix
    BY <1>0 DEF DirState
  <2>4. Shown(d)
    BY <1>0
  <2>5. Shown(e)
    <3>. HIDE DEF d, e
    <3>. QED
      BY <2>3, <2>4 DEF Shown, DirentOf
  <2>. QED
    BY <2>1, <2>2, <2>5, OneShown
<1>4. ASSUME NEW h \in Handle, ReaddirReal(h)
      PROVE  ShownInv'
  BY <1>4, SameShown DEF ReaddirReal, core
<1>5. ASSUME NEW h \in Handle, CLOSEDIR_FN(h)
      PROVE  ShownInv'
  <2>1. zip' = zip /\ Yields(h, Free)
    BY <1>5 DEF CLOSEDIR_FN, core
  <2>2. Free \in DirState /\ Free.seen = << >>
    BY <1>0, FreeReads DEF Free
  <2>. QED
    BY <2>1, <2>2, NothingShown, OneShown
<1>6. CASE SetEnv
  BY <1>6, SameShown DEF SetEnv
<1>7. CASE UNCHANGED vars
  BY <1>7, SameShown DEF vars, core
<1>. QED
  BY <1>1, <1>2, <1>3, <1>4, <1>5, <1>6, <1>7 DEF Next

(* Every name a listing shows is found again by stat and open, in any case  *)
(* they are asked in, with the type it was listed with, and a file is the   *)
(* very record that was listed: for every archive without two spellings of  *)
(* one name.                                                                *)
THEOREM ListingMatchesLookUps == Spec => []ListingAgreesWithStat
<1>1. ASSUME Inv, ShownInv, Unambiguous(zip), NEW h \in Handle, NEW k \in DOMAIN dirs[h].seen,
             NEW e, e = dirs[h].seen[k],
             NEW key, key = Append(dirs[h].prefix, e.name)
      PROVE  LET i == find_entry(zip, key)
             IN  /\ ~vfs_hidden(key)
                 /\ e.type = "DT_DIR" <=> IsDirectory(key)
                 /\ e.type = "DT_REG" => i # 0 /\ zip.cdir[i].name = key /\ ~zip.cdir[i].dir
  <2>1. zip \in Archive /\ dirs[h].prefix \in Key
    BY <1>1, ArchiveTyped DEF Inv, TypeOK, DirState
  <2>2. PICK r \in DOMAIN zip.cdir :
            IsChild(zip, r, dirs[h].prefix) /\ e = DirentOf(dirs[h], r)
    BY <1>1 DEF ShownInv, Shown
  <2>3. /\ e.name = ChildName(zip, r, dirs[h].prefix)
        /\ e.type = "DT_DIR" <=> ChildIsDir(zip, r, dirs[h].prefix)
        /\ e.type = "DT_REG" <=> ~ChildIsDir(zip, r, dirs[h].prefix)
    BY <2>2 DEF DirentOf
  <2>4. key = Append(dirs[h].prefix, ChildName(zip, r, dirs[h].prefix))
    BY <1>1, <2>3
  <2>. QED
    BY <1>1, <2>1, <2>2, <2>3, <2>4, ChildIsFound
<1>2. Inv /\ ShownInv => ListingAgreesWithStat
  BY <1>1 DEF ListingAgreesWithStat
<1>3. Spec => []ShownInv
  BY AlwaysInv, InitShown, StepShown, PTL DEF Spec
<1>. QED
  BY <1>2, <1>3, AlwaysInv, PTL
=============================================================================
