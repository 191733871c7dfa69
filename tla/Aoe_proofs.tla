------------------------------ MODULE Aoe_proofs ------------------------------
(***************************************************************************)
(* Proofs about the AoE driver (Aoe): each request is accepted and         *)
(* completed once and its count is right, a reply is never taken for       *)
(* another, no place among the pending tags is lost, a disk is used with a *)
(* packet size it has answered, and nothing but the PDO given to the main  *)
(* bus stays held after the driver.                                        *)
(*                                                                         *)
(* The tags and the identifiers in the list are used once (Alone), and a   *)
(* packet which carries the identifier of a listed tag is of that tag      *)
(* (Answers): that is what makes the other parts of the invariant steps.   *)
(*                                                                         *)
(* The last part is about the NDIS protocol below the driver (Protocol):   *)
(* its pools are accounted for, and a broadcast misses no adapter.         *)
(***************************************************************************)
EXTENDS Aoe, Protocol, ListLemmas

Tag == [type : {"io"}, of : Irp, part : Nat] \cup
       [type : {"search"}, of : Disk, part : Nat]

Entry == [tag : Tag, id : Id \cup {0}]

(* The tags of a list, and those which were sent.                          *)
TagsOf(s) == {e.tag : e \in ToSet(s)}
SentOf(s) == {e.tag : e \in {f \in ToSet(s) : f.id # 0}}

HandledTags == {h.tag : h \in handling}
Handled(r)  == {h \in handling : h.tag.type = "io" /\ h.tag.of = r}

(* The questions to a disk which are listed or with a handler.             *)
Asked(d) == {t \in Listed \cup HandledTags : t.type = "search" /\ t.of = d}

Questions == {"GettingSize", "GettingGeometry", "GettingMaxSects"}
Early == {"SearchNic", "GetSize", "GettingSize", "GetGeometry", "GettingGeometry"}

Shapes ==
  /\ list \in Seq(Entry) /\ pending \in Int
  /\ wire \in SUBSET [id : Id, tag : Tag \cup {Probe}]
  /\ handling \in SUBSET [tag : Tag, answer : Tag] /\ IsFiniteSet(handling)
  /\ tagCount \in [Irp -> Nat] /\ completions \in [Irp -> Nat]
  /\ accepted \in SUBSET Irp
  /\ disk \in [Disk -> {"none", "searching", "ready", "deleted"}]
  /\ search \in [Disk -> Early \cup {"GetMaxSects", "GettingMaxSects", "Done"}]
  /\ maxSectors \in [Disk -> Nat] /\ proven \in [Disk -> Nat]
  /\ mistaken \in BOOLEAN

(* The entries of a list differ in their tags and their identifiers.       *)
Alone(s) ==
  /\ Distinct(s)
  /\ \A e, f \in ToSet(s) : e.tag = f.tag => e = f
  /\ \A e, f \in ToSet(s) : e.id = f.id /\ e.id # 0 => e = f

(* A packet with the identifier of a listed tag is a packet of that tag.   *)
Answers ==
  /\ \A p \in wire, e \in ToSet(list) :
       p.tag # Probe /\ p.id = e.id => p.tag = e.tag
  /\ OwnAnswer

(* A tag is in the list or with a handler.                                 *)
Apart == Listed \cap HandledTags = {}

(* At most the question which the state of the search tells is asked.      *)
Searches ==
  \A d \in Disk :
    /\ search[d] \in {"SearchNic", "GetSize", "GetGeometry", "GetMaxSects"} =>
         Asked(d) = {}
    /\ search[d] = "GettingSize" => Asked(d) \subseteq {SearchTag(d, Size)}
    /\ search[d] = "GettingGeometry" => Asked(d) \subseteq {SearchTag(d, Geometry)}
    /\ search[d] = "GettingMaxSects" =>
         Asked(d) \subseteq {SearchTag(d, maxSectors[d])}

(* The packet size is the one answered, or the next, which is tried.       *)
Sized ==
  \A d \in Disk :
    /\ disk[d] = "none" => search[d] = "SearchNic" /\ proven[d] = 0
    /\ disk[d] = "ready" => search[d] = "Done"
    /\ search[d] \in Early => proven[d] = 0
    /\ disk[d] # "none" /\ search[d] \in Early => maxSectors[d] = 1
    /\ search[d] \in {"GetMaxSects", "Done"} =>
         proven[d] >= 1 /\ maxSectors[d] = proven[d]
    /\ search[d] = "GettingMaxSects" =>
         proven[d] >= 1 /\ maxSectors[d] = proven[d] + 1

(* The count of a request is never less than its parts, and not more while *)
(* no search has taken the tag of another disk.                            *)
Tally(r)   == Cardinality(OfIrp(r)) + Cardinality(Handled(r))
CountIs(r) == tagCount[r] >= Tally(r) /\ (mistaken \/ tagCount[r] = Tally(r))

(* What is still to be answered is not completed.                          *)
Counted ==
  /\ \A r \in Irp : CountIs(r)
  /\ \A r \in Irp : r \notin accepted => tagCount[r] = 0
  /\ \A r \in Irp : tagCount[r] > 0 => completions[r] = 0

Lists == Shapes /\ Alone(list) /\ Answers /\ Apart

IInv == Lists /\ Searches /\ Sized /\ Counted /\ NoPlaceLost

(* What the driver can hold; the references are given back in order.       *)
Held ==
  /\ stop \in {"new", "no", "removing", "stopping", "closing", "unloaded"}
  /\ has \subseteq {"protocol", "tag", "packet", "Fdo", "link", "thread",
                    "threadRef", "aBFT", "Pdo", "LowerDeviceObject"}
  /\ stop \in {"new", "unloaded"} => has \subseteq {"Pdo"}
  /\ stop = "new" => has = {}
  /\ stop = "closing" => has \subseteq {"protocol", "Pdo"}
  /\ stop \in {"removing", "stopping"} => {"aBFT", "LowerDeviceObject"} \cap has = {}
  /\ "LowerDeviceObject" \in has => "aBFT" \notin has

-----------------------------------------------------------------------------
(* How a step changes the list: it appends tags which were neither listed  *)
(* nor handled, it removes an entry, or it sends tags.                     *)
Appends(T) ==
  /\ T \cap (Listed \cup HandledTags) = {}
  /\ list' \in Seq(Entry) /\ Alone(list')
  /\ ToSet(list') = ToSet(list) \cup {[tag |-> t, id |-> 0] : t \in T}
  /\ Listed' = Listed \cup T /\ Sent' = Sent

Removes(e) ==
  /\ e \in ToSet(list)
  /\ list' \in Seq(Entry) /\ Alone(list')
  /\ ToSet(list') = ToSet(list) \ {e}
  /\ Listed' = Listed \ {e.tag} /\ Sent' = Sent \ {e.tag}

Sends(T) ==
  /\ IsFiniteSet(T) /\ T \cap Sent = {}
  /\ list' \in Seq(Entry) /\ Alone(list')
  /\ Listed' = Listed /\ Sent' = Sent \cup T
  /\ pending' = pending + Cardinality(T)

(* The tags of the model in terms of the entries.                          *)
LEMMA ListTags ==
  ASSUME NEW s \in Seq(Entry)
  PROVE  /\ {s[i].tag : i \in DOMAIN s} = TagsOf(s)
         /\ {s[i].tag : i \in {j \in DOMAIN s : s[j].id # 0}} = SentOf(s)
         /\ TagsOf(s) \in SUBSET Tag /\ SentOf(s) \in SUBSET TagsOf(s)
         /\ ToSet(s) \in SUBSET Entry
<1>1. /\ DOMAIN s = 1 .. Len(s)
      /\ ToSet(s) = {s[i] : i \in 1 .. Len(s)}
      /\ ToSet(s) \subseteq Entry
  BY Elements
<1>2. {s[i].tag : i \in DOMAIN s} = TagsOf(s)
  BY <1>1 DEF TagsOf
<1>3. {s[i].tag : i \in {j \in DOMAIN s : s[j].id # 0}} = SentOf(s)
  BY <1>1 DEF SentOf
<1> QED
  BY <1>1, <1>2, <1>3 DEF TagsOf, SentOf, Entry

(* They are finitely many.                                                 *)
LEMMA FiniteTags ==
  ASSUME NEW s \in Seq(Entry), Alone(s)
  PROVE  IsFiniteSet(TagsOf(s)) /\ IsFiniteSet(SentOf(s))
<1>1. IsFiniteSet(ToSet(s))
  BY LengthOfDistinct DEF Alone
<1> DEFINE f == [e \in ToSet(s) |-> e.tag]
<1>2. f \in Surjection(ToSet(s), TagsOf(s))
  BY DEF Surjection, TagsOf
<1>3. IsFiniteSet(TagsOf(s))
  BY <1>1, <1>2, FS_Surjection
<1>4. SentOf(s) \in SUBSET TagsOf(s)
  BY DEF SentOf, TagsOf
<1> QED
  BY <1>3, <1>4, FS_Subset

(* Tags are added, not yet sent.                                           *)
LEMMA AddTags ==
  ASSUME NEW s \in Seq(Entry), NEW u \in Seq(Entry), NEW T, Alone(s), Distinct(u),
         ToSet(u) = ToSet(s) \cup {[tag |-> t, id |-> 0] : t \in T},
         T \cap TagsOf(s) = {}
  PROVE  Alone(u) /\ TagsOf(u) = TagsOf(s) \cup T /\ SentOf(u) = SentOf(s)
<1>1. TagsOf(u) = TagsOf(s) \cup T
  <2>1. \A t \in T : [tag |-> t, id |-> 0] \in ToSet(u)
    OBVIOUS
  <2>2. \A t \in T : [tag |-> t, id |-> 0].tag = t
    OBVIOUS
  <2>3. T \subseteq TagsOf(u)
    BY <2>1, <2>2 DEF TagsOf
  <2>4. TagsOf(s) \subseteq TagsOf(u)
    BY DEF TagsOf
  <2>5. TagsOf(u) \subseteq TagsOf(s) \cup T
    BY DEF TagsOf
  <2> QED
    BY <2>3, <2>4, <2>5
<1>2. SentOf(u) = SentOf(s)
  BY DEF SentOf
<1>3. ASSUME NEW e \in ToSet(u), NEW f \in ToSet(u), e.tag = f.tag  PROVE e = f
  BY <1>3 DEF Alone, TagsOf
<1>4. ASSUME NEW e \in ToSet(u), NEW f \in ToSet(u), e.id = f.id, e.id # 0
      PROVE  e = f
  BY <1>4 DEF Alone
<1> QED
  BY <1>1, <1>2, <1>3, <1>4 DEF Alone

(* An entry is removed.                                                    *)
LEMMA RemoveTag ==
  ASSUME NEW s \in Seq(Entry), NEW p \in 1 .. Len(s), Alone(s)
  PROVE  /\ s[p] \in ToSet(s)
         /\ RemoveAt(s, p) \in Seq(Entry) /\ Alone(RemoveAt(s, p))
         /\ ToSet(RemoveAt(s, p)) = ToSet(s) \ {s[p]}
         /\ TagsOf(RemoveAt(s, p)) = TagsOf(s) \ {s[p].tag}
         /\ SentOf(RemoveAt(s, p)) = SentOf(s) \ {s[p].tag}
<1> DEFINE u == RemoveAt(s, p)
<1>1. s[p] \in ToSet(s)
  BY Elements
<1>2. u \in Seq(Entry) /\ Distinct(u) /\ ToSet(u) = ToSet(s) \ {s[p]}
  BY RemoveAtElements DEF Alone
<1> HIDE DEF u
<1>3. Alone(u)
  BY <1>2 DEF Alone
<1>4. TagsOf(u) = TagsOf(s) \ {s[p].tag}
  BY <1>1, <1>2 DEF TagsOf, Alone
<1>5. SentOf(u) = SentOf(s) \ {s[p].tag}
  BY <1>1, <1>2 DEF SentOf, Alone
<1> QED
  BY <1>1, <1>2, <1>3, <1>4, <1>5 DEF u

(* The same of the list of the driver.                                     *)
LEMMA RemovesIt ==
  ASSUME Lists, NEW p \in DOMAIN list, list' = RemoveAt(list, p)
  PROVE  Removes(list[p])
<1>1. p \in 1 .. Len(list)
  BY Elements DEF Lists, Shapes
<1>2. /\ list[p] \in ToSet(list) /\ list' \in Seq(Entry) /\ Alone(list')
      /\ ToSet(list') = ToSet(list) \ {list[p]}
      /\ TagsOf(list') = TagsOf(list) \ {list[p].tag}
      /\ SentOf(list') = SentOf(list) \ {list[p].tag}
  BY <1>1, RemoveTag DEF Lists, Shapes
<1>3. Listed = TagsOf(list) /\ Sent = SentOf(list)
  BY ListTags DEF Lists, Shapes, Listed, Sent
<1>4. Listed' = TagsOf(list') /\ Sent' = SentOf(list')
  BY <1>2, ListTags DEF Listed, Sent
<1> QED
  BY <1>2, <1>3, <1>4 DEF Removes

-----------------------------------------------------------------------------
(* A search asks what is not asked yet.                                    *)
LEMMA AskAppends ==
  ASSUME Lists, NEW d \in Disk, NEW n \in Nat, NEW goal, Ask(d, n, goal),
         Asked(d) = {}
  PROVE  Appends({SearchTag(d, n)})
<1> DEFINE t == SearchTag(d, n)
           e == [tag |-> t, id |-> 0]
<1>1. t \in Tag /\ t.type = "search" /\ t.of = d
  BY DEF SearchTag, Tag
<1>2. t \notin Listed \cup HandledTags
  BY <1>1 DEF Asked
<1>3. e \in Entry
  BY <1>1 DEF Entry
<1>4. Listed = TagsOf(list) /\ Sent = SentOf(list) /\ list \in Seq(Entry)
  BY ListTags DEF Lists, Shapes, Listed, Sent
<1>5. e \notin ToSet(list)
  BY <1>2, <1>4 DEF TagsOf
<1>6. list' = Append(list, e)
  BY DEF Ask
<1>7. /\ list' \in Seq(Entry) /\ Distinct(list')
      /\ ToSet(list') = ToSet(list) \cup {e}
  BY <1>3, <1>4, <1>5, <1>6, AppendElements DEF Lists, Alone
<1>8. {e} = {[tag |-> x, id |-> 0] : x \in {t}}
  OBVIOUS
<1> HIDE DEF t, e
<1>9. Alone(list') /\ TagsOf(list') = TagsOf(list) \cup {t} /\ SentOf(list') = SentOf(list)
  <2>1. ToSet(list') = ToSet(list) \cup {[tag |-> x, id |-> 0] : x \in {t}}
    BY <1>7, <1>8
  <2>2. {t} \cap TagsOf(list) = {}
    BY <1>2, <1>4
  <2> QED
    BY <2>1, <2>2, <1>4, <1>7, AddTags DEF Lists
<1>10. Listed' = TagsOf(list') /\ Sent' = SentOf(list')
  BY <1>7, ListTags DEF Listed, Sent
<1>11. Appends({t})
  BY <1>2, <1>4, <1>7, <1>8, <1>9, <1>10 DEF Appends
<1> QED
  BY <1>11 DEF t

(* A request of a disk has at least one part, ...                          *)
LEMMA Quotient ==
  ASSUME NEW a \in Nat \ {0}, NEW m \in Nat \ {0}
  PROVE  (a + m - 1) \div m \in Nat \ {0}
OBVIOUS

LEMMA SomeParts ==
  ASSUME Shapes, Sized, NEW r \in Irp, DiskIo(r)
  PROVE  Parts(r) \in Nat \ {0}
<1>1. DiskOf[r] \in Disk /\ disk[DiskOf[r]] = "ready" /\ Sectors[r] \in Nat \ {0}
  BY ParametersAssumption DEF DiskIo, New
<1>2. maxSectors[DiskOf[r]] \in Nat \ {0}
  BY <1>1 DEF Sized, Shapes
<1> QED
  BY <1>1, <1>2, Quotient DEF Parts

(* ... and none of them is known before.                                   *)
LEMMA NoParts ==
  ASSUME Lists, Counted, NEW r \in Irp, tagCount[r] = 0
  PROVE  OfIrp(r) = {} /\ Handled(r) = {}
<1>1. IsFiniteSet(OfIrp(r)) /\ IsFiniteSet(Handled(r))
  <2>1. IsFiniteSet(Listed) /\ OfIrp(r) \in SUBSET Listed
    BY ListTags, FiniteTags DEF Lists, Shapes, Listed, OfIrp
  <2>2. Handled(r) \in SUBSET handling /\ IsFiniteSet(handling)
    BY DEF Handled, Lists, Shapes
  <2> QED
    BY <2>1, <2>2, FS_Subset
<1>2. tagCount[r] >= Cardinality(OfIrp(r)) + Cardinality(Handled(r))
  BY DEF Counted, CountIs, Tally
<1>3. Cardinality(OfIrp(r)) = 0 /\ Cardinality(Handled(r)) = 0
  BY <1>1, <1>2, FS_CardinalityType
<1> QED
  BY <1>1, <1>3, FS_EmptySet

LEMMA DiskIoAppends ==
  ASSUME Lists, Sized, Counted, NEW r \in Irp, DiskIo(r)
  PROVE  Appends({IoTag(r, i) : i \in 1 .. Parts(r)})
<1> DEFINE n == Parts(r)
           T == {IoTag(r, i) : i \in 1 .. n}
           s == [i \in 1 .. n |-> [tag |-> IoTag(r, i), id |-> 0]]
<1>1. n \in Nat \ {0}
  BY SomeParts DEF Lists
<1>2. \A i \in 1 .. n : /\ IoTag(r, i) \in Tag
                        /\ IoTag(r, i).type = "io" /\ IoTag(r, i).of = r
                        /\ IoTag(r, i).part = i
  BY <1>1 DEF IoTag, Tag
<1>3. OfIrp(r) = {} /\ Handled(r) = {}
  BY NoParts DEF DiskIo, New, Counted
<1>4. T \cap (Listed \cup HandledTags) = {}
  BY <1>2, <1>3 DEF OfIrp, Handled, HandledTags
<1>5. Listed = TagsOf(list) /\ Sent = SentOf(list) /\ list \in Seq(Entry)
  BY ListTags DEF Lists, Shapes, Listed, Sent
<1>6. \A i \in 1 .. n : s[i] \in Entry /\ s[i].tag = IoTag(r, i)
  BY <1>2 DEF Entry
<1>7. list' = list \o s
  BY DEF DiskIo
<1>8. s \in Seq(Entry) /\ Len(s) = n /\ DOMAIN s = 1 .. n
  <2>1. s \in [1 .. n -> Entry]
    BY <1>6
  <2> HIDE DEF s, n
  <2>2. s \in Seq(Entry)
    BY <2>1, <1>1, SeqDef
  <2>3. DOMAIN s = 1 .. n /\ DOMAIN s = 1 .. Len(s) /\ Len(s) \in Nat
    BY <2>1, <2>2, LenProperties
  <2> QED
    BY <2>2, <2>3, <1>1, LenProperties
<1>9. ToSet(s) = {[tag |-> t, id |-> 0] : t \in T}
  <2> HIDE DEF n
  <2>1. \A i \in 1 .. n : s[i] = [tag |-> IoTag(r, i), id |-> 0]
    OBVIOUS
  <2> HIDE DEF s
  <2>2. ToSet(s) = {s[i] : i \in 1 .. n}
    BY <1>8, Elements
  <2>3. \A i \in 1 .. n : s[i] \in {[tag |-> t, id |-> 0] : t \in T}
    BY <2>1
  <2>4. \A t \in T : [tag |-> t, id |-> 0] \in ToSet(s)
    BY <2>1, <2>2
  <2> QED
    BY <2>2, <2>3, <2>4
<1> HIDE DEF n
<1>10. Distinct(s)
  <2> SUFFICES ASSUME NEW i \in 1 .. n, NEW j \in 1 .. n, s[i] = s[j]
               PROVE  i = j
    BY <1>8 DEF Distinct
  <2> HIDE DEF s
  <2>1. IoTag(r, i) = IoTag(r, j)
    BY <1>6
  <2> QED
    BY <1>2, <2>1
<1> HIDE DEF s, T
<1>11. ToSet(list) \cap ToSet(s) = {}
  <2> SUFFICES ASSUME NEW e \in ToSet(list), NEW t \in T,
                      e = [tag |-> t, id |-> 0]
               PROVE  FALSE
    BY <1>9
  <2>1. e.tag = t /\ t \in TagsOf(list)
    BY DEF TagsOf
  <2> QED
    BY <2>1, <1>4, <1>5
<1>12. /\ list' \in Seq(Entry) /\ Distinct(list')
       /\ ToSet(list') = ToSet(list) \cup ToSet(s)
  BY <1>5, <1>7, <1>8, <1>10, <1>11, ConcatElements DEF Lists, Alone
<1>13. Alone(list') /\ TagsOf(list') = TagsOf(list) \cup T /\ SentOf(list') = SentOf(list)
  <2>1. T \cap TagsOf(list) = {}
    BY <1>4, <1>5
  <2> QED
    BY <2>1, <1>5, <1>9, <1>12, AddTags DEF Lists
<1>14. Listed' = TagsOf(list') /\ Sent' = SentOf(list')
  BY <1>12, ListTags DEF Listed, Sent
<1>15. Appends(T)
  BY <1>4, <1>5, <1>9, <1>12, <1>13, <1>14 DEF Appends
<1> QED
  BY <1>15 DEF T, n

(* Entries at different places differ in both respects.                    *)
LEMMA PlacesDiffer ==
  ASSUME NEW s \in Seq(Entry), Alone(s)
  PROVE  \A i, j \in 1 .. Len(s) :
           /\ s[i] \in ToSet(s) /\ s[i] \in Entry
           /\ s[i].tag = s[j].tag => i = j
           /\ s[i].id = s[j].id /\ s[i].id # 0 => i = j
<1>1. \A i \in 1 .. Len(s) : s[i] \in ToSet(s) /\ s[i] \in Entry
  BY Elements
<1> QED
  BY <1>1 DEF Alone, Distinct

(* The walk over the list gives the tags it sends first new identifiers,   *)
(* those it sends again keep theirs.                                       *)
LEMMA WalkSends ==
  ASSUME Lists, NEW due, NEW refused, ThreadWalk(due, refused)
  PROVE  /\ \E T : Sends(T)
         /\ Answers' /\ wire' \in SUBSET [id : Id, tag : Tag \cup {Probe}]
<1> DEFINE sends == Walk(due, refused)
           new == sends \cap Unsent
           T == {list[i].tag : i \in new}
<1>0. list \in Seq(Entry) /\ Alone(list) /\ wire \in SUBSET [id : Id, tag : Tag \cup {Probe}]
  BY DEF Lists, Shapes
<1>1. /\ Len(list) \in Nat /\ DOMAIN list = 1 .. Len(list)
      /\ ToSet(list) = {list[i] : i \in 1 .. Len(list)}
  BY <1>0, Elements
<1>2. /\ sends \in SUBSET (1 .. Len(list))
      /\ new = {i \in sends : list[i].id = 0}
  BY <1>1 DEF Walk, Unsent
<1>3. PICK id \in [sends -> Id] :
        /\ \A i \in sends \ new : id[i] = list[i].id
        /\ \A i \in new : Fresh(id[i], Used \cup {id[j] : j \in {k \in new : k < i}})
        /\ list' = [i \in DOMAIN list |->
                     IF i \in new THEN [list[i] EXCEPT !.id = id[i]] ELSE list[i]]
        /\ wire' = wire \cup {Packet(id[i], list[i].tag) : i \in sends}
        /\ pending' = pending + Cardinality(new)
  BY DEF ThreadWalk
<1>4. ASSUME NEW i \in new
      PROVE  /\ id[i] \in Id /\ id[i] # 0
             /\ \A p \in wire : p.id # id[i]
             /\ \A e \in ToSet(list) : e.id # id[i]
             /\ \A j \in new : j < i => id[i] # id[j]
  BY <1>2, <1>3, ParametersAssumption DEF Fresh, Used, ListedIds, Id
<1>5. ASSUME NEW i \in new, NEW j \in new, id[i] = id[j]  PROVE i = j
  BY <1>1, <1>2, <1>4, <1>5
<1> HIDE DEF sends, new
<1>6. \A i \in 1 .. Len(list) :
        /\ list'[i] \in Entry /\ list'[i].tag = list[i].tag
        /\ i \in new => list'[i].id = id[i]
        /\ i \notin new => list'[i] = list[i]
  <2> SUFFICES ASSUME NEW i \in 1 .. Len(list)
               PROVE  /\ list'[i] \in Entry /\ list'[i].tag = list[i].tag
                      /\ i \in new => list'[i].id = id[i]
                      /\ i \notin new => list'[i] = list[i]
    OBVIOUS
  <2>1. list[i] \in Entry
    BY <1>0, ElementOfSeq
  <2>2. CASE i \in new
    <3>1. list'[i] = [list[i] EXCEPT !.id = id[i]]
      BY <2>2, <1>1, <1>3
    <3> QED
      BY <2>1, <2>2, <3>1, <1>4 DEF Entry
  <2>3. CASE i \notin new
    BY <2>1, <2>3, <1>1, <1>3
  <2> QED
    BY <2>2, <2>3
<1>7. /\ list' \in Seq(Entry) /\ Len(list') = Len(list)
      /\ ToSet(list') = {list'[i] : i \in 1 .. Len(list)}
  <2>1. list' \in [1 .. Len(list) -> Entry]
    <3>1. DOMAIN list' = 1 .. Len(list) /\ list' = [i \in DOMAIN list' |-> list'[i]]
      BY <1>1, <1>3
    <3> QED
      BY <3>1, <1>6
  <2>2. list' \in Seq(Entry)
    BY <1>1, <2>1, SeqDef
  <2>3. Len(list') = Len(list)
    BY <1>1, <2>1, <2>2, LenProperties
  <2> QED
    BY <2>2, <2>3, Elements
<1>8. \A i, j \in 1 .. Len(list) :
        /\ list[i] \in ToSet(list) /\ list[i] \in Entry
        /\ list[i].tag = list[j].tag => i = j
        /\ list[i].id = list[j].id /\ list[i].id # 0 => i = j
  BY <1>0, PlacesDiffer
<1>9. \A i, j \in 1 .. Len(list) :
        list'[i].id = list'[j].id /\ list'[i].id # 0 => i = j
  <2> SUFFICES ASSUME NEW i \in 1 .. Len(list), NEW j \in 1 .. Len(list),
                      list'[i].id = list'[j].id, list'[i].id # 0
               PROVE  i = j
    OBVIOUS
  <2>1. CASE i \in new /\ j \in new
    BY <2>1, <1>5, <1>6
  <2>2. CASE i \in new /\ j \notin new
    BY <2>2, <1>4, <1>6, <1>8
  <2>3. CASE i \notin new /\ j \in new
    BY <2>3, <1>4, <1>6, <1>8
  <2>4. CASE i \notin new /\ j \notin new
    BY <2>4, <1>6, <1>8
  <2> QED
    BY <2>1, <2>2, <2>3, <2>4
<1>10. Alone(list')
  BY <1>6, <1>7, <1>8, <1>9 DEF Alone, Distinct
<1>11. Listed' = Listed
  <2>1. /\ Listed = {list[i].tag : i \in 1 .. Len(list)}
        /\ Listed' = {list'[i].tag : i \in 1 .. Len(list)}
    BY <1>1, <1>3, <1>7 DEF Listed
  <2> QED
    BY <2>1, <1>6
<1>12. Sent' = Sent \cup T
  <2>1. /\ Sent = {list[i].tag : i \in {j \in 1 .. Len(list) : list[j].id # 0}}
        /\ Sent' = {list'[i].tag : i \in {j \in 1 .. Len(list) : list'[j].id # 0}}
    BY <1>1, <1>3, <1>7 DEF Sent
  <2>2. new \in SUBSET (1 .. Len(list)) /\ \A i \in new : list[i].id = 0
    BY <1>2
  <2> QED
    BY <2>1, <2>2, <1>4, <1>6
<1>13. IsFiniteSet(T) /\ Cardinality(T) = Cardinality(new)
  <2> DEFINE f == [i \in new |-> list[i].tag]
  <2>1. f \in [new -> T]
    OBVIOUS
  <2>2. IsFiniteSet(new)
    <3>1. IsFiniteSet(1 .. Len(list))
      BY <1>1, FS_Interval
    <3>2. new \in SUBSET (1 .. Len(list))
      BY <1>2
    <3> QED
      BY <3>1, <3>2, FS_Subset
  <2>3. \A x, y \in new : f[x] = f[y] => x = y
    BY <1>2, <1>8
  <2>4. \A t \in T : \E x \in new : f[x] = t
    OBVIOUS
  <2> QED
    BY <2>1, <2>2, <2>3, <2>4, SameCount
<1>14. T \cap Sent = {}
  BY <1>1, <1>2, <1>8 DEF Sent
<1>15. Sends(T)
  BY <1>3, <1>7, <1>10, <1>11, <1>12, <1>13, <1>14 DEF Sends
<1>16. Answers'
  <2>1. OwnAnswer'
    BY DEF OwnAnswer, Lists, Answers, ThreadWalk
  <2>2. ASSUME NEW p \in wire', NEW i \in 1 .. Len(list),
               p.tag # Probe, p.id = list'[i].id
        PROVE  p.tag = list'[i].tag
    <3>1. CASE p \in wire
      BY <2>2, <3>1, <1>4, <1>6, <1>8 DEF Lists, Answers
    <3>2. CASE p \notin wire
      <4>1. PICK j \in sends : p = Packet(id[j], list[j].tag)
        BY <3>2, <1>3
      <4>2. p.id = id[j] /\ p.tag = list[j].tag /\ j \in 1 .. Len(list)
        BY <4>1, <1>2 DEF Packet
      <4>3. id[j] = list'[j].id /\ id[j] # 0
        BY <4>1, <4>2, <1>2, <1>3, <1>4, <1>6
      <4>4. i = j
        BY <2>2, <4>2, <4>3, <1>9
      <4> QED
        BY <4>2, <4>4, <1>6
    <3> QED
      BY <3>1, <3>2
  <2> QED
    BY <2>1, <2>2, <1>7 DEF Answers
<1>17. wire' \in SUBSET [id : Id, tag : Tag \cup {Probe}]
  <2>1. \A i \in sends : Packet(id[i], list[i].tag) \in [id : Id, tag : Tag \cup {Probe}]
    BY <1>2, <1>3, <1>8 DEF Packet, Entry
  <2> QED
    BY <2>1, <1>0, <1>3
<1> QED
  BY <1>15, <1>16, <1>17

(* A reply is taken for the packet it is the answer to.                    *)
LEMMA TakeRemoves ==
  ASSUME Lists, NEW p \in wire, ReplyTake(p)
  PROVE  \E e \in ToSet(list) :
           /\ Removes(e) /\ e.id # 0 /\ e.tag \in Tag
           /\ handling' = handling \cup {[tag |-> e.tag, answer |-> e.tag]}
<1>1. PICK i \in Matching(p) :
        /\ list' = RemoveAt(list, i)
        /\ handling' = handling \cup {[tag |-> list[i].tag, answer |-> p.tag]}
  BY DEF ReplyTake
<1>2. i \in DOMAIN list /\ p.id = list[i].id /\ p.tag # Probe
  BY <1>1 DEF Matching, Matches
<1>3. Removes(list[i])
  BY <1>1, <1>2, RemovesIt
<1>4. list[i] \in ToSet(list) /\ list[i].tag \in Tag
  BY <1>3, ListTags DEF Removes, Lists, Shapes, Entry
<1>5. list[i].id # 0
  BY <1>2, ParametersAssumption DEF Lists, Shapes, Id
<1>6. p.tag = list[i].tag
  BY <1>2, <1>4 DEF Lists, Answers
<1> QED
  BY <1>1, <1>3, <1>4, <1>5, <1>6

(* The end of a search leaves the list, or takes a question out of it, or  *)
(* is mistaken about what it takes.                                        *)
LEMMA FinishRemoves ==
  ASSUME Lists, NEW d \in Disk, SearchFinish(d)
  PROVE  \/ UNCHANGED <<list, pending, mistaken>>
         \/ /\ \E e \in ToSet(list) :
                 Removes(e) /\ ((e.tag.type = "search" /\ mistaken' = mistaken) \/ mistaken')
            /\ pending' = pending - 1
<1>1. CASE UNCHANGED <<list, pending, mistaken>>
  BY <1>1
<1>2. ASSUME NEW i \in AtAddress(d), list' = RemoveAt(list, i),
             mistaken' = (mistaken \/ i \in Reused(d))
      PROVE  \E e \in ToSet(list) :
               Removes(e) /\ ((e.tag.type = "search" /\ mistaken' = mistaken) \/ mistaken')
  <2>1. i \in DOMAIN list /\ Removes(list[i])
    BY <1>2, RemovesIt DEF AtAddress, Reused
  <2>2. list[i] \in ToSet(list)
    BY <2>1 DEF Removes
  <2>3. CASE i \in Reused(d)
    BY <1>2, <2>1, <2>2, <2>3
  <2>4. CASE i \notin Reused(d)
    <3>1. list[i].tag.type = "search"
      BY <1>2, <2>4 DEF AtAddress, Own
    <3>2. mistaken' = mistaken
      BY <1>2, <2>4 DEF Lists, Shapes
    <3> QED
      BY <2>1, <2>2, <3>1, <3>2
  <2> QED
    BY <2>3, <2>4
<1> QED
  BY <1>1, <1>2 DEF SearchFinish

-----------------------------------------------------------------------------
(* The lists keep their shape, tags and identifiers stay unique, and       *)
(* packets keep to their tags.                                             *)
LEMMA AppendsKeeps ==
  ASSUME Lists, NEW T, Appends(T), UNCHANGED <<wire, handling>>
  PROVE  Alone(list') /\ Answers' /\ Apart' /\ list' \in Seq(Entry)
<1>1. Alone(list') /\ list' \in Seq(Entry) /\ Apart'
  BY DEF Appends, Lists, Apart, HandledTags
<1>2. ASSUME NEW p \in wire, NEW e \in ToSet(list'), p.tag # Probe, p.id = e.id
      PROVE  p.tag = e.tag
  <2>1. p.id # 0
    BY ParametersAssumption DEF Lists, Shapes, Id
  <2>2. e \in ToSet(list)
    BY <1>2, <2>1 DEF Appends
  <2> QED
    BY <1>2, <2>2 DEF Lists, Answers
<1> QED
  BY <1>1, <1>2 DEF Answers, OwnAnswer, Lists

LEMMA RemovesKeeps ==
  ASSUME Lists, NEW e, Removes(e), wire' \in SUBSET wire,
         \/ UNCHANGED handling
         \/ handling' = handling \cup {[tag |-> e.tag, answer |-> e.tag]}
  PROVE  Alone(list') /\ Answers' /\ Apart' /\ list' \in Seq(Entry)
<1>1. Alone(list') /\ list' \in Seq(Entry)
  BY DEF Removes
<1>2. HandledTags' \subseteq HandledTags \cup {e.tag}
  BY DEF HandledTags
<1>3. Apart'
  BY <1>2 DEF Removes, Apart, Lists
<1>4. OwnAnswer'
  BY DEF OwnAnswer, Lists, Answers
<1> QED
  BY <1>1, <1>3, <1>4 DEF Answers, Lists, Removes

KeepsLists ==
  Alone(list') /\ Answers' /\ Apart' /\ list' \in Seq(Entry) /\ pending' \in Int

LEMMA ListsNext ==
  ASSUME IInv, [Next]_vars  PROVE KeepsLists
<1> USE DEF KeepsLists
<1>0. Lists /\ Alone(list) /\ Answers /\ Apart /\ list \in Seq(Entry) /\ pending \in Int
  BY DEF IInv, Lists, Shapes
<1>1. ASSUME UNCHANGED <<list, pending>>, wire' \in SUBSET wire,
             handling' \in SUBSET handling
      PROVE  KeepsLists
  BY <1>0, <1>1 DEF Answers, OwnAnswer, Apart, Listed, HandledTags
<1>2. CASE UNCHANGED vars
  BY <1>1, <1>2 DEF vars
<1>3. CASE DriverEntry \/ DriverEntryReturns \/ AoeBusAttachFdo \/ ThreadStop
           \/ Stop \/ Removed \/ CleanupAll \/ Unload
  BY <1>1, <1>3 DEF DriverEntry, DriverEntryReturns, AoeBusAttachFdo, ThreadStop,
                    Stop, Removed, CleanupAll, Unload, NoDisks
<1>4. ASSUME NEW d \in Disk, BootMount(d) \/ Mount(d)
      PROVE  KeepsLists
  BY <1>1, <1>4 DEF BootMount, Mount, Create
<1>5. ASSUME NEW d \in Disk, Search(d)
      PROVE  KeepsLists
  <2>1. CASE SearchNic(d) \/ SearchStopped(d)
    BY <1>1, <2>1 DEF SearchNic, SearchStopped
  <2>2. CASE SearchAsk(d)
    <3>1. PICK n \in Nat, goal \in Questions : Ask(d, n, goal) /\ Asked(d) = {}
      <4>1. maxSectors[d] \in Nat
        BY DEF IInv, Lists, Shapes
      <4> QED
        BY <2>2, <4>1 DEF Questions, SearchAsk, IInv, Searches, Size, Geometry
    <3>2. Appends({SearchTag(d, n)})
      BY <1>0, <3>1, AskAppends
    <3> QED
      BY <1>0, <3>1, <3>2, AppendsKeeps DEF Ask
  <2>3. CASE SearchFinish(d)
    <3>1. UNCHANGED <<wire, handling>>
      BY <2>3 DEF SearchFinish
    <3> QED
      BY <1>0, <1>1, <2>3, <3>1, FinishRemoves, RemovesKeeps
  <2> QED
    BY <1>5, <2>1, <2>2, <2>3 DEF Search
<1>6. ASSUME NEW r \in Irp, DiskIoRefuse(r)
      PROVE  KeepsLists
  BY <1>1, <1>6 DEF DiskIoRefuse
<1>7. ASSUME NEW r \in Irp, DiskIo(r)
      PROVE  KeepsLists
  BY <1>0, <1>7, DiskIoAppends, AppendsKeeps DEF DiskIo, IInv
<1>8. ASSUME NEW due, NEW refused, ThreadWalk(due, refused)
      PROVE  KeepsLists
  <2>1. PICK T : Sends(T)
    BY <1>0, <1>8, WalkSends
  <2>2. Answers' /\ UNCHANGED handling
    BY <1>0, <1>8, WalkSends DEF ThreadWalk
  <2>3. pending' \in Int
    BY <1>0, <2>1, FS_CardinalityType DEF Sends
  <2> QED
    BY <1>0, <2>1, <2>2, <2>3 DEF Sends, Apart, HandledTags
<1>9. CASE ThreadProbe
  <2>1. PICK i \in Id : Fresh(i, Used) /\ wire' = wire \cup {Packet(i, Probe)}
    BY <1>9 DEF ThreadProbe
  <2>2. UNCHANGED <<list, pending, handling>>
    BY <1>9 DEF ThreadProbe
  <2>3. Packet(i, Probe).tag = Probe
    BY DEF Packet
  <2> QED
    BY <1>0, <2>1, <2>2, <2>3 DEF Answers, OwnAnswer, Apart, Listed, HandledTags
<1>10. ASSUME NEW p \in wire, Lose(p) \/ \E d \in Disk : ReplyProbe(p, d)
       PROVE  KeepsLists
  BY <1>1, <1>10 DEF Lose, ReplyProbe, AfterReply
<1>11. ASSUME NEW p \in wire, ReplyTake(p)
       PROVE  KeepsLists
  <2>1. wire' \in SUBSET wire /\ pending' \in Int
    BY <1>0, <1>11 DEF ReplyTake, AfterReply, PendingAfter
  <2> QED
    BY <1>0, <1>11, <2>1, TakeRemoves, RemovesKeeps
<1>12. CASE Handler
  BY <1>1, <1>12 DEF Handler, ReplyIo, ReplySearch
<1>13. CASE ProtocolStopped
  <2>1. list' = <<>> /\ wire' = {} /\ UNCHANGED <<handling, pending>>
    BY <1>13 DEF ProtocolStopped
  <2>2. /\ <<>> \in Seq(Entry) /\ Alone(<<>>) /\ ToSet(<<>>) = {}
        /\ TagsOf(<<>>) = {}
    BY NoElements DEF Alone, TagsOf
  <2>3. Listed' = {}
    BY <2>1, <2>2, ListTags DEF Listed
  <2> QED
    BY <1>0, <2>1, <2>2, <2>3 DEF Answers, OwnAnswer, Apart
<1> QED
  BY <1>2, <1>3, <1>4, <1>5, <1>6, <1>7, <1>8, <1>9, <1>10, <1>11, <1>12, <1>13
  DEF Next, WalkSome, Network

-----------------------------------------------------------------------------
(* The count of a request follows its parts: a reply takes one from the    *)
(* list to its handler, and the handler counts it.                         *)
LEMMA FiniteParts ==
  ASSUME Lists, NEW r \in Irp
  PROVE  IsFiniteSet(OfIrp(r)) /\ IsFiniteSet(Handled(r))
<1>1. IsFiniteSet(Listed) /\ OfIrp(r) \in SUBSET Listed
  BY ListTags, FiniteTags DEF Lists, Shapes, Listed, OfIrp
<1>2. Handled(r) \in SUBSET handling /\ IsFiniteSet(handling)
  BY DEF Handled, Lists, Shapes
<1> QED
  BY <1>1, <1>2, FS_Subset

LEMMA Tallies ==
  ASSUME Lists, NEW r \in Irp
  PROVE  /\ Cardinality(OfIrp(r)) \in Nat /\ Cardinality(Handled(r)) \in Nat
         /\ Tally(r) \in Nat
BY FiniteParts, FS_CardinalityType DEF Tally

LEMMA TakeCounts ==
  ASSUME Lists, Counted, NEW p \in wire, ReplyTake(p), NEW r \in Irp
  PROVE  CountIs(r)'
<1>1. PICK e \in ToSet(list) :
        /\ Removes(e) /\ e.tag \in Tag
        /\ handling' = handling \cup {[tag |-> e.tag, answer |-> e.tag]}
  BY TakeRemoves
<1> DEFINE h == [tag |-> e.tag, answer |-> e.tag]
<1>2. UNCHANGED <<tagCount, mistaken>> /\ CountIs(r)
  BY DEF ReplyTake, requests, running, Counted
<1>3. Listed' = Listed \ {e.tag} /\ e.tag \in Listed
  <2>1. Listed = TagsOf(list)
    BY ListTags DEF Lists, Shapes, Listed
  <2>2. Listed' = Listed \ {e.tag} /\ e \in ToSet(list)
    BY <1>1 DEF Removes
  <2> QED
    BY <2>1, <2>2 DEF TagsOf
<1>4. h.tag = e.tag /\ h \notin handling
  BY <1>3 DEF Lists, Apart, HandledTags
<1>5. CASE e.tag.type = "io" /\ e.tag.of = r
  <2>1. OfIrp(r)' = OfIrp(r) \ {e.tag} /\ e.tag \in OfIrp(r)
    BY <1>3, <1>5 DEF OfIrp
  <2>2. Handled(r)' = Handled(r) \cup {h} /\ h \notin Handled(r)
    BY <1>1, <1>4, <1>5 DEF Handled
  <2>3. IsFiniteSet(OfIrp(r)) /\ IsFiniteSet(Handled(r))
    BY FiniteParts
  <2>4. Cardinality(OfIrp(r)) \in Nat /\ Cardinality(Handled(r)) \in Nat
    BY <2>3, FS_CardinalityType
  <2>5. Cardinality(OfIrp(r)') = Cardinality(OfIrp(r)) - 1
    BY <2>1, <2>3, FS_RemoveElement
  <2>6. Cardinality(Handled(r)') = Cardinality(Handled(r)) + 1
    BY <2>2, <2>3, FS_AddElement
  <2> HIDE DEF h
  <2>7. Tally(r)' = Tally(r)
    BY <2>4, <2>5, <2>6 DEF Tally
  <2> QED
    BY <1>2, <2>7 DEF CountIs
<1>6. CASE ~(e.tag.type = "io" /\ e.tag.of = r)
  <2>1. OfIrp(r)' = OfIrp(r)
    BY <1>3, <1>6 DEF OfIrp
  <2>2. Handled(r)' = Handled(r)
    BY <1>1, <1>4, <1>6 DEF Handled
  <2> QED
    BY <1>2, <2>1, <2>2 DEF CountIs, Tally
<1> QED
  BY <1>5, <1>6

LEMMA IoCounts ==
  ASSUME Lists, Counted, NEW h \in handling, ReplyIo(h), NEW r \in Irp
  PROVE  /\ CountIs(r)'
         /\ h.tag.of \in Irp /\ tagCount[h.tag.of] >= 1
<1>1. /\ h.tag.of \in Irp /\ h.tag.type = "io" /\ tagCount \in [Irp -> Nat]
      /\ \A q \in Irp : CountIs(q)
  BY DEF ReplyIo, Lists, Shapes, Tag, Counted
<1>2. /\ Listed' = Listed /\ handling' = handling \ {h}
      /\ tagCount' = [tagCount EXCEPT ![h.tag.of] = @ - 1] /\ mistaken' = mistaken
  BY DEF ReplyIo, Listed, running
<1>3. \A q \in Irp : OfIrp(q)' = OfIrp(q)
  BY <1>2 DEF OfIrp
<1>4. /\ Handled(h.tag.of)' = Handled(h.tag.of) \ {h} /\ h \in Handled(h.tag.of)
      /\ \A q \in Irp \ {h.tag.of} : Handled(q)' = Handled(q)
  BY <1>1, <1>2 DEF Handled
<1>5. \A q \in Irp : Cardinality(OfIrp(q)) \in Nat /\ Cardinality(Handled(q)) \in Nat
  BY FiniteParts, FS_CardinalityType
<1>6. /\ Cardinality(Handled(h.tag.of)') = Cardinality(Handled(h.tag.of)) - 1
      /\ Cardinality(Handled(h.tag.of)') \in Nat
  BY <1>1, <1>4, FiniteParts, FS_RemoveElement, FS_CardinalityType
<1>7. tagCount[h.tag.of] >= 1
  BY <1>1, <1>5, <1>6 DEF CountIs, Tally
<1>8. CASE r = h.tag.of
  <2>1. tagCount'[r] = tagCount[r] - 1
    BY <1>1, <1>2, <1>8
  <2>2. Cardinality(OfIrp(r)') = Cardinality(OfIrp(r))
    BY <1>3
  <2>3. Tally(r)' = Tally(r) - 1 /\ Tally(r) \in Nat
    BY <1>5, <1>6, <1>8, <2>2 DEF Tally
  <2>4. tagCount[r] \in Nat /\ mistaken' = mistaken
    BY <1>1, <1>2
  <2>5. tagCount[r] >= Tally(r) /\ (mistaken \/ tagCount[r] = Tally(r))
    BY <1>1 DEF CountIs
  <2>6. /\ tagCount'[r] >= Tally(r)'
        /\ tagCount[r] = Tally(r) => tagCount'[r] = Tally(r)'
    BY <2>1, <2>3, <2>4, <2>5
  <2>7. CountIs(r)'
    BY <2>4, <2>5, <2>6 DEF CountIs
  <2> QED
    BY <1>1, <1>7, <2>7
<1>9. CASE r # h.tag.of
  BY <1>1, <1>2, <1>3, <1>4, <1>7, <1>9 DEF CountIs, Tally
<1> QED
  BY <1>1, <1>7, <1>8, <1>9

LEMMA IoPartsCount ==
  ASSUME Lists, Sized, Counted, NEW q \in Irp, DiskIo(q), NEW r \in Irp
  PROVE  CountIs(r)'
<1> DEFINE n == Parts(q)
           T == {IoTag(q, i) : i \in 1 .. n}
           f == [i \in 1 .. n |-> IoTag(q, i)]
<1>1. n \in Nat /\ Listed' = Listed \cup T
  BY SomeParts, DiskIoAppends DEF Appends, Lists
<1>2. \A i \in 1 .. n : /\ IoTag(q, i).type = "io" /\ IoTag(q, i).of = q
                        /\ IoTag(q, i).part = i
  BY DEF IoTag
<1>3. /\ tagCount' = [tagCount EXCEPT ![q] = n] /\ UNCHANGED <<handling, mistaken>>
      /\ tagCount \in [Irp -> Nat] /\ CountIs(r)
  BY DEF DiskIo, Lists, Shapes, Counted, running
<1> HIDE DEF n
<1>4. Handled(r)' = Handled(r)
  BY <1>3 DEF Handled
<1>5. CASE r = q
  <2>1. OfIrp(q) = {} /\ Handled(q) = {}
    BY NoParts DEF DiskIo, New, Counted
  <2>2. OfIrp(q)' = T
    <3>1. \A t \in T : t.type = "io" /\ t.of = q
      BY <1>2
    <3> HIDE DEF T
    <3> QED
      BY <1>1, <2>1, <3>1 DEF OfIrp
  <2>3. Cardinality(T) = n
    <3>1. IsFiniteSet(1 .. n) /\ Cardinality(1 .. n) = n
      BY <1>1, FS_Interval
    <3>2. f \in [1 .. n -> T]
      OBVIOUS
    <3>3. \A x, y \in 1 .. n : f[x] = f[y] => x = y
      BY <1>2
    <3>4. \A t \in T : \E x \in 1 .. n : f[x] = t
      OBVIOUS
    <3> HIDE DEF f, T
    <3> QED
      BY <3>1, <3>2, <3>3, <3>4, SameCount
  <2>4. Cardinality(Handled(r)') = 0
    BY <1>4, <1>5, <2>1, FS_EmptySet
  <2> QED
    BY <1>1, <1>3, <1>5, <2>2, <2>3, <2>4 DEF CountIs, Tally
<1>6. CASE r # q
  <2>1. OfIrp(r)' = OfIrp(r)
    <3>1. \A t \in T : t.of # r
      BY <1>2, <1>6
    <3> HIDE DEF T
    <3> QED
      BY <1>1, <3>1 DEF OfIrp
  <2> QED
    BY <1>3, <1>4, <1>6, <2>1 DEF CountIs, Tally
<1> QED
  BY <1>5, <1>6

KeepsCounts ==
  /\ Counted'
  /\ tagCount' \in [Irp -> Nat] /\ completions' \in [Irp -> Nat]
  /\ accepted' \in SUBSET Irp
  /\ handling' \in SUBSET [tag : Tag, answer : Tag] /\ IsFiniteSet(handling')

LEMMA CountedNext ==
  ASSUME IInv, [Next]_vars  PROVE KeepsCounts
<1> USE DEF KeepsCounts
<1>0. /\ Lists /\ Sized /\ Counted
      /\ tagCount \in [Irp -> Nat] /\ completions \in [Irp -> Nat]
      /\ accepted \in SUBSET Irp
      /\ handling \in SUBSET [tag : Tag, answer : Tag] /\ IsFiniteSet(handling)
      /\ \A r \in Irp : CountIs(r)
      /\ \A r \in Irp : r \notin accepted => tagCount[r] = 0
      /\ \A r \in Irp : tagCount[r] > 0 => completions[r] = 0
  BY DEF IInv, Lists, Shapes, Counted
<1>2. ASSUME UNCHANGED <<requests, mistaken>>,
             handling' \in SUBSET [tag : Tag, answer : Tag], IsFiniteSet(handling'),
             \A r \in Irp : OfIrp(r)' = OfIrp(r) /\ Handled(r)' = Handled(r)
      PROVE  KeepsCounts
  <2>1. \A r \in Irp : CountIs(r)'
    BY <1>0, <1>2 DEF CountIs, Tally, requests
  <2> QED
    BY <1>0, <1>2, <2>1 DEF requests, Counted
<1>3. ASSUME UNCHANGED <<requests, handling, mistaken>>, Listed' = Listed
      PROVE  KeepsCounts
  BY <1>0, <1>2, <1>3 DEF OfIrp, Handled
<1>4. CASE UNCHANGED vars
  BY <1>3, <1>4 DEF vars, running, Listed
<1>5. CASE DriverEntry \/ DriverEntryReturns \/ AoeBusAttachFdo \/ ThreadStop
           \/ Stop \/ Removed \/ CleanupAll \/ Unload \/ ThreadProbe
  BY <1>3, <1>5 DEF DriverEntry, DriverEntryReturns, AoeBusAttachFdo, ThreadStop,
                    Stop, Removed, CleanupAll, Unload, NoDisks, ThreadProbe, running, Listed
<1>6. ASSUME NEW d \in Disk, BootMount(d) \/ Mount(d) \/ SearchNic(d) \/ SearchStopped(d)
      PROVE  KeepsCounts
  BY <1>3, <1>6 DEF BootMount, Mount, Create, SearchNic, SearchStopped, running, Listed
<1>7. ASSUME NEW d \in Disk, SearchAsk(d)  PROVE KeepsCounts
  <2>1. PICK n \in Nat, goal \in Questions : Ask(d, n, goal) /\ Asked(d) = {}
    <3>1. maxSectors[d] \in Nat
      BY <1>0 DEF Lists, Shapes
    <3> QED
      BY <1>7, <3>1 DEF Questions, SearchAsk, IInv, Searches, Size, Geometry
  <2>2. Appends({SearchTag(d, n)})
    BY <1>0, <2>1, AskAppends
  <2>3. Listed' = Listed \cup {SearchTag(d, n)} /\ SearchTag(d, n).type = "search"
    BY <2>2 DEF Appends, SearchTag
  <2>4. UNCHANGED <<requests, handling, mistaken>>
    BY <2>1 DEF Ask, running
  <2> QED
    BY <1>0, <1>2, <2>3, <2>4 DEF OfIrp, Handled
<1>8. ASSUME NEW d \in Disk, SearchFinish(d)  PROVE KeepsCounts
  <2>1. UNCHANGED <<requests, handling>>
    BY <1>8 DEF SearchFinish
  <2>2. CASE UNCHANGED <<list, mistaken>>
    BY <1>3, <2>1, <2>2 DEF Listed
  <2>3. ASSUME NEW e \in ToSet(list), Removes(e), e.tag.type = "search",
               mistaken' = mistaken
        PROVE  KeepsCounts
    BY <1>0, <1>2, <2>1, <2>3 DEF Removes, OfIrp, Handled
  <2>4. ASSUME NEW e \in ToSet(list), Removes(e), mistaken'
        PROVE  KeepsCounts
    <3>1. ASSUME NEW q \in Irp  PROVE CountIs(q)'
      <4>1. Handled(q)' = Handled(q) /\ OfIrp(q)' \subseteq OfIrp(q)
        BY <2>1, <2>4 DEF Removes, OfIrp, Handled
      <4>2. /\ Cardinality(OfIrp(q)') <= Cardinality(OfIrp(q))
            /\ Cardinality(OfIrp(q)') \in Nat
        BY <1>0, <4>1, FiniteParts, FS_Subset, FS_CardinalityType
      <4>3. /\ Cardinality(OfIrp(q)) \in Nat /\ Cardinality(Handled(q)) \in Nat
            /\ tagCount[q] \in Nat
        BY <1>0, Tallies
      <4>4. tagCount'[q] = tagCount[q] /\ tagCount[q] >= Tally(q)
        BY <1>0, <2>1 DEF requests, CountIs
      <4> QED
        BY <2>4, <4>1, <4>2, <4>3, <4>4 DEF CountIs, Tally
    <3> QED
      BY <1>0, <2>1, <3>1 DEF requests, Counted
  <2> QED
    BY <1>0, <1>8, <2>2, <2>3, <2>4, FinishRemoves
<1>9. ASSUME NEW r \in Irp, DiskIoRefuse(r)  PROVE KeepsCounts
  <2>1. UNCHANGED <<list, handling, tagCount, accepted, mistaken>>
    BY <1>9 DEF DiskIoRefuse, running
  <2>2. completions' = [completions EXCEPT ![r] = @ + 1] /\ tagCount[r] = 0
    BY <1>0, <1>9 DEF DiskIoRefuse, Complete, New
  <2>3. \A q \in Irp : CountIs(q)'
    BY <1>0, <2>1 DEF CountIs, Tally, OfIrp, Handled, Listed
  <2>4. completions' \in [Irp -> Nat]
    BY <1>0, <2>2
  <2>5. \A q \in Irp : tagCount[q] > 0 => completions'[q] = 0
    BY <1>0, <2>2
  <2> QED
    BY <1>0, <2>1, <2>3, <2>4, <2>5 DEF Counted
<1>10. ASSUME NEW r \in Irp, DiskIo(r)  PROVE KeepsCounts
  <2>1. Parts(r) \in Nat \ {0}
    BY <1>0, <1>10, SomeParts DEF Lists
  <2>2. /\ tagCount' = [tagCount EXCEPT ![r] = Parts(r)] /\ completions[r] = 0
        /\ accepted' = accepted \cup {r} /\ UNCHANGED <<completions, handling>>
    BY <1>10 DEF DiskIo, New
  <2>3. \A q \in Irp : CountIs(q)'
    BY <1>0, <1>10, IoPartsCount
  <2>4. tagCount' \in [Irp -> Nat]
    BY <1>0, <2>1, <2>2
  <2>5. \A q \in Irp : tagCount'[q] > 0 => completions'[q] = 0
    BY <1>0, <2>1, <2>2
  <2>6. \A q \in Irp : q \notin accepted' => tagCount'[q] = 0
    BY <1>0, <2>1, <2>2
  <2> QED
    BY <1>0, <2>2, <2>3, <2>4, <2>5, <2>6 DEF Counted
<1>11. ASSUME NEW due, NEW refused, ThreadWalk(due, refused)  PROVE KeepsCounts
  <2>1. Listed' = Listed
    BY <1>0, <1>11, WalkSends DEF Sends
  <2> QED
    BY <1>3, <1>11, <2>1 DEF ThreadWalk, running
<1>12. ASSUME NEW p \in wire, Lose(p) \/ \E d \in Disk : ReplyProbe(p, d)
       PROVE  KeepsCounts
  BY <1>3, <1>12 DEF Lose, ReplyProbe, running, Listed
<1>13. ASSUME NEW p \in wire, ReplyTake(p)  PROVE KeepsCounts
  <2>1. PICK e \in ToSet(list) :
          e.tag \in Tag /\ handling' = handling \cup {[tag |-> e.tag, answer |-> e.tag]}
    BY <1>0, <1>13, TakeRemoves
  <2>2. \A q \in Irp : CountIs(q)'
    BY <1>0, <1>13, TakeCounts
  <2>3. UNCHANGED requests
    BY <1>13 DEF ReplyTake
  <2>4. handling' \in SUBSET [tag : Tag, answer : Tag] /\ IsFiniteSet(handling')
    <3> DEFINE h == [tag |-> e.tag, answer |-> e.tag]
    <3>1. handling' = handling \cup {h} /\ h \in [tag : Tag, answer : Tag]
      BY <2>1
    <3> HIDE DEF h
    <3> QED
      BY <1>0, <3>1, FS_AddElement
  <2> QED
    BY <1>0, <2>2, <2>3, <2>4 DEF Counted, requests
<1>14. ASSUME NEW h \in handling, ReplyIo(h)  PROVE KeepsCounts
  <2> DEFINE r == h.tag.of
  <2>1. \A q \in Irp : CountIs(q)'
    BY <1>0, <1>14, IoCounts
  <2>2. r \in Irp /\ tagCount[r] >= 1
    <3>1. r \in Irp
      BY <1>0, <1>14 DEF ReplyIo, Tag
    <3> QED
      BY <1>0, <1>14, <3>1, IoCounts
  <2>3. /\ tagCount' = [tagCount EXCEPT ![r] = @ - 1]
        /\ handling' = handling \ {h} /\ UNCHANGED accepted
        /\ IF tagCount[r] = 1 THEN completions' = [completions EXCEPT ![r] = @ + 1]
                              ELSE UNCHANGED completions
    BY <1>14 DEF ReplyIo, LastPart, Complete
  <2> HIDE DEF r
  <2>4. handling' \in SUBSET [tag : Tag, answer : Tag] /\ IsFiniteSet(handling')
    BY <1>0, <2>3, FS_RemoveElement
  <2>5. tagCount' \in [Irp -> Nat] /\ completions' \in [Irp -> Nat]
    BY <1>0, <2>2, <2>3
  <2>6. ASSUME NEW q \in Irp
        PROVE  /\ q \notin accepted' => tagCount'[q] = 0
               /\ tagCount'[q] > 0 => completions'[q] = 0
    <3>1. CASE q = r
      BY <1>0, <2>2, <2>3, <3>1
    <3>2. CASE q # r
      BY <1>0, <2>2, <2>3, <3>2
    <3> QED
      BY <3>1, <3>2
  <2> QED
    BY <1>0, <2>1, <2>3, <2>4, <2>5, <2>6 DEF Counted
<1>15. ASSUME NEW h \in handling, ReplySearch(h)  PROVE KeepsCounts
  <2>1. /\ h.tag.type = "search" /\ handling' = handling \ {h}
        /\ UNCHANGED <<list, requests, mistaken>>
    BY <1>15 DEF ReplySearch, running
  <2>2. IsFiniteSet(handling')
    BY <1>0, <2>1, FS_RemoveElement
  <2>3. \A q \in Irp : OfIrp(q)' = OfIrp(q) /\ Handled(q)' = Handled(q)
    BY <2>1 DEF OfIrp, Handled, Listed
  <2> QED
    BY <1>0, <1>2, <2>1, <2>2, <2>3
<1>16. CASE ProtocolStopped
  <2>1. /\ handling = {} /\ list' = <<>> /\ UNCHANGED <<handling, accepted, mistaken>>
        /\ tagCount' = [r \in Irp |-> IF r \in Cancelled THEN 0 ELSE tagCount[r]]
        /\ completions' = [r \in Irp |-> IF r \in Cancelled THEN completions[r] + 1
                                                            ELSE completions[r]]
    BY <1>16 DEF ProtocolStopped
  <2>2. ASSUME NEW r \in Irp  PROVE CountIs(r)'
    <3>1. Handled(r) = {} /\ Handled(r)' = {}
      BY <2>1 DEF Handled
    <3>2. OfIrp(r)' = {}
      <4>1. Listed' = {}
        BY <2>1, NoElements, ListTags, EmptySeq DEF Listed
      <4> QED
        BY <4>1 DEF OfIrp
    <3>3. Cardinality({}) = 0
      BY FS_EmptySet
    <3>4. Cardinality(OfIrp(r)) \in Nat /\ tagCount[r] \in Nat /\ tagCount'[r] \in Nat
      BY <1>0, <2>1, Tallies
    <3>5. mistaken \/ tagCount[r] = Cardinality(OfIrp(r))
      BY <1>0, <3>1, <3>3, <3>4 DEF CountIs, Tally
    <3>6. mistaken \/ tagCount'[r] = 0
      BY <1>0, <2>1, <3>4, <3>5 DEF Cancelled
    <3>7. Tally(r)' = 0
      BY <3>1, <3>2, <3>3 DEF Tally
    <3> QED
      BY <2>1, <3>4, <3>6, <3>7 DEF CountIs
  <2>3. /\ tagCount' \in [Irp -> Nat] /\ completions' \in [Irp -> Nat]
        /\ \A r \in Irp : tagCount'[r] \in {0, tagCount[r]}
        /\ \A r \in Irp : tagCount'[r] > 0 => completions'[r] = completions[r]
    BY <1>0, <2>1
  <2> QED
    BY <1>0, <2>1, <2>2, <2>3 DEF Counted
<1> QED
  BY <1>4, <1>5, <1>6, <1>7, <1>8, <1>9, <1>10, <1>11, <1>12, <1>13, <1>14, <1>15,
     <1>16
  DEF Next, WalkSome, Network, Handler, Search

-----------------------------------------------------------------------------
(* The search of a disk asks one question at a time and tries one sector   *)
(* more than was answered.                                                 *)
SearchShapes ==
  /\ disk \in [Disk -> {"none", "searching", "ready", "deleted"}]
  /\ search \in [Disk -> Early \cup {"GetMaxSects", "GettingMaxSects", "Done"}]
  /\ maxSectors \in [Disk -> Nat] /\ proven \in [Disk -> Nat]

KeepsSearch == Searches' /\ Sized' /\ SearchShapes'

(* What was asked of a disk: nothing new unless the search asks.           *)
LEMMA NothingAsked ==
  ASSUME Listed' \cup HandledTags' \subseteq Listed \cup HandledTags, NEW d \in Disk
  PROVE  Asked(d)' \subseteq Asked(d)
BY DEF Asked

LEMMA AskKeeps ==
  ASSUME Lists, Searches, Sized, SearchShapes, NEW d \in Disk, SearchAsk(d)
  PROVE  KeepsSearch
<1>1. disk[d] = "searching" /\ maxSectors[d] \in Nat
  BY DEF SearchAsk, SearchShapes
<1>2. PICK n \in Nat, goal \in Questions :
        /\ Ask(d, n, goal) /\ Asked(d) = {}
        /\ \/ /\ search[d] \in {"SearchNic", "GetSize"} /\ goal = "GettingSize"
              /\ n = Size /\ UNCHANGED maxSectors
           \/ /\ search[d] = "GetGeometry" /\ goal = "GettingGeometry"
              /\ n = Geometry /\ UNCHANGED maxSectors
           \/ /\ search[d] = "GetMaxSects" /\ goal = "GettingMaxSects"
              /\ n = maxSectors[d] + 1
              /\ maxSectors' = [maxSectors EXCEPT ![d] = @ + 1]
  BY <1>1 DEF Questions, SearchAsk, Searches, Size, Geometry
<1>3. Listed' = Listed \cup {SearchTag(d, n)} /\ HandledTags' = HandledTags
  BY <1>2, AskAppends DEF Appends, Ask, HandledTags
<1>4. search' = [search EXCEPT ![d] = goal] /\ UNCHANGED <<disk, proven>>
  BY <1>2 DEF Ask
<1>5. SearchTag(d, n).type = "search" /\ SearchTag(d, n).of = d
  BY DEF SearchTag
<1>6. Asked(d)' = {SearchTag(d, n)}
  BY <1>2, <1>3, <1>5 DEF Asked
<1>7. \A x \in Disk \ {d} : Asked(x)' = Asked(x)
  BY <1>3, <1>5 DEF Asked
<1>8. /\ search'[d] = goal /\ \A x \in Disk \ {d} : search'[x] = search[x]
      /\ \A x \in Disk \ {d} : maxSectors'[x] = maxSectors[x]
      /\ maxSectors' \in [Disk -> Nat]
      /\ goal = "GettingMaxSects" => maxSectors'[d] = maxSectors[d] + 1
      /\ goal # "GettingMaxSects" => maxSectors'[d] = maxSectors[d]
  BY <1>2, <1>4 DEF SearchShapes
<1>9. Searches'
  <2> SUFFICES ASSUME NEW x \in Disk
               PROVE  /\ search'[x] \in {"SearchNic", "GetSize", "GetGeometry",
                                         "GetMaxSects"} => Asked(x)' = {}
                      /\ search'[x] = "GettingSize" =>
                           Asked(x)' \subseteq {SearchTag(x, Size)}
                      /\ search'[x] = "GettingGeometry" =>
                           Asked(x)' \subseteq {SearchTag(x, Geometry)}
                      /\ search'[x] = "GettingMaxSects" =>
                           Asked(x)' \subseteq {SearchTag(x, maxSectors'[x])}
    BY DEF Searches
  <2>1. CASE x = d
    BY <1>2, <1>6, <1>8, <2>1
  <2>2. CASE x # d
    BY <1>7, <1>8, <2>2 DEF Searches
  <2> QED
    BY <2>1, <2>2
<1>10. Sized'
  <2> SUFFICES ASSUME NEW x \in Disk
               PROVE  /\ disk[x] = "none" => search'[x] = "SearchNic" /\ proven[x] = 0
                      /\ disk[x] = "ready" => search'[x] = "Done"
                      /\ search'[x] \in Early => proven[x] = 0
                      /\ disk[x] # "none" /\ search'[x] \in Early => maxSectors'[x] = 1
                      /\ search'[x] \in {"GetMaxSects", "Done"} =>
                           proven[x] >= 1 /\ maxSectors'[x] = proven[x]
                      /\ search'[x] = "GettingMaxSects" =>
                           proven[x] >= 1 /\ maxSectors'[x] = proven[x] + 1
    BY <1>4 DEF Sized
  <2>1. CASE x = d
    BY <1>1, <1>2, <1>8, <2>1 DEF Sized, Early
  <2>2. CASE x # d
    BY <1>8, <2>2 DEF Sized
  <2> QED
    BY <2>1, <2>2
<1>11. SearchShapes'
  BY <1>2, <1>4, <1>8 DEF SearchShapes, Early
<1> QED
  BY <1>9, <1>10, <1>11 DEF KeepsSearch

(* The answer to the question which is asked.                              *)
LEMMA LearnedKeeps ==
  ASSUME Lists, Searches, Sized, SearchShapes, NEW h \in handling, ReplySearch(h)
  PROVE  KeepsSearch
<1> DEFINE d == h.tag.of
<1>1. /\ d \in Disk /\ h.tag.type = "search" /\ h.tag \in Tag /\ h.answer = h.tag
      /\ h.tag \in Asked(d)
  BY DEF ReplySearch, Lists, Shapes, Tag, Answers, OwnAnswer, Asked, HandledTags
<1>2. Learned(d, h.tag.part) /\ UNCHANGED <<list, disk>> /\ handling' = handling \ {h}
  BY <1>1 DEF ReplySearch
<1>3. HandledTags' = HandledTags \ {h.tag} /\ h.tag \notin Listed /\ Listed' = Listed
  <2>1. \A g \in handling : g = [tag |-> g.tag, answer |-> g.tag]
    BY DEF Lists, Shapes, Answers, OwnAnswer
  <2>2. \A g \in handling : g.tag = h.tag => g = h
    BY <2>1
  <2>3. HandledTags' = HandledTags \ {h.tag}
    BY <2>2, <1>2 DEF HandledTags
  <2>4. h.tag \notin Listed
    BY DEF Lists, Apart, HandledTags
  <2> QED
    BY <2>3, <2>4, <1>2 DEF Listed
<1>4. Asked(d)' = Asked(d) \ {h.tag} /\ \A x \in Disk : Asked(x)' \subseteq Asked(x)
  BY <1>3 DEF Asked
<1>5. /\ search[d] = "GettingSize" => Asked(d)' = {}
      /\ search[d] = "GettingGeometry" => Asked(d)' = {} /\ h.tag.part = 1
      /\ search[d] = "GettingMaxSects" => Asked(d)' = {} /\ h.tag.part = maxSectors[d]
  BY <1>1, <1>4 DEF Searches, SearchTag, Geometry
<1> DEFINE n == h.tag.part
<1>6. n \in Nat
  BY <1>1 DEF Tag
<1> HIDE DEF n, d
<1>7. \/ UNCHANGED <<search, maxSectors, proven>>
      \/ /\ search[d] = "GettingSize" /\ UNCHANGED <<maxSectors, proven>>
         /\ search' = [search EXCEPT ![d] = "GetGeometry"]
      \/ /\ search[d] = "GettingGeometry" /\ UNCHANGED maxSectors
         /\ search' = [search EXCEPT ![d] = "GetMaxSects"]
         /\ proven' = [proven EXCEPT ![d] = IF n > @ THEN n ELSE @]
      \/ /\ search[d] = "GettingMaxSects" /\ UNCHANGED proven
         /\ search' = [search EXCEPT ![d] = "Done"]
         /\ maxSectors' = [maxSectors EXCEPT ![d] = @ - 1]
      \/ /\ search[d] = "GettingMaxSects" /\ UNCHANGED maxSectors
         /\ \E goal \in {"Done", "GetMaxSects"} : search' = [search EXCEPT ![d] = goal]
         /\ proven' = [proven EXCEPT ![d] = IF n > @ THEN n ELSE @]
  BY <1>2 DEF Learned, Learn, n, d
<1>8. /\ \A x \in Disk \ {d} : /\ search'[x] = search[x]
                               /\ maxSectors'[x] = maxSectors[x]
                               /\ proven'[x] = proven[x]
      /\ d \in Disk
  BY <1>1, <1>7 DEF SearchShapes, d
<1>9. \/ /\ search'[d] = search[d] /\ maxSectors'[d] = maxSectors[d]
         /\ proven'[d] = proven[d]
      \/ /\ search[d] = "GettingSize" /\ search'[d] = "GetGeometry"
         /\ maxSectors'[d] = maxSectors[d] /\ proven'[d] = proven[d]
      \/ /\ search[d] = "GettingGeometry" /\ search'[d] = "GetMaxSects"
         /\ maxSectors'[d] = 1 /\ proven'[d] = 1
      \/ /\ search[d] = "GettingMaxSects" /\ search'[d] \in {"Done", "GetMaxSects"}
         /\ maxSectors'[d] = proven'[d] /\ proven'[d] >= 1
  <2>1. CASE UNCHANGED <<search, maxSectors, proven>>
    BY <2>1
  <2>2. CASE search[d] = "GettingSize"
    BY <1>7, <1>8, <2>2 DEF SearchShapes
  <2>3. CASE search[d] = "GettingGeometry"
    <3>1. CASE UNCHANGED <<search, maxSectors, proven>>
      BY <3>1
    <3>2. CASE ~ UNCHANGED <<search, maxSectors, proven>>
      <4>1. /\ UNCHANGED maxSectors /\ search' = [search EXCEPT ![d] = "GetMaxSects"]
            /\ proven' = [proven EXCEPT ![d] = IF n > @ THEN n ELSE @]
        BY <1>7, <2>3, <3>2
      <4>2. n = 1 /\ proven[d] = 0
        BY <1>5, <1>8, <2>3 DEF n, Sized, Early
      <4>3. proven'[d] = 1 /\ search'[d] = "GetMaxSects"
        BY <1>8, <4>1, <4>2 DEF SearchShapes
      <4>4. disk[d] # "none"
        BY <1>8, <2>3 DEF Sized
      <4>5. maxSectors[d] = 1
        BY <1>8, <2>3, <4>4 DEF Sized, Early
      <4> QED
        BY <2>3, <4>1, <4>3, <4>5
    <3> QED
      BY <3>1, <3>2
  <2>4. CASE search[d] = "GettingMaxSects"
    <3>1. n = maxSectors[d] /\ proven[d] >= 1 /\ maxSectors[d] = proven[d] + 1
      BY <1>5, <1>8, <2>4 DEF n, Sized
    <3>2. proven[d] \in Nat /\ maxSectors[d] \in Nat
      BY <1>8 DEF SearchShapes
    <3>3. CASE /\ UNCHANGED proven
               /\ search' = [search EXCEPT ![d] = "Done"]
               /\ maxSectors' = [maxSectors EXCEPT ![d] = @ - 1]
      BY <1>8, <2>4, <3>1, <3>2, <3>3 DEF SearchShapes
    <3>4. CASE /\ UNCHANGED maxSectors
               /\ \E goal \in {"Done", "GetMaxSects"} : search' = [search EXCEPT ![d] = goal]
               /\ proven' = [proven EXCEPT ![d] = IF n > @ THEN n ELSE @]
      BY <1>8, <2>4, <3>1, <3>2, <3>4 DEF SearchShapes
    <3> QED
      BY <1>7, <2>1, <2>4, <3>3, <3>4
  <2> QED
    BY <1>7, <2>1, <2>2, <2>3, <2>4
<1>10. SearchShapes'
  <2>1. search' \in [Disk -> Early \cup {"GetMaxSects", "GettingMaxSects", "Done"}]
    BY <1>7 DEF SearchShapes, Early
  <2>2. proven' \in [Disk -> Nat]
    BY <1>6, <1>7 DEF SearchShapes
  <2>3. search[d] = "GettingMaxSects" => maxSectors[d] - 1 \in Nat
    BY <1>8 DEF Sized, SearchShapes
  <2>4. maxSectors' \in [Disk -> Nat]
    BY <1>7, <2>3 DEF SearchShapes
  <2> QED
    BY <1>2, <2>1, <2>2, <2>4 DEF SearchShapes
<1>11. Searches'
  <2> SUFFICES ASSUME NEW x \in Disk
               PROVE  /\ search'[x] \in {"SearchNic", "GetSize", "GetGeometry",
                                         "GetMaxSects"} => Asked(x)' = {}
                      /\ search'[x] = "GettingSize" =>
                           Asked(x)' \subseteq {SearchTag(x, Size)}
                      /\ search'[x] = "GettingGeometry" =>
                           Asked(x)' \subseteq {SearchTag(x, Geometry)}
                      /\ search'[x] = "GettingMaxSects" =>
                           Asked(x)' \subseteq {SearchTag(x, maxSectors'[x])}
    BY DEF Searches
  <2>1. Asked(x)' \subseteq Asked(x)
    BY <1>4
  <2>2. CASE search'[x] = search[x] /\ maxSectors'[x] = maxSectors[x]
    BY <2>1, <2>2 DEF Searches
  <2>3. CASE x = d /\ search'[d] # search[d]
    <3>1. Asked(d)' = {}
      BY <1>5, <1>9, <2>3 DEF d
    <3> QED
      BY <2>3, <3>1
  <2> QED
    BY <1>8, <1>9, <2>2, <2>3
<1>12. Sized'
  <2> SUFFICES ASSUME NEW x \in Disk
               PROVE  /\ disk[x] = "none" => search'[x] = "SearchNic" /\ proven'[x] = 0
                      /\ disk[x] = "ready" => search'[x] = "Done"
                      /\ search'[x] \in Early => proven'[x] = 0
                      /\ disk[x] # "none" /\ search'[x] \in Early => maxSectors'[x] = 1
                      /\ search'[x] \in {"GetMaxSects", "Done"} =>
                           proven'[x] >= 1 /\ maxSectors'[x] = proven'[x]
                      /\ search'[x] = "GettingMaxSects" =>
                           proven'[x] >= 1 /\ maxSectors'[x] = proven'[x] + 1
    BY <1>2 DEF Sized
  <2>1. CASE /\ search'[x] = search[x] /\ maxSectors'[x] = maxSectors[x]
             /\ proven'[x] = proven[x]
    BY <2>1 DEF Sized
  <2>2. CASE x = d
    BY <1>8, <1>9, <2>2 DEF Sized, Early
  <2> QED
    BY <1>8, <2>1, <2>2
<1> QED
  BY <1>10, <1>11, <1>12 DEF KeepsSearch

LEMMA SearchNext ==
  ASSUME IInv, [Next]_vars  PROVE KeepsSearch
<1>0. Lists /\ Searches /\ Sized /\ SearchShapes
  BY DEF IInv, Lists, Shapes, SearchShapes
<1>1. ASSUME Listed' \cup HandledTags' \subseteq Listed \cup HandledTags,
             UNCHANGED <<disk, search, maxSectors, proven>>
      PROVE  KeepsSearch
  <2>1. \A d \in Disk : Asked(d)' \subseteq Asked(d)
    BY <1>1, NothingAsked
  <2> QED
    BY <1>0, <1>1, <2>1 DEF KeepsSearch, Searches, Sized, SearchShapes
<1>2. ASSUME UNCHANGED <<list, handling>>  PROVE Listed' = Listed /\ HandledTags' = HandledTags
  BY <1>2 DEF Listed, HandledTags
<1>3. CASE UNCHANGED vars
  BY <1>1, <1>2, <1>3 DEF vars, finding
<1>4. CASE DriverEntry \/ DriverEntryReturns \/ AoeBusAttachFdo \/ ThreadStop
           \/ Stop \/ Removed \/ CleanupAll \/ Unload \/ ThreadProbe
  BY <1>1, <1>2, <1>4 DEF DriverEntry, DriverEntryReturns, AoeBusAttachFdo, ThreadStop,
                          Stop, Removed, CleanupAll, Unload, NoDisks, ThreadProbe, finding
<1>5. ASSUME NEW d \in Disk, BootMount(d) \/ Mount(d)  PROVE KeepsSearch
  <2>1. /\ disk[d] = "none" /\ disk' = [disk EXCEPT ![d] = "searching"]
        /\ search' = [search EXCEPT ![d] = "SearchNic"]
        /\ maxSectors' = [maxSectors EXCEPT ![d] = 1] /\ UNCHANGED <<list, handling, proven>>
    BY <1>5 DEF BootMount, Mount, Create
  <2>2. search[d] = "SearchNic" /\ proven[d] = 0 /\ UNCHANGED search
    BY <1>0, <2>1 DEF Sized, SearchShapes
  <2>3. \A x \in Disk : Asked(x)' \subseteq Asked(x)
    BY <1>2, <2>1, NothingAsked
  <2>4. /\ disk'[d] = "searching" /\ maxSectors'[d] = 1
        /\ \A x \in Disk \ {d} : disk'[x] = disk[x] /\ maxSectors'[x] = maxSectors[x]
    BY <1>0, <2>1 DEF SearchShapes
  <2>5. Searches'
    BY <1>0, <2>2, <2>3, <2>4 DEF Searches
  <2>6. Sized'
    BY <1>0, <2>1, <2>2, <2>4 DEF Sized, Early
  <2>7. SearchShapes'
    BY <1>0, <2>1, <2>2 DEF SearchShapes
  <2> QED
    BY <2>5, <2>6, <2>7 DEF KeepsSearch
<1>6. ASSUME NEW d \in Disk, SearchNic(d)  PROVE KeepsSearch
  <2>1. /\ disk[d] = "searching" /\ search[d] = "SearchNic"
        /\ search' = [search EXCEPT ![d] = "GetSize"]
        /\ UNCHANGED <<list, handling, disk, maxSectors, proven>>
    BY <1>6 DEF SearchNic
  <2>2. /\ search'[d] = "GetSize" /\ \A x \in Disk \ {d} : search'[x] = search[x]
    BY <1>0, <2>1 DEF SearchShapes
  <2>3. \A x \in Disk : Asked(x)' = Asked(x)
    BY <1>2, <2>1 DEF Asked
  <2>4. Searches'
    BY <1>0, <2>1, <2>2, <2>3 DEF Searches
  <2>5. Sized'
    BY <1>0, <2>1, <2>2 DEF Sized, Early
  <2>6. SearchShapes'
    BY <1>0, <2>1 DEF SearchShapes, Early
  <2> QED
    BY <2>4, <2>5, <2>6 DEF KeepsSearch
<1>7. ASSUME NEW d \in Disk, SearchAsk(d)  PROVE KeepsSearch
  BY <1>0, <1>7, AskKeeps
<1>8. ASSUME NEW d \in Disk, SearchFinish(d)  PROVE KeepsSearch
  <2>1. /\ disk[d] = "searching" /\ search[d] \in {"GettingMaxSects", "Done"}
        /\ maxSectors' = [maxSectors EXCEPT ![d] = SizeAfterTimeout(d)]
        /\ search' = [search EXCEPT ![d] = "Done"]
        /\ disk' = [disk EXCEPT ![d] = "ready"]
        /\ UNCHANGED <<handling, proven>>
    BY <1>8 DEF SearchFinish
  <2>2. SizeAfterTimeout(d) = proven[d] /\ proven[d] >= 1 /\ proven[d] \in Nat
    BY <1>0, <2>1 DEF SizeAfterTimeout, Sized, SearchShapes
  <2>3. Listed' \cup HandledTags' \subseteq Listed \cup HandledTags
    <3>1. Listed' \subseteq Listed
      BY <1>0, <1>8, FinishRemoves DEF Removes, Listed
    <3> QED
      BY <3>1, <2>1 DEF HandledTags
  <2>4. \A x \in Disk : Asked(x)' \subseteq Asked(x)
    BY <2>3, NothingAsked
  <2>5. /\ search'[d] = "Done" /\ disk'[d] = "ready" /\ maxSectors'[d] = proven[d]
        /\ \A x \in Disk \ {d} : /\ search'[x] = search[x] /\ disk'[x] = disk[x]
                                 /\ maxSectors'[x] = maxSectors[x]
    BY <1>0, <2>1, <2>2 DEF SearchShapes
  <2>6. Searches'
    BY <1>0, <2>4, <2>5 DEF Searches
  <2>7. Sized'
    BY <1>0, <2>1, <2>2, <2>5 DEF Sized, Early
  <2>8. SearchShapes'
    BY <1>0, <2>1, <2>2 DEF SearchShapes
  <2> QED
    BY <2>6, <2>7, <2>8 DEF KeepsSearch
<1>9. ASSUME NEW d \in Disk, SearchStopped(d)  PROVE KeepsSearch
  <2>1. /\ disk[d] = "searching" /\ disk' = [disk EXCEPT ![d] = "deleted"]
        /\ UNCHANGED <<list, handling, search, maxSectors, proven>>
    BY <1>9 DEF SearchStopped
  <2>2. \A x \in Disk : Asked(x)' = Asked(x)
    BY <1>2, <2>1 DEF Asked
  <2>3. disk'[d] = "deleted" /\ \A x \in Disk \ {d} : disk'[x] = disk[x]
    BY <1>0, <2>1 DEF SearchShapes
  <2>4. Searches'
    BY <1>0, <2>1, <2>2 DEF Searches
  <2>5. Sized'
    BY <1>0, <2>1, <2>3 DEF Sized
  <2>6. SearchShapes'
    BY <1>0, <2>1 DEF SearchShapes
  <2> QED
    BY <2>4, <2>5, <2>6 DEF KeepsSearch
<1>10. ASSUME NEW r \in Irp, DiskIoRefuse(r)  PROVE KeepsSearch
  BY <1>1, <1>2, <1>10 DEF DiskIoRefuse, finding
<1>11. ASSUME NEW r \in Irp, DiskIo(r)  PROVE KeepsSearch
  <2>1. /\ Listed' = Listed \cup {IoTag(r, i) : i \in 1 .. Parts(r)}
        /\ UNCHANGED <<handling, disk, search, maxSectors, proven>>
    BY <1>0, <1>11, DiskIoAppends DEF Appends, IInv, DiskIo, finding
  <2>2. \A d \in Disk : Asked(d)' = Asked(d)
    BY <2>1 DEF Asked, IoTag, HandledTags
  <2> QED
    BY <1>0, <2>1, <2>2 DEF KeepsSearch, Searches, Sized, SearchShapes
<1>12. ASSUME NEW due, NEW refused, ThreadWalk(due, refused)  PROVE KeepsSearch
  <2>1. Listed' = Listed
    BY <1>0, <1>12, WalkSends DEF Sends
  <2>2. HandledTags' = HandledTags /\ UNCHANGED finding
    BY <1>12 DEF ThreadWalk, HandledTags
  <2> QED
    BY <1>1, <2>1, <2>2 DEF finding
<1>13. ASSUME NEW p \in wire, Lose(p) \/ \E d \in Disk : ReplyProbe(p, d)
       PROVE  KeepsSearch
  BY <1>1, <1>2, <1>13 DEF Lose, ReplyProbe, finding
<1>14. ASSUME NEW p \in wire, ReplyTake(p)  PROVE KeepsSearch
  <2>1. PICK e \in ToSet(list) :
          Removes(e) /\ handling' = handling \cup {[tag |-> e.tag, answer |-> e.tag]}
    BY <1>0, <1>14, TakeRemoves
  <2>2. HandledTags' \subseteq HandledTags \cup {e.tag} /\ Listed' = Listed \ {e.tag}
    BY <2>1 DEF HandledTags, Removes
  <2>3. e.tag \in Listed
    <3>1. Listed = TagsOf(list)
      BY <1>0, ListTags DEF Lists, Shapes, Listed
    <3> QED
      BY <3>1 DEF TagsOf
  <2>4. UNCHANGED finding
    BY <1>14 DEF ReplyTake
  <2> QED
    BY <1>1, <2>2, <2>3, <2>4 DEF finding
<1>15. ASSUME NEW h \in handling, ReplyIo(h)  PROVE KeepsSearch
  <2>1. Listed' = Listed /\ HandledTags' \subseteq HandledTags /\ UNCHANGED finding
    BY <1>15 DEF ReplyIo, Listed, HandledTags
  <2> QED
    BY <1>1, <2>1 DEF finding
<1>16. ASSUME NEW h \in handling, ReplySearch(h)  PROVE KeepsSearch
  BY <1>0, <1>16, LearnedKeeps
<1>17. CASE ProtocolStopped
  <2>1. list' = <<>> /\ UNCHANGED <<handling, disk, search, maxSectors, proven>>
    BY <1>17 DEF ProtocolStopped
  <2>2. Listed' = {}
    BY <2>1 DEF Listed
  <2> QED
    BY <1>1, <2>1, <2>2 DEF HandledTags
<1> QED
  BY <1>3, <1>4, <1>5, <1>6, <1>7, <1>8, <1>9, <1>10, <1>11, <1>12, <1>13, <1>14,
     <1>15, <1>16, <1>17
  DEF Next, WalkSome, Network, Handler, Search

-----------------------------------------------------------------------------
(* A place is taken by a tag which is sent for the first time and given    *)
(* back, at the latest, with the tag.                                      *)
LEMMA StaysUnloaded ==
  ASSUME [Next]_vars, stop = "unloaded"  PROVE stop' = "unloaded"
BY DEF Next, vars, running, DriverEntry, DriverEntryReturns, AoeBusAttachFdo, NoDisks,
       BootMount, Mount, Create, Search, SearchNic, SearchAsk, Ask, SearchFinish,
       SearchStopped, DiskIoRefuse, DiskIo, WalkSome, ThreadWalk, ThreadProbe,
       ThreadStop, Network, Lose, ReplyTake, ReplyProbe, Handler, ReplyIo,
       ReplySearch, Stop, Removed, CleanupAll, Unload, ProtocolStopped

LEMMA PlacesNext ==
  ASSUME IInv, [Next]_vars  PROVE NoPlaceLost'
<1> SUFFICES ASSUME stop' # "unloaded"
             PROVE  pending' <= Cardinality(Sent')
  BY DEF NoPlaceLost
<1>0. /\ Lists /\ Sized /\ Counted /\ pending \in Int
      /\ IsFiniteSet(Sent) /\ Cardinality(Sent) \in Nat
      /\ pending <= Cardinality(Sent)
  <2>1. IsFiniteSet(Sent)
    BY ListTags, FiniteTags DEF IInv, Lists, Shapes, Sent
  <2>2. stop # "unloaded"
    BY StaysUnloaded
  <2> QED
    BY <2>1, <2>2, FS_CardinalityType DEF IInv, NoPlaceLost, Lists, Shapes
<1>1. ASSUME Sent' = Sent, UNCHANGED pending
      PROVE  pending' <= Cardinality(Sent')
  BY <1>0, <1>1
<1>2. ASSUME NEW e, Removes(e), pending' = pending - 1
      PROVE  pending' <= Cardinality(Sent')
  <2>1. Cardinality(Sent \ {e.tag}) >= Cardinality(Sent) - 1
    <3>1. Cardinality(Sent \ {e.tag}) =
            IF e.tag \in Sent THEN Cardinality(Sent) - 1 ELSE Cardinality(Sent)
      BY <1>0, FS_RemoveElement
    <3> QED
      BY <1>0, <3>1
  <2>2. /\ Sent' = Sent \ {e.tag} /\ IsFiniteSet(Sent \ {e.tag})
        /\ Cardinality(Sent \ {e.tag}) \in Nat
    BY <1>0, <1>2, FS_RemoveElement, FS_CardinalityType DEF Removes
  <2> QED
    BY <1>0, <1>2, <2>1, <2>2
<1>3. ASSUME NEW T, Sends(T)  PROVE pending' <= Cardinality(Sent')
  <2>1. Cardinality(T) \in Nat /\ IsFiniteSet(T) /\ Sent \cap T = {}
    BY <1>3, FS_CardinalityType DEF Sends
  <2>2. Cardinality(Sent \cup T) = Cardinality(Sent) + Cardinality(T)
    BY <1>0, <2>1, FS_Union, FS_EmptySet
  <2> QED
    BY <1>0, <1>3, <2>1, <2>2 DEF Sends
<1>4. CASE UNCHANGED <<list, pending>>
  BY <1>1, <1>4 DEF Sent
<1>5. ASSUME NEW d \in Disk, SearchAsk(d)  PROVE pending' <= Cardinality(Sent')
  <2>1. PICK n \in Nat, goal \in Questions : Ask(d, n, goal) /\ Asked(d) = {}
    <3>1. maxSectors[d] \in Nat
      BY <1>0 DEF Lists, Shapes
    <3> QED
      BY <1>5, <3>1 DEF Questions, SearchAsk, IInv, Searches, Size, Geometry
  <2> QED
    BY <1>0, <1>1, <2>1, AskAppends DEF Appends, Ask
<1>6. ASSUME NEW d \in Disk, SearchFinish(d)  PROVE pending' <= Cardinality(Sent')
  BY <1>0, <1>2, <1>4, <1>6, FinishRemoves
<1>7. ASSUME NEW r \in Irp, DiskIo(r)  PROVE pending' <= Cardinality(Sent')
  BY <1>0, <1>1, <1>7, DiskIoAppends DEF Appends, DiskIo
<1>8. ASSUME NEW due, NEW refused, ThreadWalk(due, refused)
      PROVE  pending' <= Cardinality(Sent')
  BY <1>0, <1>3, <1>8, WalkSends
<1>9. ASSUME NEW p \in wire, ReplyTake(p)  PROVE pending' <= Cardinality(Sent')
  BY <1>0, <1>2, <1>9, TakeRemoves DEF ReplyTake, PendingAfter
<1>10. CASE ProtocolStopped
  BY <1>10 DEF ProtocolStopped
<1> QED
  BY <1>4, <1>5, <1>6, <1>7, <1>8, <1>9, <1>10
  DEF Next, vars, DriverEntry, DriverEntryReturns, AoeBusAttachFdo, NoDisks,
      BootMount, Mount, Create, Search, SearchNic, SearchStopped, DiskIoRefuse,
      WalkSome, ThreadProbe, ThreadStop, Network, Lose, ReplyProbe, Handler,
      ReplyIo, ReplySearch, Stop, Removed, CleanupAll, Unload

-----------------------------------------------------------------------------
(* The rest of the shapes: what is on the wire.                            *)
LEMMA WireNext ==
  ASSUME IInv, [Next]_vars
  PROVE  wire' \in SUBSET [id : Id, tag : Tag \cup {Probe}]
<1>0. Lists /\ wire \in SUBSET [id : Id, tag : Tag \cup {Probe}]
  BY DEF IInv, Lists, Shapes
<1>1. CASE wire' \in SUBSET wire
  BY <1>0, <1>1
<1>2. ASSUME NEW due, NEW refused, ThreadWalk(due, refused)
      PROVE  wire' \in SUBSET [id : Id, tag : Tag \cup {Probe}]
  BY <1>0, <1>2, WalkSends
<1>3. CASE ThreadProbe
  <2>1. PICK i \in Id : wire' = wire \cup {Packet(i, Probe)}
    BY <1>3 DEF ThreadProbe
  <2>2. Packet(i, Probe) \in [id : Id, tag : Tag \cup {Probe}]
    BY DEF Packet
  <2> QED
    BY <1>0, <2>1, <2>2
<1> QED
  BY <1>1, <1>2, <1>3
  DEF Next, vars, DriverEntry, DriverEntryReturns, AoeBusAttachFdo, NoDisks,
      BootMount, Mount, Create, Search, SearchNic, SearchAsk, Ask, SearchFinish,
      SearchStopped, DiskIoRefuse, DiskIo, WalkSome, ThreadStop, Network, Lose,
      ReplyTake, ReplyProbe, AfterReply, Handler, ReplyIo, ReplySearch, Stop,
      Removed, CleanupAll, Unload,
      ProtocolStopped

LEMMA MistakenNext ==
  ASSUME IInv, [Next]_vars
  PROVE  mistaken' \in BOOLEAN
<1>1. mistaken \in BOOLEAN
  BY DEF IInv, Lists, Shapes
<1>2. ASSUME NEW d \in Disk, SearchFinish(d)  PROVE mistaken' \in BOOLEAN
  BY <1>1, <1>2 DEF SearchFinish
<1> QED
  BY <1>1, <1>2
  DEF Next, vars, running, DriverEntry, DriverEntryReturns, AoeBusAttachFdo, NoDisks,
      BootMount, Mount, Create, Search, SearchNic, SearchAsk, Ask, SearchStopped,
      DiskIoRefuse, DiskIo, WalkSome, ThreadWalk, ThreadProbe, ThreadStop, Network,
      Lose, ReplyTake, ReplyProbe, Handler, ReplyIo, ReplySearch, Stop, Removed,
      CleanupAll, Unload, ProtocolStopped

LEMMA IInvInit == Init => IInv
<1> SUFFICES ASSUME Init  PROVE IInv
  OBVIOUS
<1>1. Listed = {} /\ HandledTags = {} /\ Sent = {}
  BY DEF Init, Listed, HandledTags, Sent
<1>2. Shapes
  <2>1. mistaken \in BOOLEAN
    BY DEF Init
  <2>2. IsFiniteSet(handling)
    BY FS_EmptySet DEF Init
  <2> QED
    BY <2>1, <2>2 DEF Init, Shapes, Early
<1>3. Alone(list) /\ Answers /\ Apart
  BY <1>1, NoElements DEF Init, Alone, Answers, OwnAnswer, Apart
<1>4. Searches /\ Sized
  BY <1>1 DEF Init, Searches, Sized, Asked, Early
<1>5. Counted
  <2>1. \A r \in Irp : OfIrp(r) = {} /\ Handled(r) = {}
    BY <1>1 DEF Init, OfIrp, Handled
  <2>2. ASSUME NEW r \in Irp  PROVE CountIs(r)
    <3>1. tagCount[r] = 0
      BY DEF Init
    <3>2. Cardinality(OfIrp(r)) = 0 /\ Cardinality(Handled(r)) = 0
      BY <2>1, FS_EmptySet
    <3> QED
      BY <3>1, <3>2 DEF CountIs, Tally
  <2> QED
    BY <2>2 DEF Init, Counted
<1>6. NoPlaceLost
  BY <1>1, FS_EmptySet DEF Init, NoPlaceLost
<1> QED
  BY <1>2, <1>3, <1>4, <1>5, <1>6 DEF IInv, Lists

LEMMA IInvAlways == Spec => []IInv
<1>1. IInv /\ [Next]_vars => IInv'
  <2> SUFFICES ASSUME IInv, [Next]_vars  PROVE IInv'
    OBVIOUS
  <2>1. KeepsLists /\ KeepsCounts /\ KeepsSearch /\ NoPlaceLost'
    BY ListsNext, CountedNext, SearchNext, PlacesNext
  <2>2. wire' \in SUBSET [id : Id, tag : Tag \cup {Probe}]
    BY WireNext
  <2>3. Shapes'
    BY <2>1, <2>2, MistakenNext DEF KeepsLists, KeepsCounts, KeepsSearch, SearchShapes, Shapes
  <2> QED
    BY <2>1, <2>3 DEF KeepsLists, KeepsCounts, KeepsSearch, IInv, Lists
<1> QED
  BY <1>1, IInvInit, PTL DEF Spec

-----------------------------------------------------------------------------
(* The count of a request is right, whichever of the request, the handler  *)
(* of replies and the unloading changed it last, until a search takes the  *)
(* tag of another disk for its own; ...                                    *)
THEOREM CountStaysRight == Spec => [](mistaken \/ TagCountAccurate)
<1>1. IInv => mistaken \/ TagCountAccurate
  BY DEF IInv, Counted, CountIs, Tally, TagCountAccurate, Handled
<1> QED
  BY <1>1, IInvAlways, PTL

(* ... which takes a second disk.                                          *)
THEOREM OneDiskIsSure ==
  ASSUME NEW e, Disk = {e}
  PROVE  Spec => []~mistaken
<1>1. Init => ~mistaken
  BY DEF Init
<1>2. IInv /\ ~mistaken /\ [Next]_vars => ~mistaken'
  <2> SUFFICES ASSUME IInv, ~mistaken, [Next]_vars  PROVE ~mistaken'
    OBVIOUS
  <2>1. ASSUME NEW d \in Disk, SearchFinish(d)  PROVE ~mistaken'
    <3>1. ASSUME NEW i \in DOMAIN list  PROVE TagDisk(list[i].tag) = d
      <4>1. list[i].tag \in Tag
        <5>1. list \in Seq(Entry)
          BY DEF IInv, Lists, Shapes
        <5>2. list[i] \in Entry
          BY <5>1
        <5> QED
          BY <5>2 DEF Entry
      <4> QED
        BY <4>1, ParametersAssumption DEF Tag, TagDisk
    <3>2. Reused(d) = {}
      BY <3>1 DEF Reused
    <3> QED
      BY <2>1, <3>2 DEF SearchFinish
  <2> QED
    BY <2>1
    DEF Next, vars, running, DriverEntry, DriverEntryReturns, AoeBusAttachFdo, NoDisks,
        BootMount, Mount, Create, Search, SearchNic, SearchAsk, Ask, SearchStopped,
        DiskIoRefuse, DiskIo, WalkSome, ThreadWalk, ThreadProbe, ThreadStop, Network,
        Lose, ReplyTake, ReplyProbe, Handler, ReplyIo, ReplySearch, Stop, Removed,
        CleanupAll, Unload, ProtocolStopped
<1> QED
  BY <1>1, <1>2, IInvAlways, PTL DEF Spec

(* No place among the pending tags is lost.                                *)
THEOREM PlacesAreKept == Spec => []NoPlaceLost
BY IInvAlways, PTL DEF IInv

(* No reply is taken for the answer to another packet.                     *)
THEOREM AnswersAreOwn == Spec => []OwnAnswer
BY IInvAlways, PTL DEF IInv, Lists, Answers

(* A disk is used with a packet size which it has answered.                *)
THEOREM SizeIsProven == Spec => []ProvenSize
<1>1. IInv => ProvenSize
  BY DEF IInv, Sized, ProvenSize
<1> QED
  BY <1>1, IInvAlways, PTL

LEMMA RequestsInit == Init => Requests!Init
BY DEF Init, Requests!Init

LEMMA RequestsNext ==
  ASSUME IInv, [Next]_vars
  PROVE  [Requests!Next]_(Requests!vars)
<1> USE DEF Requests!vars, Requests!Next
<1>0. /\ Lists /\ Counted /\ tagCount \in [Irp -> Nat] /\ completions \in [Irp -> Nat]
      /\ handling \in SUBSET [tag : Tag, answer : Tag]
      /\ \A r \in Irp : tagCount[r] > 0 => completions[r] = 0
  BY DEF IInv, Lists, Shapes, Counted
<1>1. CASE UNCHANGED <<accepted, completions>>
  BY <1>1
<1>2. ASSUME NEW r \in Irp, DiskIo(r)  PROVE Requests!Accept(r)
  BY <1>2 DEF DiskIo, New, Requests!Accept
<1>3. ASSUME NEW r \in Irp, completions[r] = 0, UNCHANGED accepted, Complete(r)
      PROVE  \E R \in SUBSET Irp : Requests!Complete(R)
  <2>1. completions' = [x \in Irp |-> IF x \in {r} THEN 1 ELSE completions[x]]
    <3>1. \A x \in Irp : completions'[x] = IF x = r THEN 1 ELSE completions[x]
      BY <1>0, <1>3 DEF Complete
    <3> QED
      BY <1>0, <1>3, <3>1 DEF Complete
  <2>2. \A x \in {r} : completions[x] = 0
    BY <1>3
  <2>3. Requests!Complete({r})
    BY <1>3, <2>1, <2>2 DEF Requests!Complete
  <2>4. {r} \in SUBSET Irp
    OBVIOUS
  <2> QED
    BY <2>3, <2>4
<1>4. ASSUME NEW r \in Irp, DiskIoRefuse(r)
      PROVE  \E R \in SUBSET Irp : Requests!Complete(R)
  BY <1>3, <1>4 DEF DiskIoRefuse, New
<1>5. ASSUME NEW h \in handling, ReplyIo(h)
      PROVE  [Requests!Next]_(Requests!vars)
  <2>1. h.tag.of \in Irp
    BY <1>0, <1>5 DEF ReplyIo, Tag
  <2>2. completions[h.tag.of] = 0
    BY <1>0, <1>5, <2>1, IoCounts
  <2>3. CASE LastPart(h.tag.of)
    BY <1>3, <1>5, <2>1, <2>2, <2>3 DEF ReplyIo
  <2>4. CASE ~ LastPart(h.tag.of)
    BY <1>5, <2>4 DEF ReplyIo
  <2> QED
    BY <2>3, <2>4
<1>6. CASE ProtocolStopped
  <2>1. /\ UNCHANGED accepted
        /\ completions' = [r \in Irp |-> IF r \in Cancelled THEN completions[r] + 1
                                                            ELSE completions[r]]
    BY <1>6 DEF ProtocolStopped
  <2>2. Cancelled \in SUBSET Irp /\ \A r \in Cancelled : completions[r] = 0
    BY <1>0 DEF Cancelled
  <2>3. completions' = [r \in Irp |-> IF r \in Cancelled THEN 1 ELSE completions[r]]
    BY <2>1, <2>2
  <2>4. Requests!Complete(Cancelled)
    BY <2>1, <2>2, <2>3 DEF Requests!Complete
  <2> QED
    BY <2>2, <2>4
<1> QED
  BY <1>1, <1>2, <1>4, <1>5, <1>6
  DEF Next, vars, requests, DriverEntry, DriverEntryReturns, AoeBusAttachFdo, NoDisks,
      BootMount, Mount, Create, Search, SearchNic, SearchAsk, Ask, SearchFinish,
      SearchStopped, WalkSome, ThreadWalk, ThreadProbe, ThreadStop, Network, Lose,
      ReplyTake, ReplyProbe, Handler, ReplySearch, Stop, Removed, CleanupAll, Unload

(* Each request is accepted and completed at most once.                    *)
THEOREM RequestsServedOnce == Spec => ImplementsIrps
<1>1. IInv /\ [Next]_vars => [Requests!Next]_(Requests!vars)
  BY RequestsNext
<1> QED
  BY <1>1, RequestsInit, IInvAlways, PTL DEF Spec, ImplementsIrps, Requests!Spec

-----------------------------------------------------------------------------
(* The labels of AoeCleanup_ and what they release.                        *)
Everything == {"protocol", "tag", "packet", "Fdo", "link", "thread", "threadRef"}

LEMMA LabelPlace ==
  ASSUME NEW n \in 1 .. 6
  PROVE  From(Release[n].label) = n
<1>1. Len(Release) = 6
  BY DEF Release
<1>2. {i \in 1 .. 6 : Release[i].label = Release[n].label} = {n}
  BY DEF Release
<1>3. Min({n}) = n
  BY DEF Min
<1> QED
  BY <1>1, <1>2, <1>3 DEF From, SelectInSeq

LEMMA LabelPlaces ==
  /\ From("All") = 1 /\ From("ThreadRef") = 2 /\ From("Thread") = 3
  /\ From("Bus") = 4 /\ From("ProbeTagPacket") = 5 /\ From("ProbeTag") = 6
BY LabelPlace DEF Release

LEMMA Cleanups ==
  \A h : /\ AoeCleanup(h, "ProbeTag") = h \ {"protocol"}
         /\ AoeCleanup(h, "ProbeTagPacket") = h \ {"protocol", "tag"}
         /\ AoeCleanup(h, "Bus") = h \ {"protocol", "tag", "packet"}
         /\ AoeCleanup(h, "Thread") = h \ {"protocol", "tag", "packet", "Fdo", "link"}
         /\ AoeCleanup(h, "ThreadRef") =
              h \ {"protocol", "tag", "packet", "Fdo", "link", "thread"}
         /\ AoeCleanup(h, "All") = h \ Everything
<1> SUFFICES ASSUME NEW h
             PROVE  /\ AoeCleanup(h, "ProbeTag") = h \ {"protocol"}
                    /\ AoeCleanup(h, "ProbeTagPacket") = h \ {"protocol", "tag"}
                    /\ AoeCleanup(h, "Bus") = h \ {"protocol", "tag", "packet"}
                    /\ AoeCleanup(h, "Thread") =
                         h \ {"protocol", "tag", "packet", "Fdo", "link"}
                    /\ AoeCleanup(h, "ThreadRef") =
                         h \ {"protocol", "tag", "packet", "Fdo", "link", "thread"}
                    /\ AoeCleanup(h, "All") = h \ Everything
  OBVIOUS
<1>1. Len(Release) = 6
  BY DEF Release
<1>2. AoeCleanup(h, "ProbeTag") = h \ {"protocol"}
  BY <1>1, LabelPlaces DEF AoeCleanup, Release
<1>3. AoeCleanup(h, "ProbeTagPacket") = h \ {"protocol", "tag"}
  BY <1>1, LabelPlaces DEF AoeCleanup, Release
<1>4. AoeCleanup(h, "Bus") = h \ {"protocol", "tag", "packet"}
  BY <1>1, LabelPlaces DEF AoeCleanup, Release
<1>5. AoeCleanup(h, "Thread") = h \ {"protocol", "tag", "packet", "Fdo", "link"}
  BY <1>1, LabelPlaces DEF AoeCleanup, Release
<1>6. AoeCleanup(h, "ThreadRef") =
        h \ {"protocol", "tag", "packet", "Fdo", "link", "thread"}
  BY <1>1, LabelPlaces DEF AoeCleanup, Release
<1>7. AoeCleanup(h, "All") = h \ Everything
  BY <1>1, LabelPlaces DEF AoeCleanup, Release, Everything
<1> QED
  BY <1>2, <1>3, <1>4, <1>5, <1>6, <1>7

LEMMA Ends ==
  \A h : Done(h).ok /\ Done(h).held = h /\ ~ Fails(h).ok /\ Fails(h).held = h
BY DEF Done, Fails

(* What the start can end with: all that is to be held; or nothing but the *)
(* PDO which the main bus has got.                                         *)
Ending(h) == {Done(h)} \cup {Fails(g) : g \in SUBSET {"Pdo"}}

LEMMA Rung ==
  ASSUME NEW outcomes, NEW g, NEW label,
         \A o \in outcomes :
           o = Done(g) \/ (\E f : o = Fails(f) /\ AoeCleanup(f, label) \subseteq {"Pdo"})
  PROVE  OrCleanup(outcomes, label) \subseteq Ending(g)
<1> SUFFICES ASSUME NEW o \in outcomes
             PROVE  (IF o.ok THEN o ELSE Fails(AoeCleanup(o.held, label))) \in Ending(g)
  BY DEF OrCleanup
<1>1. CASE o = Done(g)
  BY <1>1, Ends DEF Ending
<1>2. ASSUME NEW f, o = Fails(f), AoeCleanup(f, label) \subseteq {"Pdo"}
      PROVE  (IF o.ok THEN o ELSE Fails(AoeCleanup(o.held, label))) \in Ending(g)
  BY <1>2, Ends DEF Ending
<1> QED
  BY <1>1, <1>2

LEMMA Rungs ==
  /\ Protocol({}) \subseteq Ending({"protocol"})
  /\ ProbeTag({"protocol"}) \subseteq Ending({"protocol", "tag"})
  /\ ProbeTagPacket({"protocol", "tag"}) \subseteq
       Ending({"protocol", "tag", "packet"})
  /\ TheBus({"protocol", "tag", "packet"}) \subseteq
       Ending({"protocol", "tag", "packet", "Pdo", "Fdo", "link"})
  /\ TheThread({"protocol", "tag", "packet", "Pdo", "Fdo", "link"}) \subseteq
       Ending({"protocol", "tag", "packet", "Pdo", "Fdo", "link", "thread"})
  /\ ThreadRef({"protocol", "tag", "packet", "Pdo", "Fdo", "link", "thread"}) \subseteq
       Ending(Everything \cup {"Pdo"})
<1>1. ASSUME NEW h, NEW more, NEW g, h \cup more = g
      PROVE  \A o \in Tries(h, more) : o = Done(g) \/ o = Fails(h)
  BY <1>1 DEF Tries
<1>2. Protocol({}) \subseteq Ending({"protocol"})
  <2>1. {} \cup {"protocol"} = {"protocol"} /\ {} \in SUBSET {"Pdo"}
    OBVIOUS
  <2> QED
    BY <2>1 DEF Protocol, Tries, Ending
<1>3. ProbeTag({"protocol"}) \subseteq Ending({"protocol", "tag"})
  <2> DEFINE h == {"protocol"}
             g == {"protocol", "tag"}
  <2>1. h \cup {"tag"} = g /\ AoeCleanup(h, "ProbeTag") \subseteq {"Pdo"}
    BY Cleanups
  <2> HIDE DEF h, g
  <2>2. ProbeTag(h) \subseteq Ending(g)
    BY <1>1, <2>1, Rung DEF ProbeTag
  <2> QED
    BY <2>2 DEF h, g
<1>4. ProbeTagPacket({"protocol", "tag"}) \subseteq Ending({"protocol", "tag", "packet"})
  <2> DEFINE h == {"protocol", "tag"}
             g == {"protocol", "tag", "packet"}
  <2>1. h \cup {"packet"} = g /\ AoeCleanup(h, "ProbeTagPacket") \subseteq {"Pdo"}
    BY Cleanups
  <2> HIDE DEF h, g
  <2>2. ProbeTagPacket(h) \subseteq Ending(g)
    BY <1>1, <2>1, Rung DEF ProbeTagPacket
  <2> QED
    BY <2>2 DEF h, g
<1>5. TheBus({"protocol", "tag", "packet"}) \subseteq
        Ending({"protocol", "tag", "packet", "Pdo", "Fdo", "link"})
  <2> DEFINE h == {"protocol", "tag", "packet"}
             p == {"protocol", "tag", "packet", "Pdo"}
             g == {"protocol", "tag", "packet", "Pdo", "Fdo", "link"}
  <2>1. h \cup {"Pdo"} = p /\ p \cup {"Fdo", "link"} = g
    OBVIOUS
  <2>2. AoeCleanup(h, "Bus") \subseteq {"Pdo"} /\ AoeCleanup(p, "Bus") \subseteq {"Pdo"}
    BY Cleanups
  <2> HIDE DEF h, p, g
  <2>3. AoeBusCreatePdo(h) \subseteq {Fails(h), Done(p)}
    BY <2>1 DEF AoeBusCreatePdo, Tries
  <2>4. AoeBusCreate(h) \subseteq {Fails(h), Fails(p), Done(g)}
    <3>1. ASSUME NEW o \in AoeBusCreatePdo(h)
          PROVE  (IF o.ok THEN Tries(o.held, {"Fdo", "link"}) ELSE {o})
                   \subseteq {Fails(h), Fails(p), Done(g)}
      <4>1. CASE o = Fails(h)
        BY <4>1, Ends
      <4>2. CASE o = Done(p)
        BY <4>2, <2>1, Ends DEF Tries
      <4> QED
        BY <4>1, <4>2, <2>3
    <3> QED
      BY <3>1 DEF AoeBusCreate, Then
  <2>5. TheBus(h) \subseteq Ending(g)
    BY <2>2, <2>4, Rung DEF TheBus
  <2> QED
    BY <2>5 DEF h, g
<1>6. TheThread({"protocol", "tag", "packet", "Pdo", "Fdo", "link"}) \subseteq
        Ending({"protocol", "tag", "packet", "Pdo", "Fdo", "link", "thread"})
  <2> DEFINE h == {"protocol", "tag", "packet", "Pdo", "Fdo", "link"}
             g == {"protocol", "tag", "packet", "Pdo", "Fdo", "link", "thread"}
  <2>1. h \cup {"thread"} = g /\ AoeCleanup(h, "Thread") \subseteq {"Pdo"}
    BY Cleanups
  <2> HIDE DEF h, g
  <2>2. TheThread(h) \subseteq Ending(g)
    BY <1>1, <2>1, Rung DEF TheThread
  <2> QED
    BY <2>2 DEF h, g
<1>7. ThreadRef({"protocol", "tag", "packet", "Pdo", "Fdo", "link", "thread"}) \subseteq
        Ending(Everything \cup {"Pdo"})
  <2> DEFINE h == {"protocol", "tag", "packet", "Pdo", "Fdo", "link", "thread"}
             g == Everything \cup {"Pdo"}
  <2>1. h \cup {"threadRef"} = g /\ AoeCleanup(h, "ThreadRef") \subseteq {"Pdo"}
    BY Cleanups DEF Everything
  <2> HIDE DEF h, g
  <2>2. ThreadRef(h) \subseteq Ending(g)
    BY <1>1, <2>1, Rung DEF ThreadRef
  <2> QED
    BY <2>2 DEF h, g
<1> QED
  BY <1>2, <1>3, <1>4, <1>5, <1>6, <1>7

LEMMA StartOutcomes == Starts \subseteq Ending(Everything \cup {"Pdo"})
<1> DEFINE S1 == Protocol({})
           S2 == Then(S1, ProbeTag)
           S3 == Then(S2, ProbeTagPacket)
           S4 == Then(S3, TheBus)
           S5 == Then(S4, TheThread)
           S6 == Then(S5, ThreadRef)
           h1 == {"protocol"}
           h2 == {"protocol", "tag"}
           h3 == {"protocol", "tag", "packet"}
           h4 == {"protocol", "tag", "packet", "Pdo", "Fdo", "link"}
           h5 == {"protocol", "tag", "packet", "Pdo", "Fdo", "link", "thread"}
           h6 == Everything \cup {"Pdo"}
<1>1. /\ S1 \subseteq Ending(h1)
      /\ ProbeTag(h1) \subseteq Ending(h2)
      /\ ProbeTagPacket(h2) \subseteq Ending(h3)
      /\ TheBus(h3) \subseteq Ending(h4)
      /\ TheThread(h4) \subseteq Ending(h5)
      /\ ThreadRef(h5) \subseteq Ending(h6)
  BY Rungs
<1> HIDE DEF S1, h1, h2, h3, h4, h5, h6
<1>2. S2 \subseteq Ending(h2)
  BY <1>1, Ends DEF Then, Ending
<1> HIDE DEF S2
<1>3. S3 \subseteq Ending(h3)
  BY <1>1, <1>2, Ends DEF Then, Ending
<1> HIDE DEF S3
<1>4. S4 \subseteq Ending(h4)
  BY <1>1, <1>3, Ends DEF Then, Ending
<1> HIDE DEF S4
<1>5. S5 \subseteq Ending(h5)
  <2>1. ASSUME NEW o \in S4
        PROVE  (IF o.ok THEN TheThread(o.held) ELSE {o}) \subseteq Ending(h5)
    <3>1. CASE o = Done(h4)
      BY <1>1, <3>1, Ends
    <3>2. CASE o # Done(h4)
      BY <1>4, <3>2, Ends DEF Ending
    <3> QED
      BY <3>1, <3>2
  <2> QED
    BY <2>1 DEF Then
<1> HIDE DEF S5
<1>6. S6 \subseteq Ending(h6)
  BY <1>1, <1>5, Ends DEF Then, Ending
<1> QED
  BY <1>6 DEF Starts, S1, S2, S3, S4, S5, h6

LEMMA HeldNext ==
  ASSUME Held, [Next]_vars  PROVE Held'
<1>1. CASE UNCHANGED <<stop, has>>
  BY <1>1 DEF Held
<1>2. CASE DriverEntry
  <2>1. PICK o \in Starts :
          /\ has' = IF o.ok THEN o.held \cup {"aBFT"} ELSE o.held
          /\ stop' = IF o.ok THEN "no" ELSE "unloaded"
    BY <1>2 DEF DriverEntry
  <2>2. \/ has' = Everything \cup {"Pdo"} \cup {"aBFT"} /\ stop' = "no"
        \/ has' \subseteq {"Pdo"} /\ stop' = "unloaded"
    <3>1. CASE o = Done(Everything \cup {"Pdo"})
      BY <2>1, <3>1, Ends
    <3>2. CASE o # Done(Everything \cup {"Pdo"})
      <4>1. PICK f \in SUBSET {"Pdo"} : o = Fails(f)
        BY <2>1, <3>2, StartOutcomes DEF Ending
      <4> QED
        BY <2>1, <4>1, Ends
    <3> QED
      BY <3>1, <3>2
  <2> QED
    BY <2>2 DEF Held, Everything
<1>3. CASE DriverEntryReturns
  BY <1>3 DEF DriverEntryReturns, Held
<1>4. CASE AoeBusAttachFdo
  BY <1>4 DEF AoeBusAttachFdo, Held
<1>5. CASE Stop
  BY <1>5 DEF Stop, Held
<1>6. CASE Removed
  BY <1>6 DEF Removed, Held
<1>7. CASE CleanupAll
  BY <1>7 DEF CleanupAll, Held
<1>8. CASE Unload
  <2>1. /\ stop = "stopping" /\ stop' = "closing"
        /\ has' = (has \ Everything) \cup {"protocol"}
    BY <1>8, Cleanups DEF Unload
  <2>2. has' \subseteq {"protocol", "Pdo"}
    BY <2>1 DEF Held, Everything
  <2> QED
    BY <2>1, <2>2 DEF Held
<1>9. CASE ProtocolStopped
  <2>1. /\ stop = "closing" /\ stop' = "unloaded"
        /\ has' = has \ {"protocol"}
    BY <1>9, Cleanups DEF ProtocolStopped
  <2>2. has' \subseteq {"Pdo"}
    BY <2>1 DEF Held
  <2> QED
    BY <2>1, <2>2 DEF Held
<1> QED
  BY <1>1, <1>2, <1>3, <1>4, <1>5, <1>6, <1>7, <1>8, <1>9
  DEF Next, vars, running, BootMount, Mount, Create, Search, SearchNic, SearchAsk,
      Ask, SearchFinish, SearchStopped, DiskIoRefuse, DiskIo, WalkSome, ThreadWalk,
      ThreadProbe, ThreadStop, Network, Lose, ReplyTake, ReplyProbe, Handler,
      ReplyIo, ReplySearch

(* A driver which is unloaded or could not start holds nothing but the PDO *)
(* which it gave to the main bus.                                          *)
THEOREM NothingStaysHeld == Spec => []NothingHeld
<1>1. Init => Held
  BY DEF Init, Held
<1>2. Held /\ [Next]_vars => Held'
  BY HeldNext
<1>3. Held => NothingHeld
  BY DEF Held, NothingHeld
<1> QED
  BY <1>1, <1>2, <1>3, PTL DEF Spec
-----------------------------------------------------------------------------
(* The NDIS protocol which the driver sends and receives through (Protocol)*)

(* What the contexts of a protocol and the packets of its threads are.     *)
Before == {"none", "opening", "mac", "asked mac", "mtu", "asked mtu", "filter",
           "asked filter", "appending"}
After  == {"bound", "closing", "freed", "gone"}

NdisPacket ==
  {Idle} \cup
  {w \in [steps : {SendSteps, ReceiveSteps}, done : 0 .. 5, on : Context] :
     w.done <= Len(w.steps)}

NdisWalk == [at : Context \cup {Null}, must : SUBSET Context, tried : SUBSET Context,
         state : {"none", "at", "next", "over", "lost"}]

NdisTypes ==
  /\ first \in Context \cup {Null} /\ next \in [Context -> Context \cup {Null}]
  /\ binding \in [Context -> Before \cup After]
  /\ DOMAIN got = Context /\ DOMAIN mac = Context
  /\ op \in [Op -> NdisPacket]
  /\ walk \in [Op -> NdisWalk]
  /\ \A o \in Op : walk[o].state \in {"at", "next"} => walk[o].at \in Context
  /\ used \in [Context -> [Kind -> Int]]
  /\ flight \in [Context -> [send : Nat, transfer : Nat]]

(* The list is a chain without a fork, which ends, of the contexts which   *)
(* are bound; nothing leads to a context before it is appended.            *)
Linking ==
  /\ Linked = {c \in Context : binding[c] = "bound"}
  /\ \A x \in Linked : next[x] # Null =>
       /\ next[x] # first
       /\ \A y \in Linked : next[x] = next[y] => x = y
  /\ first # Null => \E x \in Linked : next[x] = Null
  /\ \A c \in Context : binding[c] \in Before =>
       next[c] = Null /\ first # c /\ \A x \in Context : next[x] # c

(* Nothing is allocated on a context which is being opened.                *)
Opening ==
  \A c \in Context :
    /\ got[c] \subseteq Bindings
    /\ "adapter" \in got[c] => binding[c] \notin {"none", "opening"}
    /\ binding[c] = "none" => got[c] = {}
    /\ binding[c] \in {"none", "opening"} =>
         /\ \A k \in Kind : used[c][k] = 0
         /\ flight[c] = [send |-> 0, transfer |-> 0]
         /\ \A o \in Op : op[o].on # c

(* A context which a broadcast must reach, and which is still bound, has   *)
(* been tried or is ahead, also of a walk on a context which is unlinked.  *)
Appended == {c \in Context : binding[c] \in After}

Ahead(o) ==
  CASE walk[o].state = "at"   -> ChainFrom(walk[o].at)
    [] walk[o].state = "next" -> ChainFrom(next[walk[o].at])
    [] OTHER                  -> {}

Tried(o, c) == \E d \in walk[o].tried : mac[d] = mac[c]

Reaching(o) ==
  walk[o].state \in {"at", "next", "over"} =>
    /\ walk[o].must \subseteq Appended /\ walk[o].tried \subseteq Appended
    /\ \A c \in walk[o].must \cap Linked : c \in Ahead(o) \/ Tried(o, c)

NdisInv == /\ NdisTypes /\ Linking /\ Opening /\ PoolsAccurate
           /\ \A o \in Op : Reaching(o)
-----------------------------------------------------------------------------
(* What is reached through links                                           *)

Links == first \in Context \cup {Null} /\ next \in [Context -> Context \cup {Null}]

(* A set which no link leaves has all that is reached from one of its      *)
(* elements.                                                               *)
LEMMA FromLeast ==
  ASSUME NEW c, NEW S \in SUBSET Context, c \in S \cup {Null}, Closed(S)
  PROVE  ChainFrom(c) \subseteq S
BY DEF ChainFrom

LEMMA FromClosed ==
  ASSUME Links, NEW c
  PROVE  /\ ChainFrom(c) \subseteq Context
         /\ \A x \in ChainFrom(c) : next[x] \in ChainFrom(c) \cup {Null}
<1>1. ChainFrom(c) \subseteq Context
  BY DEF ChainFrom
<1>2. ASSUME NEW x \in ChainFrom(c), next[x] # Null
      PROVE  next[x] \in ChainFrom(c)
  <2>1. x \in Context /\ next[x] \in Context
    BY <1>1, <1>2 DEF Links
  <2>2. ASSUME NEW S \in SUBSET Context, c \in S \cup {Null}, Closed(S)
        PROVE  next[x] \in S
    <3>1. x \in S
      BY <2>2, FromLeast
    <3> QED
      BY <2>2, <3>1, <1>2 DEF Closed
  <2> QED
    BY <2>1, <2>2 DEF ChainFrom
<1> QED
  BY <1>1, <1>2

(* From a context, itself and what its link leads to; from NULL, nothing.  *)
LEMMA FromParts ==
  ASSUME Links
  PROVE  /\ ChainFrom(Null) = {}
         /\ \A c \in Context : /\ c \in ChainFrom(c)
                               /\ ChainFrom(c) \subseteq {c} \cup ChainFrom(next[c])
<1>1. ChainFrom(Null) \subseteq {}
  <2>1. Closed({}) /\ {} \in SUBSET Context
    BY DEF Closed
  <2> QED
    BY <2>1, FromLeast
<1>2. ASSUME NEW c \in Context  PROVE c \in ChainFrom(c)
  BY PoolAssumption DEF ChainFrom
<1>3. ASSUME NEW c \in Context  PROVE ChainFrom(c) \subseteq {c} \cup ChainFrom(next[c])
  <2> DEFINE S == {c} \cup ChainFrom(next[c])
  <2>1. next[c] \in ChainFrom(next[c]) \cup {Null}
    BY <1>2 DEF Links
  <2>2. S \in SUBSET Context /\ Closed(S)
    BY <2>1, FromClosed DEF Closed
  <2> HIDE DEF S
  <2>3. c \in S
    BY DEF S
  <2>4. ChainFrom(c) \subseteq S
    BY <2>2, <2>3, FromLeast
  <2> QED
    BY <2>4 DEF S
<1> QED
  BY <1>1, <1>2, <1>3

(* Protocol_SearchNIC and the like find a context of the address in the    *)
(* list when there is one: the walk from the head meets one first.         *)
LEMMA LookupFinds ==
  ASSUME Links, NEW m
  PROVE  IF \E c \in Linked : mac[c] = m
         THEN Lookup(m) \in Linked /\ mac[Lookup(m)] = m
         ELSE Lookup(m) = Null
<1> DEFINE those == {c \in Linked : mac[c] = m}
<1>1. CASE those = {}
  BY <1>1 DEF Lookup
<1>2. CASE those # {}
  <2> DEFINE S == {x \in Linked : those \subseteq ChainFrom(x)}
  <2>1. Linked \subseteq Context
    BY FromClosed DEF Linked
  <2>2. \E c \in those : those \subseteq ChainFrom(c)
    <3> SUFFICES ASSUME \A c \in those : ~(those \subseteq ChainFrom(c))
                 PROVE  FALSE
      OBVIOUS
    <3>1. first \in Context /\ first \in S
      <4>1. first # Null
        BY <1>2, FromParts DEF Linked
      <4>2. first \in Context
        BY <4>1 DEF Links
      <4> QED
        BY <4>2, FromParts DEF Linked
    <3>2. ASSUME NEW x \in S  PROVE next[x] \in S
      <4>1. x \in Context /\ x \notin those
        BY <2>1
      <4>2. those \subseteq ChainFrom(next[x])
        BY <4>1, FromParts
      <4>3. next[x] # Null
        BY <4>2, <1>2, FromParts
      <4>4. next[x] \in Linked
        BY <4>3, FromClosed DEF Linked
      <4> QED
        BY <4>2, <4>4
    <3>3. S \in SUBSET Context /\ Closed(S)
      BY <2>1, <3>2 DEF Closed
    <3> HIDE DEF S
    <3>4. Linked \subseteq S
      BY <3>1, <3>3, FromLeast DEF Linked
    <3>5. those \subseteq S
      BY <3>4
    <3> QED
      BY <3>5, <1>2 DEF S
  <2>3. Lookup(m) \in those
    BY <1>2, <2>2 DEF Lookup
  <2> QED
    BY <2>3
<1> QED
  BY <1>1, <1>2

(* The same of the links before and after a step.                          *)
FromFacts ==
  Links =>
    /\ ChainFrom(Null) = {}
    /\ \A c : /\ ChainFrom(c) \subseteq Context
              /\ \A x \in ChainFrom(c) : next[x] \in ChainFrom(c) \cup {Null}
    /\ \A c \in Context : /\ c \in ChainFrom(c)
                          /\ ChainFrom(c) \subseteq {c} \cup ChainFrom(next[c])

LEMMA FromKnown == FromFacts
BY FromClosed, FromParts DEF FromFacts

LEMMA FromKnownNext == FromFacts'
BY FromKnown, PTL

-----------------------------------------------------------------------------
(* The list                                                                *)

(* What a walk has ahead of it stays ahead unless it is unlinked, whether  *)
(* the walk is on a context or between two, and stays what it was.         *)
LinksKept ==
  /\ \A a \in Context : ChainFrom(a) \cap Linked' \subseteq ChainFrom(a)'
  /\ \A a \in Context :
       ChainFrom(next[a]) \cap Linked' \subseteq ChainFrom(next[a])'
  /\ Linked' \cap Appended \subseteq Linked

LEMMA SameLinks ==
  ASSUME UNCHANGED <<first, next>>
  PROVE  Linked' = Linked /\ LinksKept
<1>1. \A a : ChainFrom(a)' = ChainFrom(a)
  BY DEF ChainFrom, Closed
<1>2. Linked' = Linked
  BY DEF Linked, ChainFrom, Closed
<1>3. \A a \in Context : ChainFrom(next[a])' = ChainFrom(next[a])
  BY DEF ChainFrom, Closed
<1> QED
  BY <1>1, <1>2, <1>3 DEF LinksKept

(* The context which is appended is the new end.                           *)
LEMMA AppendLinks ==
  ASSUME NdisTypes, Linking,
         NEW c \in Context, AppendContext(c)
  PROVE  /\ Linking' /\ LinksKept
         /\ Linked' = Linked \cup {c}
<1>1. Links /\ Links'
  BY DEF NdisTypes, Links, AppendContext
<1>2. /\ binding[c] = "appending" /\ binding' = [binding EXCEPT ![c] = "bound"]
      /\ next[c] = Null /\ first # c /\ \A x \in Context : next[x] # c
      /\ c \notin Linked
  BY DEF AppendContext, Linking, Before
<1>3. Linked \subseteq Context /\ Linked' \subseteq Context
  BY <1>1, FromKnown, FromKnownNext DEF FromFacts, Linked
<1>4. CASE first = Null
  <2>1. first' = c /\ next' = next
    BY <1>4 DEF AppendContext
  <2>2. Linked = {}
    BY <1>1, <1>4, FromParts DEF Linked
  <2>3. /\ \A a : ChainFrom(a)' = ChainFrom(a)
        /\ \A a \in Context : ChainFrom(next[a])' = ChainFrom(next[a])
        /\ Linked' = ChainFrom(c)
    BY <2>1 DEF ChainFrom, Closed, Linked
  <2>4. ChainFrom(c) = {c}
    BY <1>1, <1>2, FromParts
  <2>5. Linked' = Linked \cup {c}
    BY <2>2, <2>3, <2>4
  <2>6. LinksKept
    BY <1>2, <2>2, <2>3, <2>5 DEF LinksKept, Appended, After
  <2>7. Linking'
    <3>1. /\ \A x \in Context : binding'[x] = IF x = c THEN "bound" ELSE binding[x]
          /\ Linked' = {c} /\ next'[c] = Null /\ first' = c /\ next' = next
      BY <1>2, <2>1, <2>2, <2>5 DEF NdisTypes
    <3>2. Linked' = {x \in Context : binding'[x] = "bound"}
      BY <2>2, <3>1 DEF Linking
    <3>3. ASSUME NEW x \in Context, binding'[x] \in Before
          PROVE  next'[x] = Null /\ first' # x /\ \A y \in Context : next'[y] # x
      <4>1. x # c /\ binding[x] \in Before
        BY <3>1, <3>3 DEF Before
      <4> QED
        BY <3>1, <4>1 DEF Linking
    <3> QED
      BY ONLY <3>1, <3>2, <3>3 DEF Linking
  <2> QED
    BY <2>5, <2>6, <2>7
<1>5. CASE first # Null
  <2> DEFINE e == LastLinked
  <2>1. e \in Linked /\ e \in Context /\ next[e] = Null
    BY <1>3, <1>5 DEF Linking, LastLinked
  <2>2. first' = first /\ next' = [next EXCEPT ![e] = c]
    BY <1>5 DEF AppendContext
  <2> HIDE DEF e
  <2>3. /\ next'[e] = c /\ e # c
        /\ \A x \in Context : x # e => next'[x] = next[x]
    BY <1>2, <2>1, <2>2 DEF NdisTypes
  <2>4. ASSUME NEW S \in SUBSET Context, Closed(S)'
        PROVE  Closed(S)
    BY <2>1, <2>3, <2>4 DEF Closed
  <2>5. \A a : ChainFrom(a) \subseteq ChainFrom(a)'
    BY <2>4 DEF ChainFrom
  <2>6. Linked \cup {c} \subseteq Linked'
    <3>1. Linked \subseteq Linked'
      BY <2>2, <2>5 DEF Linked
    <3>2. next'[e] \in ChainFrom(first)' \cup {Null}
      BY <1>1, <2>1, <3>1, FromKnownNext DEF FromFacts, Linked
    <3> QED
      BY <3>1, <3>2, <2>3, PoolAssumption DEF Linked
  <2>7. Linked' \subseteq Linked \cup {c}
    <3> DEFINE S == Linked \cup {c}
    <3>1. \A x \in Linked : next[x] \in Linked \cup {Null}
      BY <1>1, FromClosed DEF Linked
    <3>2. S \in SUBSET Context /\ \A x \in S : next'[x] \in S \cup {Null}
      BY <1>2, <1>3, <2>1, <2>3, <3>1
    <3>3. first' \in S
      BY <1>1, <1>5, <2>2, FromParts DEF Linked, Links
    <3> HIDE DEF S
    <3>4. Linked' \subseteq S
      BY <3>2, <3>3 DEF ChainFrom, Linked, Closed
    <3> QED
      BY <3>4 DEF S
  <2>8. Linked' = Linked \cup {c}
    BY <2>6, <2>7
  <2>9. LinksKept
    <3>1. \A a \in Context : ChainFrom(next[a]) \subseteq ChainFrom(next[a])'
      <4> SUFFICES ASSUME NEW a \in Context
                   PROVE  ChainFrom(next[a]) \subseteq ChainFrom(next[a])'
        OBVIOUS
      <4>1. CASE a = e
        BY <1>1, <2>1, <4>1, FromParts
      <4>2. CASE a # e
        <5>1. next'[a] = next[a]
          BY <2>3, <4>2
        <5> QED
          BY <2>4, <5>1 DEF ChainFrom
      <4> QED
        BY <4>1, <4>2
    <3> QED
      BY <1>2, <2>5, <2>8, <3>1 DEF LinksKept, Appended, After
  <2>10. Linking'
    <3>1. \A x \in Context : binding'[x] = IF x = c THEN "bound" ELSE binding[x]
      BY <1>2 DEF NdisTypes
    <3>2. Linked' = {x \in Context : binding'[x] = "bound"}
      BY <2>8, <3>1 DEF Linking
    <3>3. next'[c] = Null
      BY <1>2, <2>3
    <3>4. ASSUME NEW x \in Context, binding'[x] \in Before
          PROVE  next'[x] = Null /\ first' # x /\ \A y \in Context : next'[y] # x
      <4>1. x # c /\ binding[x] \in Before
        BY <3>1, <3>4 DEF Before
      <4>2. x # e
        BY <2>1, <4>1 DEF Linking, Before
      <4> QED
        BY <2>2, <2>3, <4>1, <4>2 DEF Linking
    <3>5. \A x \in Linked' : next'[x] # Null =>
            /\ next'[x] # first'
            /\ \A y \in Linked' : next'[x] = next'[y] => x = y
      BY <1>2, <1>3, <2>1, <2>2, <2>3, <2>8, <3>3 DEF Linking
    <3> QED
      BY <2>8, <3>2, <3>3, <3>4, <3>5 DEF Linking
  <2> QED
    BY <2>8, <2>9, <2>10
<1> QED
  BY <1>4, <1>5

(* A context which is bound has one place in the list, and leaves it.      *)
LEMMA UnlinkLinks ==
  ASSUME NdisTypes, Linking, NEW c \in Context, Unlink(c)
  PROVE  /\ Linking' /\ LinksKept
         /\ Linked' = Linked \ {c}
<1>1. Links
  BY DEF NdisTypes, Links
<1>2. /\ Linked \subseteq Context
      /\ \A x \in Linked : next[x] \in Linked \cup {Null}
      /\ first \in Linked \cup {Null}
      /\ \A S \in SUBSET Context : first \in S \cup {Null} /\ Closed(S)
                                     => Linked \subseteq S
  BY <1>1, FromKnown, FromLeast DEF FromFacts, Linked, Links
<1>3. /\ binding[c] = "bound" /\ binding' = [binding EXCEPT ![c] = "closing"]
      /\ c \in Linked /\ first # Null /\ first \in Linked
  <2>1. binding[c] = "bound" /\ c \in Linked
    BY DEF Unlink, Linking
  <2>2. first # Null
    BY <1>1, <2>1, FromKnown DEF FromFacts, Linked
  <2> QED
    BY <1>2, <2>1, <2>2 DEF Unlink
<1> DEFINE Rest == Linked \ {c}
<1>4. /\ next[c] # c
      /\ IF first = c THEN first' = next[c] /\ next' = next
         ELSE \E p \in Rest : /\ next[p] = c /\ next' = [next EXCEPT ![p] = next[c]]
                              /\ first' = first
  <2>1. CASE first = c
    BY <1>3, <2>1, PoolAssumption DEF Unlink, Linking
  <2>2. CASE first # c
    <3>1. \E p \in Rest : next[p] = c
      <4> SUFFICES ASSUME \A p \in Rest : next[p] # c  PROVE FALSE
        OBVIOUS
      <4>1. Rest \in SUBSET Context /\ \A x \in Rest : next[x] \in Rest \cup {Null}
        BY <1>2
      <4>2. first \in Rest
        BY <1>3, <2>2
      <4>3. Linked \subseteq Rest
        BY <1>2, <4>1, <4>2 DEF Closed
      <4> QED
        BY <1>3, <4>3
    <3>2. PICK q \in Rest : next[q] = c
      BY <3>1
    <3> DEFINE p == Previous(c)
    <3>3. p \in Linked /\ next[p] = c
      BY <3>2 DEF Previous
    <3>4. p = q
      BY <1>3, <3>2, <3>3, PoolAssumption DEF Linking
    <3>5. next[c] # c
      BY <1>3, <3>2, PoolAssumption DEF Linking
    <3>6. first' = first /\ next' = [next EXCEPT ![p] = next[c]]
      BY <2>2 DEF Unlink
    <3> QED
      BY <2>2, <3>2, <3>3, <3>4, <3>5, <3>6
  <2> QED
    BY <2>1, <2>2
<1>5. Links'
  BY <1>1, <1>2, <1>4 DEF Links
<1>6. \A x \in Context : next'[x] = IF first # c /\ next[x] = c /\ x \in Rest
                                    THEN next[c] ELSE next[x]
  <2>1. CASE first = c
    BY <1>4, <2>1
  <2>2. CASE first # c
    <3>1. PICK p \in Rest : next[p] = c /\ next' = [next EXCEPT ![p] = next[c]]
      BY <1>4, <2>2
    <3>2. \A x \in Rest : next[x] = c => x = p
      BY <3>1, PoolAssumption DEF Linking
    <3> QED
      BY <1>2, <2>2, <3>1, <3>2 DEF NdisTypes
  <2> QED
    BY <2>1, <2>2
<1>7. /\ \A a : ChainFrom(a) \ {c} \subseteq ChainFrom(a)'
      /\ first' = IF first = c THEN next[c] ELSE first
  <2>1. ASSUME NEW S \in SUBSET Context, \A x \in S : next'[x] \in S \cup {Null}
        PROVE  \E T \in SUBSET Context : /\ S \subseteq T /\ T \subseteq S \cup {c}
                                         /\ \A x \in T : next[x] \in T \cup {Null}
    <3>1. CASE \E x \in S : next[x] = c
      <4> DEFINE T == S \cup {c}
      <4>1. PICK x \in S : next[x] = c
        BY <3>1
      <4>2. c \in S \/ next[c] \in S \cup {Null}
        BY <1>6, <2>1, <4>1, PoolAssumption
      <4>3. next[c] \in T \cup {Null}
        BY <1>6, <2>1, <4>2
      <4>4. \A y \in T : next[y] \in T \cup {Null}
        BY <1>6, <2>1, <4>3
      <4>5. T \in SUBSET Context /\ S \subseteq T /\ T \subseteq S \cup {c}
        OBVIOUS
      <4> QED
        BY <4>4, <4>5
    <3>2. CASE \A x \in S : next[x] # c
      BY <1>6, <2>1, <3>2
    <3> QED
      BY <3>1, <3>2
  <2>2. ASSUME NEW a, NEW x \in ChainFrom(a) \ {c}
        PROVE  x \in ChainFrom(a)'
    <3>1. ASSUME NEW S \in SUBSET Context, a \in S \cup {Null}, Closed(S)'
          PROVE  x \in S
      <4>1. PICK T \in SUBSET Context : /\ S \subseteq T /\ T \subseteq S \cup {c}
                                        /\ \A y \in T : next[y] \in T \cup {Null}
        BY <2>1, <3>1 DEF Closed
      <4>2. x \in T
        BY <2>2, <3>1, <4>1 DEF ChainFrom, Closed
      <4> QED
        BY <2>2, <4>1, <4>2
    <3> QED
      BY <2>2, <3>1 DEF ChainFrom
  <2> QED
    BY <1>4, <2>2
<1>8. Linked' = Rest
  <2>1. Linked' \subseteq Rest
    <3>1. Rest \in SUBSET Context /\ first' \in Rest \cup {Null}
      BY <1>2, <1>3, <1>4, <1>7
    <3>2. \A x \in Rest : next'[x] \in Rest \cup {Null}
      <4> SUFFICES ASSUME NEW x \in Rest  PROVE next'[x] \in Rest \cup {Null}
        OBVIOUS
      <4>1. CASE next[x] = c
        BY <1>2, <1>3, <1>4, <1>6, <4>1 DEF Linking
      <4>2. CASE next[x] # c
        BY <1>2, <1>6, <4>2
      <4> QED
        BY <4>1, <4>2
    <3> HIDE DEF Rest
    <3> QED
      BY <3>1, <3>2 DEF Linked, ChainFrom, Closed
  <2>2. ASSUME NEW x \in Rest  PROVE x \in Linked'
    <3>1. CASE first = c
      <4>1. x \in ChainFrom(next[c])
        BY <1>1, <1>3, <3>1, FromKnown DEF FromFacts, Linked
      <4> QED
        BY <1>7, <3>1, <4>1 DEF Linked
    <3>2. CASE first # c
      BY <1>7, <3>2 DEF Linked
    <3> QED
      BY <3>1, <3>2
  <2> QED
    BY <2>1, <2>2
<1>9. LinksKept
  <2>1. ASSUME NEW a \in Context, NEW x \in ChainFrom(next[a]), x # c
        PROVE  x \in ChainFrom(next[a])'
    <3>1. CASE next'[a] = next[a]
      BY <1>7, <2>1, <3>1
    <3>2. CASE next'[a] # next[a]
      <4>1. next[a] = c /\ next'[a] = next[c]
        BY <1>6, <3>2
      <4>2. x \in ChainFrom(next[c])
        BY <1>1, <2>1, <4>1, FromKnown DEF FromFacts
      <4> QED
        BY <1>7, <2>1, <4>1, <4>2
    <3> QED
      BY <3>1, <3>2
  <2> QED
    BY <1>7, <1>8, <2>1 DEF LinksKept
<1>10. Linking'
  <2>1. \A x \in Context : binding'[x] = IF x = c THEN "closing" ELSE binding[x]
    BY <1>3 DEF NdisTypes
  <2>2. Linked' = {x \in Context : binding'[x] = "bound"}
    BY <1>8, <2>1 DEF Linking
  <2>3. \A x \in Linked' : next'[x] # Null =>
          /\ next'[x] # first'
          /\ \A y \in Linked' : next'[x] = next'[y] => x = y
    <3>1. \A x \in Rest : next'[x] = IF first # c /\ next[x] = c THEN next[c] ELSE next[x]
      BY <1>2, <1>6
    <3>2. \A x, y \in Linked : next[x] # Null =>
            next[x] # first /\ (next[x] = next[y] => x = y)
      BY DEF Linking
    <3> QED
      BY <1>3, <1>7, <1>8, <3>1, <3>2, PoolAssumption
  <2>4. first' # Null => \E x \in Linked' : next'[x] = Null
    <3>1. PICK e \in Linked : next[e] = Null
      BY <1>3 DEF Linking
    <3>2. CASE e # c
      BY <1>2, <1>3, <1>6, <1>8, <3>1, <3>2, PoolAssumption
    <3>3. CASE e = c
      <4>1. CASE first = c
        BY <1>7, <3>1, <3>3, <4>1
      <4>2. CASE first # c
        BY <1>2, <1>4, <1>6, <1>8, <3>1, <3>3, <4>2
      <4> QED
        BY <4>1, <4>2
    <3> QED
      BY <3>2, <3>3
  <2>5. ASSUME NEW x \in Context, binding'[x] \in Before
        PROVE  next'[x] = Null /\ first' # x /\ \A y \in Context : next'[y] # x
    <3>1. x # c /\ binding[x] \in Before
      BY <2>1, <2>5 DEF Before
    <3>2. next[x] = Null /\ first # x /\ \A y \in Context : next[y] # x
      BY <3>1 DEF Linking
    <3> QED
      BY <1>2, <1>3, <1>6, <1>7, <3>1, <3>2, PoolAssumption
  <2> QED
    BY <2>2, <2>3, <2>4, <2>5 DEF Linking
<1> QED
  BY <1>8, <1>9, <1>10

-----------------------------------------------------------------------------
(* Types                                                                   *)

LEMMA Steps ==
  /\ SendSteps \in Seq(Kind) /\ Len(SendSteps) = 3
  /\ ReceiveSteps \in Seq(Kind) /\ Len(ReceiveSteps) = 5
  /\ SendSteps # ReceiveSteps
  /\ Idle.steps = <<>> /\ Idle.done = 0 /\ Idle.on = Null
  /\ Len(<<>>) = 0
BY DEF SendSteps, ReceiveSteps, Kind, Idle

(* How much of a kind the first steps of a packet take.                    *)
LEMMA CostType ==
  ASSUME NEW s, NEW n \in Nat, NEW k
  PROVE  Cost(s, n, k) \in Nat
<1> DEFINE I == {i \in 1 .. n : s[i] = k}
<1>1. IsFiniteSet(1 .. n) /\ I \subseteq 1 .. n
  BY FS_Interval
<1>2. IsFiniteSet(I)
  BY <1>1, FS_Subset
<1>3. Cost(s, n, k) = Cardinality(I)
  BY PoolAssumption DEF Cost
<1> HIDE DEF I
<1> QED
  BY <1>2, <1>3, FS_CardinalityType

(* A thread which is at work on a packet.                                  *)
LEMMA AtWork ==
  ASSUME NdisTypes, NEW o \in Op, op[o] # Idle
  PROVE  /\ op[o].steps \in {SendSteps, ReceiveSteps}
         /\ op[o].steps \in Seq(Kind)
         /\ Len(op[o].steps) \in Nat /\ Len(op[o].steps) \in 3 .. 5
         /\ op[o].done \in Nat /\ op[o].done <= Len(op[o].steps) /\ op[o].on \in Context
         /\ op[o].done <= 5
         /\ op[o] = [steps |-> op[o].steps, done |-> op[o].done, on |-> op[o].on]
<1>1. /\ op[o] \in [steps : {SendSteps, ReceiveSteps}, done : 0 .. 5, on : Context]
      /\ op[o].done <= Len(op[o].steps)
  BY DEF NdisTypes, NdisPacket
<1>2. /\ op[o].steps \in Seq(Kind)
      /\ Len(op[o].steps) \in Nat /\ Len(op[o].steps) \in 3 .. 5
  BY <1>1, Steps
<1> QED
  BY <1>1, <1>2

LEMMA Taking ==
  ASSUME NdisTypes, NEW m
  PROVE  Lookup(m) \in Linked \cup {Null} /\ Linked \subseteq Context
<1>1. Links
  BY DEF NdisTypes, Links
<1> QED
  BY <1>1, LookupFinds, FromKnown DEF FromFacts, Linked

LEMMA Beginning ==
  ASSUME NdisTypes, NEW o \in Op, NEW c \in Context,
         NEW s \in {SendSteps, ReceiveSteps}, Begin(o, c, s)
  PROVE  op' \in [Op -> NdisPacket]
<1>1. [steps |-> s, done |-> 0, on |-> c] \in NdisPacket
  BY Steps DEF NdisPacket
<1> QED
  BY <1>1 DEF NdisTypes, Begin

LEMMA NdisTypesOp ==
  ASSUME NdisTypes, NEW o \in Op, OpStep(o)
  PROVE  NdisTypes'
<1>1. ASSUME NEW m \in Mac, Send(o, m)  PROVE NdisTypes'
  <2>1. Lookup(m) \in Context
    BY <1>1, Taking DEF Send
  <2>2. op' \in [Op -> NdisPacket]
    BY <1>1, <2>1, Beginning DEF Send
  <2> QED
    BY <1>1, <2>2 DEF Send, NdisTypes, global, links, adapter
<1>2. ASSUME NEW c \in Context, Receive(o, c)  PROVE NdisTypes'
  <2>1. op' \in [Op -> NdisPacket]
    BY <1>2, Beginning DEF Receive
  <2> QED
    BY <1>2, <2>1 DEF Receive, NdisTypes, global, links, adapter
<1>3. CASE Broadcast(o)
  <2>1. Linked \in SUBSET Context
    BY Taking
  <2> QED
    BY <1>3, <2>1 DEF Broadcast, NdisTypes, NdisWalk, global, links, adapter
<1>4. CASE Visit(o)
  <2> DEFINE c == Lookup(mac[walk[o].at])
  <2>1. c \in Context \cup {Null}
    BY Taking
  <2>2. op' \in [Op -> NdisPacket]
    <3>1. CASE UNCHANGED op
      BY <3>1 DEF NdisTypes
    <3>2. CASE c # Null /\ Begin(o, c, SendSteps)
      BY <2>1, <3>2, Beginning
    <3> QED
      BY <1>4, <3>1, <3>2 DEF Visit
  <2>3. walk' = [walk EXCEPT ![o].state = "next",
                             ![o].tried = walk[o].tried \cup ({c} \ {Null})]
    BY <1>4 DEF Visit
  <2> HIDE DEF c
  <2> QED
    <3>1. DOMAIN walk = Op /\ walk[o].state = "at" /\ walk[o].at \in Context
      BY <1>4 DEF Visit, NdisTypes
    <3> DEFINE x == [walk[o] EXCEPT !.state = "next",
                                    !.tried = walk[o].tried \cup ({c} \ {Null})]
    <3>2. walk[o] \in NdisWalk
      BY DEF NdisTypes
    <3>3. x \in NdisWalk /\ x.at \in Context
      BY <2>1, <3>1, <3>2 DEF NdisWalk
    <3>4. walk' = [walk EXCEPT ![o] = x]
      BY <2>3, <3>1, <3>2 DEF NdisWalk
    <3> HIDE DEF x
    <3>5. /\ walk' \in [Op -> NdisWalk]
          /\ \A y \in Op : walk'[y].state \in {"at", "next"} => walk'[y].at \in Context
      BY <3>3, <3>4 DEF NdisTypes
    <3> QED
      BY <1>4, <2>2, <3>5
      DEF Visit, NdisTypes, global, links, adapter
<1>5. CASE Advance(o)
  <2>1. /\ next[walk[o].at] \in Context \cup {Null}
        /\ DOMAIN walk = Op /\ walk[o] \in NdisWalk
    BY <1>5 DEF NdisTypes, Advance
  <2> DEFINE c == next[walk[o].at]
             x == [walk[o] EXCEPT !.at = c,
                     !.state = CASE c = Null -> "over"
                                 [] c # Null /\ got[c] = {} -> "lost"
                                 [] OTHER -> "at"]
  <2>2. walk' = [walk EXCEPT ![o] = x]
    BY <1>5, <2>1 DEF Advance, NdisWalk
  <2>3. x \in NdisWalk /\ (x.state \in {"at", "next"} => x.at \in Context)
    BY <2>1 DEF NdisWalk
  <2> HIDE DEF x
  <2>4. /\ walk' \in [Op -> NdisWalk]
        /\ \A y \in Op : walk'[y].state \in {"at", "next"} => walk'[y].at \in Context
    BY <2>2, <2>3 DEF NdisTypes
  <2> QED
    BY <1>5, <2>4 DEF Advance, NdisTypes, global, links, adapter
<1>6. CASE BroadcastDone(o)
  BY <1>6 DEF BroadcastDone, NdisTypes, NdisWalk, NoWalk, global, links,
              adapter
<1>7. CASE Allocate(o)
  <2> DEFINE w == [op[o] EXCEPT !.done = op[o].done + 1]
  <2>1. op[o] # Idle
    BY <1>7, Steps DEF Allocate
  <2>2. /\ op[o].done < Len(op[o].steps) /\ op' = [op EXCEPT ![o] = w]
        /\ op[o].steps[op[o].done + 1] \in Kind
    <3>1. op[o].done < Len(op[o].steps) /\ op' = [op EXCEPT ![o] = w]
      BY <1>7 DEF Allocate
    <3>2. op[o].steps \in Seq(Kind) /\ op[o].done + 1 \in 1 .. Len(op[o].steps)
      <4>1. /\ op[o].steps \in Seq(Kind) /\ Len(op[o].steps) \in Nat
            /\ op[o].done \in Nat
        BY <2>1, AtWork
      <4> QED
        BY <3>1, <4>1
    <3> QED
      BY <3>1, <3>2, ElementOfSeq
  <2>3. w \in NdisPacket
    <3>1. /\ op[o] = [steps |-> op[o].steps, done |-> op[o].done, on |-> op[o].on]
          /\ op[o].steps \in {SendSteps, ReceiveSteps}
          /\ op[o].done + 1 \in 0 .. 5 /\ op[o].on \in Context
          /\ op[o].done + 1 <= Len(op[o].steps)
      <4>1. /\ op[o].steps \in {SendSteps, ReceiveSteps}
            /\ Len(op[o].steps) \in 3 .. 5 /\ op[o].done \in Nat /\ op[o].on \in Context
            /\ op[o] = [steps |-> op[o].steps, done |-> op[o].done, on |-> op[o].on]
        BY <2>1, AtWork
      <4> QED
        BY <2>2, <4>1
    <3>2. w = [steps |-> op[o].steps, done |-> op[o].done + 1, on |-> op[o].on]
      BY <3>1
    <3> QED
      BY <3>1, <3>2 DEF NdisPacket
  <2>4. used' \in [Context -> [Kind -> Int]]
    BY <1>7, <2>1, <2>2, AtWork DEF Allocate, NdisTypes
  <2> HIDE DEF w
  <2>5. op' \in [Op -> NdisPacket]
    BY <2>2, <2>3 DEF NdisTypes
  <2> QED
    BY <1>7, <2>4, <2>5
    DEF Allocate, NdisTypes, global, links, adapter
<1>8. CASE AllocateFails(o)
  <2>1. op[o] # Idle
    BY <1>8, Steps DEF AllocateFails
  <2>2. \A k : Cost(op[o].steps, op[o].done, k) \in Nat
    <3>1. op[o].done \in Nat
      BY <2>1, AtWork
    <3> QED
      BY <3>1, CostType
  <2>3. used' \in [Context -> [Kind -> Int]]
    BY <1>8, <2>1, <2>2, AtWork DEF AllocateFails, NdisTypes
  <2>4. op' \in [Op -> NdisPacket]
    BY <1>8 DEF AllocateFails, NdisTypes, NdisPacket
  <2> QED
    BY <1>8, <2>3, <2>4
    DEF AllocateFails, NdisTypes, global, links, adapter
<1>9. CASE Pass(o)
  <2>1. op[o] # Idle
    BY <1>9 DEF Pass
  <2>2. flight' \in [Context -> [send : Nat, transfer : Nat]]
    <3> DEFINE c == op[o].on
    <3>1. c \in Context /\ flight[c] \in [send : Nat, transfer : Nat]
      BY <2>1, AtWork DEF NdisTypes
    <3>2. \E x \in [send : Nat, transfer : Nat] : flight' = [flight EXCEPT ![c] = x]
      <4>1. CASE flight' = [flight EXCEPT ![c].send = @ + 1]
        <5>1. [flight[c] EXCEPT !.send = @ + 1] \in [send : Nat, transfer : Nat]
          BY <3>1
        <5> QED
          BY <4>1, <5>1
      <4>2. CASE flight' = [flight EXCEPT ![c].transfer = @ + 1]
        <5>1. [flight[c] EXCEPT !.transfer = @ + 1] \in [send : Nat, transfer : Nat]
          BY <3>1
        <5> QED
          BY <4>2, <5>1
      <4> QED
        BY <1>9, <4>1, <4>2 DEF Pass
    <3> HIDE DEF c
    <3> QED
      BY <3>1, <3>2 DEF NdisTypes
  <2>3. op' \in [Op -> NdisPacket]
    BY <1>9 DEF Pass, NdisTypes, NdisPacket
  <2> QED
    BY <1>9, <2>2, <2>3 DEF Pass, NdisTypes, global, links, adapter
<1> QED
  BY <1>1, <1>2, <1>3, <1>4, <1>5, <1>6, <1>7, <1>8, <1>9 DEF OpStep

LEMMA NdisTypesContext ==
  ASSUME NdisTypes, Linking, NEW c \in Context,
         \/ Bind(c) \/ BindFails(c) \/ BindStep(c) \/ UnbindStep(c)
         \/ SendComplete(c) \/ TransferDataComplete(c)
  PROVE  NdisTypes'
<1>1. CASE Bind(c) \/ BindFails(c) \/ RequestComplete(c) \/ UnbindSignal(c)
  BY <1>1 DEF Bind, BindFails, RequestComplete, UnbindSignal,
              NdisTypes, Before, After, global, links, adapter, traffic
<1>2. CASE BindTake(c)
  BY <1>2 DEF BindTake, NdisTypes, Before, global, links, traffic
<1>3. CASE Request(c) \/ RequestWaited(c)
  <2>1. \E b \in Before : binding' = [binding EXCEPT ![c] = b]
    BY <1>3 DEF Request, RequestWaited, AfterRequest, Before, NdisTypes
  <2>2. DOMAIN mac' = Context
    BY <1>3 DEF Request, RequestWaited, AfterRequest, NdisTypes
  <2>3. binding' \in [Context -> Before \cup After]
    BY <2>1 DEF NdisTypes
  <2>4. UNCHANGED <<first, next, got, op, walk, used, flight>>
    BY <1>3 DEF Request, RequestWaited, links, traffic
  <2> QED
    BY <2>2, <2>3, <2>4 DEF NdisTypes
<1>4. CASE AppendContext(c)
  BY <1>4 DEF AppendContext, NdisTypes, After, global, traffic
<1>5. CASE Unlink(c)
  BY <1>5 DEF Unlink, NdisTypes, After, global, traffic
<1>6. CASE Free(c)
  <2>1. op' \in [Op -> NdisPacket]
    BY <1>6 DEF Free, NdisTypes, NdisPacket
  <2>2. /\ walk' \in [Op -> NdisWalk]
        /\ \A o \in Op : walk'[o].state \in {"at", "next"} => walk'[o].at \in Context
    <3>1. \A o \in Op : [walk[o] EXCEPT !.state = "lost"] \in NdisWalk /\ walk[o] \in NdisWalk
      BY DEF NdisTypes, NdisWalk
    <3>2. \A o \in Op : [walk[o] EXCEPT !.state = "lost"].state = "lost"
      BY DEF NdisTypes, NdisWalk
    <3> QED
      BY <1>6, <3>1, <3>2 DEF Free, NdisTypes
  <2>3. binding' \in [Context -> Before \cup After] /\ DOMAIN got' = Context
    BY <1>6 DEF Free, NdisTypes, After
  <2> QED
    BY <1>6, <2>1, <2>2, <2>3 DEF Free, NdisTypes, global, links
<1>7. CASE SendComplete(c) \/ TransferDataComplete(c)
  <2>1. \A s, k : Cost(s, 3, k) \in Nat /\ Cost(s, 5, k) \in Nat
    BY CostType
  <2>2. used[c] \in [Kind -> Int] /\ flight[c] \in [send : Nat, transfer : Nat]
    BY DEF NdisTypes
  <2>3. \E x \in [Kind -> Int] : used' = [used EXCEPT ![c] = x]
    <3>1. CASE SendComplete(c)
      <4> DEFINE x == [k \in Kind |-> used[c][k] - Cost(SendSteps, 3, k)]
      <4>1. x \in [Kind -> Int]
        BY <2>1, <2>2
      <4>2. used' = [used EXCEPT ![c] = x]
        BY <3>1 DEF SendComplete
      <4> QED
        BY <4>1, <4>2
    <3>2. CASE TransferDataComplete(c)
      <4> DEFINE x == [k \in Kind |-> used[c][k] - Cost(ReceiveSteps, 5, k)]
      <4>1. x \in [Kind -> Int]
        BY <2>1, <2>2
      <4>2. used' = [used EXCEPT ![c] = x]
        BY <3>2 DEF TransferDataComplete
      <4> QED
        BY <4>1, <4>2
    <3> QED
      BY <1>7, <3>1, <3>2
  <2>4. \E x \in [send : Nat, transfer : Nat] : flight' = [flight EXCEPT ![c] = x]
    <3>1. CASE SendComplete(c)
      <4>1. [flight[c] EXCEPT !.send = @ - 1] \in [send : Nat, transfer : Nat]
        BY <2>2, <3>1 DEF SendComplete
      <4> QED
        BY <3>1, <4>1 DEF SendComplete
    <3>2. CASE TransferDataComplete(c)
      <4>1. [flight[c] EXCEPT !.transfer = @ - 1] \in [send : Nat, transfer : Nat]
        BY <2>2, <3>2 DEF TransferDataComplete
      <4> QED
        BY <3>2, <4>1 DEF TransferDataComplete
    <3> QED
      BY <1>7, <3>1, <3>2
  <2> QED
    BY <1>7, <2>3, <2>4 DEF SendComplete, TransferDataComplete, NdisTypes,
                            global, links, adapter
<1> QED
  BY <1>1, <1>2, <1>3, <1>4, <1>5, <1>6, <1>7 DEF BindStep, UnbindStep

(* A step of Protocol_Start and Protocol_Stop, or none.                    *)
Aside == UNCHANGED <<links, adapter, traffic>>

LEMMA NdisSteps ==
  ASSUME [NdisNext]_ndisVars
  PROVE  \/ Aside
         \/ \E c \in Context :
              \/ Bind(c) \/ BindFails(c) \/ BindStep(c) \/ UnbindStep(c)
              \/ SendComplete(c) \/ TransferDataComplete(c)
         \/ \E o \in Op : OpStep(o)
BY DEF NdisNext, ndisVars, Aside, Start, StopBegin, StopStep, Deregister,
       StopCheck, StopWaited

(* The list is changed by its two operations only.                         *)
LEMMA LinkSteps ==
  ASSUME NdisTypes, Linking, [NdisNext]_ndisVars
  PROVE  Linking' /\ LinksKept
<1>1. ASSUME UNCHANGED <<first, next>>,
             \A c \in Context : binding'[c] = binding[c]
                \/ /\ binding'[c] \notin {"bound"} /\ binding[c] # "bound"
                   /\ binding'[c] \in Before => binding[c] \in Before
      PROVE  Linking' /\ LinksKept
  <2>1. Linked' = Linked /\ LinksKept
    BY <1>1, SameLinks
  <2>2. {c \in Context : binding'[c] = "bound"} = {c \in Context : binding[c] = "bound"}
    BY <1>1
  <2> QED
    BY <1>1, <2>1, <2>2 DEF Linking
<1>2. CASE Aside
  BY <1>1, <1>2 DEF Aside, links, adapter
<1>3. ASSUME NEW c \in Context,
             \/ Bind(c) \/ BindFails(c) \/ BindStep(c) \/ UnbindStep(c)
             \/ SendComplete(c) \/ TransferDataComplete(c)
      PROVE  Linking' /\ LinksKept
  <2>1. CASE Bind(c) \/ BindFails(c) \/ UnbindSignal(c) \/ Free(c)
    <3>1. UNCHANGED <<first, next>> /\ \E b : binding' = [binding EXCEPT ![c] = b] /\
             b # "bound" /\ binding[c] # "bound" /\ (b \in Before => binding[c] \in Before)
      BY <2>1 DEF Bind, BindFails, UnbindSignal, Free, Before, links
    <3> QED
      BY <1>1, <3>1 DEF NdisTypes
  <2>2. CASE BindTake(c) \/ Request(c) \/ RequestWaited(c)
    <3>1. /\ UNCHANGED <<first, next>> /\ binding[c] \in Before
          /\ \E b \in Before : binding' = [binding EXCEPT ![c] = b]
      BY <2>2 DEF BindTake, Request, RequestWaited, AfterRequest, Before,
                  Requested, links, NdisTypes
    <3> QED
      BY <1>1, <3>1 DEF NdisTypes, Before
  <2>3. CASE RequestComplete(c) \/ SendComplete(c) \/ TransferDataComplete(c)
    BY <1>1, <2>3 DEF RequestComplete, SendComplete, TransferDataComplete,
                      links, adapter
  <2> QED
    BY <1>3, <2>1, <2>2, <2>3, AppendLinks, UnlinkLinks DEF BindStep, UnbindStep
<1>4. ASSUME NEW o \in Op, OpStep(o)
      PROVE  Linking' /\ LinksKept
  BY <1>1, <1>4 DEF OpStep, Send, Receive, Broadcast, Visit,
       Advance, BroadcastDone, Allocate, AllocateFails, Pass,
       links, adapter
<1> QED
  BY <1>2, <1>3, <1>4, NdisSteps

-----------------------------------------------------------------------------
(* Broadcasts                                                              *)

(* Once a context is appended, its address stays.                          *)
AddressesKept == \A c \in Appended : c \in Appended' /\ mac'[c] = mac[c]

LEMMA AddressSteps ==
  ASSUME NdisTypes, [NdisNext]_ndisVars
  PROVE  AddressesKept
<1>1. CASE Aside
  BY <1>1 DEF Aside, AddressesKept, Appended, adapter
<1>2. ASSUME NEW c \in Context,
             \/ Bind(c) \/ BindFails(c) \/ BindStep(c) \/ UnbindStep(c)
             \/ SendComplete(c) \/ TransferDataComplete(c)
      PROVE  AddressesKept
  <2>1. CASE Request(c) \/ RequestWaited(c)
    <3>1. /\ c \notin Appended
          /\ UNCHANGED mac \/ \E m : mac' = [mac EXCEPT ![c] = m]
          /\ \E b : binding' = [binding EXCEPT ![c] = b]
      BY <2>1 DEF Request, RequestWaited, AfterRequest, Requested, Appended,
                  After
    <3> QED
      BY <3>1 DEF AddressesKept, Appended, NdisTypes
  <2>2. CASE Bind(c) \/ BindFails(c) \/ AppendContext(c) \/ UnbindStep(c)
    <3>1. UNCHANGED mac /\ \E b \in {"opening"} \cup After :
            /\ binding' = [binding EXCEPT ![c] = b]
            /\ b = "opening" => c \notin Appended
      BY <2>2 DEF Bind, BindFails, AppendContext, UnbindStep, Unlink,
                  Free, UnbindSignal, Appended, After
    <3> QED
      BY <3>1 DEF AddressesKept, Appended, NdisTypes
  <2>3. CASE BindTake(c)
    <3>1. UNCHANGED mac /\ c \notin Appended /\ \E b : binding' = [binding EXCEPT ![c] = b]
      BY <2>3 DEF BindTake, Appended, After
    <3> QED
      BY <3>1 DEF AddressesKept, Appended, NdisTypes
  <2>4. CASE RequestComplete(c) \/ SendComplete(c) \/ TransferDataComplete(c)
    BY <2>4 DEF RequestComplete, SendComplete, TransferDataComplete,
                adapter, AddressesKept, Appended
  <2> QED
    BY <1>2, <2>1, <2>2, <2>3, <2>4 DEF BindStep
<1>3. ASSUME NEW o \in Op, OpStep(o)
      PROVE  AddressesKept
  BY <1>3 DEF OpStep, Send, Receive, Broadcast, Visit, Advance,
       BroadcastDone, Allocate, AllocateFails, Pass, adapter,
       AddressesKept, Appended
<1> QED
  BY <1>1, <1>2, <1>3, NdisSteps

(* A broadcast which takes no step itself still reaches what it must.      *)
LEMMA ReachingKept ==
  ASSUME NdisTypes, LinksKept, AddressesKept,
         NEW o \in Op, Reaching(o), walk'[o] = walk[o]
  PROVE  Reaching(o)'
<1> SUFFICES ASSUME walk[o].state \in {"at", "next", "over"}
             PROVE  /\ walk[o].must \subseteq Appended' /\ walk[o].tried \subseteq Appended'
                    /\ \A c \in walk[o].must \cap Linked' :
                         c \in Ahead(o)' \/ \E d \in walk[o].tried : mac'[d] = mac'[c]
  BY DEF Reaching, Tried
<1>1. /\ walk[o].must \subseteq Appended /\ walk[o].tried \subseteq Appended
      /\ \A c \in walk[o].must \cap Linked : c \in Ahead(o) \/ Tried(o, c)
  BY DEF Reaching
<1>2. ASSUME NEW c \in walk[o].must \cap Linked'
      PROVE  c \in Ahead(o)' \/ \E d \in walk[o].tried : mac'[d] = mac'[c]
  <2>1. c \in Linked
    BY <1>1, <1>2 DEF LinksKept
  <2>2. CASE Tried(o, c)
    BY <1>1, <1>2, <2>2 DEF Tried, AddressesKept
  <2>3. CASE c \in Ahead(o)
    <3>1. CASE walk[o].state = "at"
      <4>1. walk[o].at \in Context
        BY <3>1 DEF NdisTypes
      <4>2. c \in ChainFrom(walk[o].at)'
        BY <1>2, <2>3, <3>1, <4>1 DEF Ahead, LinksKept
      <4> QED
        BY <3>1, <4>2 DEF Ahead
    <3>2. CASE walk[o].state = "next"
      <4>1. walk[o].at \in Context
        BY <3>2 DEF NdisTypes
      <4>2. c \in ChainFrom(next[walk[o].at])'
        BY <1>2, <2>3, <3>2, <4>1 DEF Ahead, LinksKept
      <4> QED
        BY <3>2, <4>2 DEF Ahead
    <3>3. walk[o].state # "over"
      BY <2>3 DEF Ahead
    <3> QED
      BY <3>1, <3>2, <3>3
  <2> QED
    BY <1>1, <2>1, <2>2, <2>3
<1> QED
  BY <1>1, <1>2 DEF AddressesKept

LEMMA ReachingSteps ==
  ASSUME NdisTypes, NdisTypes', Linking,
         NEW o \in Op, Reaching(o), [NdisNext]_ndisVars
  PROVE  Reaching(o)'
<1> USE DEF global, links, adapter, traffic
<1>1. LinksKept /\ AddressesKept
  BY LinkSteps, AddressSteps
<1>2. ASSUME walk'[o] = walk[o]  PROVE Reaching(o)'
  BY <1>1, <1>2, ReachingKept
<1>3. ASSUME walk'[o].state \in {"none", "lost"}  PROVE Reaching(o)'
  BY <1>3 DEF Reaching
<1>4. CASE Aside
  BY <1>2, <1>4 DEF Aside
<1>5. ASSUME NEW c \in Context,
             \/ Bind(c) \/ BindFails(c) \/ BindStep(c) \/ UnbindStep(c)
             \/ SendComplete(c) \/ TransferDataComplete(c)
      PROVE  Reaching(o)'
  <2>1. CASE Free(c)
    <3>1. walk'[o] = [walk[o] EXCEPT !.state = "lost"] \/ walk'[o] = walk[o]
      BY <2>1 DEF Free
    <3>2. [walk[o] EXCEPT !.state = "lost"].state = "lost"
      BY DEF NdisTypes, NdisWalk
    <3> QED
      BY <1>2, <1>3, <3>1, <3>2
  <2>2. CASE ~Free(c)
    <3>1. UNCHANGED walk
      BY <1>5, <2>2 DEF Bind, BindFails, BindStep, UnbindStep, BindTake,
         Request, RequestWaited, RequestComplete, AppendContext, Unlink,
         UnbindSignal, SendComplete, TransferDataComplete
    <3> QED
      BY <1>2, <3>1
  <2> QED
    BY <2>1, <2>2
<1>6. ASSUME NEW p \in Op, OpStep(p)
      PROVE  Reaching(o)'
  <2>1. UNCHANGED <<first, next, binding, mac>>
    BY <1>6 DEF OpStep, Send, Receive, Broadcast, Visit, Advance,
       BroadcastDone, Allocate, AllocateFails, Pass
  <2>2. /\ Linked' = Linked /\ Appended' = Appended /\ Linked \subseteq Appended
        /\ \A a : ChainFrom(a)' = ChainFrom(a)
    BY <2>1, SameLinks DEF Appended, Linking, After, ChainFrom, Closed
  <2>3. Links
    BY DEF NdisTypes, Links
  <2>4. CASE Broadcast(p)
    <3>1. CASE p # o
      BY <1>2, <2>4, <3>1 DEF Broadcast, NdisTypes
    <3>2. CASE p = o
      <4>1. walk'[o] = [at |-> first, must |-> Linked, tried |-> {}, state |-> "at"]
        BY <2>4, <3>2 DEF Broadcast, NdisTypes
      <4>2. Ahead(o)' = Linked
        BY <2>2, <4>1 DEF Ahead, Linked
      <4> QED
        BY <2>2, <4>1, <4>2 DEF Reaching
    <3> QED
      BY <3>1, <3>2
  <2>5. CASE Visit(p)
    <3>1. CASE p # o
      BY <1>2, <2>5, <3>1 DEF Visit, NdisTypes
    <3>2. CASE p = o
      <4> DEFINE a == walk[o].at
                 c == Lookup(mac[a])
      <4>1. walk[o].state = "at" /\ a \in Context
        BY <2>5, <3>2 DEF Visit, NdisTypes
      <4>2. /\ walk'[o].at = a /\ walk'[o].must = walk[o].must
            /\ walk'[o].tried = walk[o].tried \cup ({c} \ {Null})
            /\ walk'[o].state = "next"
        BY <2>5, <3>2 DEF Visit, NdisTypes, NdisWalk
      <4>3. /\ c \in Linked \cup {Null}
            /\ a \in Linked => c \in Linked /\ mac[c] = mac[a] /\ c # Null
        BY <2>3, LookupFinds, FromKnown, PoolAssumption DEF FromFacts, Linked
      <4>4. Ahead(o)' = ChainFrom(next[a])
        BY <2>1, <2>2, <4>2 DEF Ahead
      <4> HIDE DEF c
      <4>5. ASSUME NEW d \in walk[o].must \cap Linked
            PROVE  d \in ChainFrom(next[a]) \/ \E e \in walk'[o].tried : mac[e] = mac[d]
        <5>1. d \in ChainFrom(a) \/ \E e \in walk[o].tried : mac[e] = mac[d]
          BY <4>1, <4>5 DEF Reaching, Ahead, Tried
        <5>2. CASE d \in ChainFrom(a)
          <6>1. d = a \/ d \in ChainFrom(next[a])
            BY <2>3, <4>1, <5>2, FromKnown DEF FromFacts
          <6> QED
            BY <4>2, <4>3, <4>5, <6>1
        <5> QED
          BY <4>2, <5>1, <5>2
      <4>6. walk'[o].must \subseteq Appended /\ walk'[o].tried \subseteq Appended
        BY <2>2, <4>1, <4>2, <4>3 DEF Reaching
      <4> QED
        BY <2>1, <2>2, <4>2, <4>4, <4>5, <4>6 DEF Reaching, Tried
    <3> QED
      BY <3>1, <3>2
  <2>6. CASE Advance(p)
    <3>1. CASE p # o
      BY <1>2, <2>6, <3>1 DEF Advance, NdisTypes
    <3>2. CASE p = o
      <4> DEFINE c == next[walk[o].at]
      <4>1. /\ walk[o].state = "next"
            /\ walk'[o].at = c /\ walk'[o].must = walk[o].must
            /\ walk'[o].tried = walk[o].tried
            /\ walk'[o].state \in {"over", "lost", "at"}
            /\ walk'[o].state = "over" => c = Null
        <5>1. /\ walk[o].state = "next" /\ walk[o] \in NdisWalk
              /\ walk'[o] = [walk[o] EXCEPT !.at = c,
                               !.state = CASE c = Null -> "over"
                                           [] c # Null /\ got[c] = {} -> "lost"
                                           [] OTHER -> "at"]
          BY <2>6, <3>2 DEF Advance, NdisTypes
        <5> QED
          BY <5>1 DEF NdisWalk
      <4>2. walk'[o].state # "lost" => Ahead(o)' = ChainFrom(c)
        BY <2>2, <2>3, <4>1, FromKnown DEF FromFacts, Ahead
      <4>3. Ahead(o) = ChainFrom(c)
        BY <4>1 DEF Ahead
      <4> HIDE DEF c
      <4> QED
        BY <2>1, <2>2, <4>1, <4>2, <4>3 DEF Reaching, Tried
    <3> QED
      BY <3>1, <3>2
  <2>7. CASE BroadcastDone(p)
    <3>1. CASE p # o
      BY <1>2, <2>7, <3>1 DEF BroadcastDone, NdisTypes
    <3>2. CASE p = o
      BY <1>3, <2>7, <3>2 DEF BroadcastDone, NoWalk, NdisTypes
    <3> QED
      BY <3>1, <3>2
  <2>8. CASE UNCHANGED walk
    BY <1>2, <2>8
  <2> QED
    BY <1>6, <2>4, <2>5, <2>6, <2>7, <2>8 DEF OpStep, Send, Receive,
       Allocate, AllocateFails, Pass
<1> QED
  BY <1>4, <1>5, <1>6, NdisSteps

-----------------------------------------------------------------------------
(* Pools                                                                   *)

(* What a packet which NDIS has takes of a kind, and the count of a kind.  *)
Sending(k)   == Cost(SendSteps, 3, k)
Receiving(k) == Cost(ReceiveSteps, 5, k)
Accurate(c, k) ==
  used[c][k] = flight[c].send * Sending(k) + flight[c].transfer * Receiving(k)
               + Cardinality(Allocated(c, k))
Accounted == \A c \in Context : got[c] # {} => \A k \in Kind : Accurate(c, k)

LEMMA AccountedIsAccurate == Accounted <=> PoolsAccurate
BY Steps, PoolAssumption DEF Accounted, Accurate, Sending, Receiving, PoolsAccurate

LEMMA AllocatedIsFinite ==
  ASSUME NEW c, NEW k
  PROVE  IsFiniteSet(Allocated(c, k)) /\ Cardinality(Allocated(c, k)) \in Nat
<1>1. IsFiniteSet(Op) /\ 1 \in Int /\ 5 \in Int
  BY PoolAssumption
<1>4. IsFiniteSet(1 .. 5)
  BY FS_Interval, <1>1
<1>2. IsFiniteSet(Op \X (1 .. 5))
  BY <1>1, <1>4, FS_Product
<1>3. Allocated(c, k) \subseteq Op \X (1 .. 5)
  BY Steps DEF Allocated
<1> QED
  BY <1>2, <1>3, FS_Subset, FS_CardinalityType

(* What a thread has allocated so far for its packet.                      *)
OfThread(o, k) == {o} \X {i \in 1 .. op[o].done : op[o].steps[i] = k}

LEMMA ThreadsShare ==
  ASSUME NdisTypes, NEW o \in Op, op[o] # Idle, NEW k
  PROVE  /\ OfThread(o, k) \subseteq Allocated(op[o].on, k)
         /\ \A s \in Allocated(op[o].on, k) : s[1] = o => s \in OfThread(o, k)
         /\ IsFiniteSet(OfThread(o, k))
         /\ Cardinality(OfThread(o, k)) = Cost(op[o].steps, op[o].done, k)
<1> DEFINE I == {i \in 1 .. op[o].done : op[o].steps[i] = k}
           T == {o} \X I
           f == [i \in I |-> <<o, i>>]
<1>1. op[o].done \in Nat /\ op[o].done <= 5
  BY AtWork
<1>2. IsFiniteSet(I) /\ Cost(op[o].steps, op[o].done, k) = Cardinality(I)
  <2>1. IsFiniteSet(1 .. op[o].done)
    BY <1>1, FS_Interval
  <2>2. IsFiniteSet(I)
    BY <2>1, FS_Subset
  <2>3. Cost(op[o].steps, op[o].done, k) = Cardinality(I)
    BY PoolAssumption DEF Cost
  <2> QED
    BY <2>2, <2>3
<1>3. T \subseteq Allocated(op[o].on, k)
  BY <1>1, Steps DEF Allocated
<1>4. \A s \in Allocated(op[o].on, k) : s[1] = o => s \in T
  <2> SUFFICES ASSUME NEW s \in Allocated(op[o].on, k), s[1] = o
               PROVE  s \in T
    OBVIOUS
  <2>1. /\ s = <<s[1], s[2]>> /\ s[2] \in 1 .. 5 /\ s[2] <= op[o].done
        /\ op[o].steps[s[2]] = k
    BY Steps DEF Allocated
  <2>2. s[2] \in I
    BY <1>1, <2>1
  <2> HIDE DEF I
  <2> QED
    BY <2>1, <2>2
<1>5. IsFiniteSet(T) /\ Cardinality(T) = Cardinality(I)
  <2> HIDE DEF I
  <2>1. f \in [I -> T] /\ \A x, y \in I : f[x] = f[y] => x = y
    OBVIOUS
  <2>2. \A t \in T : \E x \in I : f[x] = t
    OBVIOUS
  <2> HIDE DEF T, f
  <2> QED
    BY <1>2, <2>1, <2>2, SameCount
<1> QED
  BY <1>2, <1>3, <1>4, <1>5 DEF OfThread

(* A thread which begins a packet has allocated nothing yet.               *)
LEMMA BeginShare ==
  ASSUME NdisTypes, NEW o \in Op, op[o] = Idle, NEW d, NEW s,
         Begin(o, d, s), NEW c, NEW k
  PROVE  Allocated(c, k)' = Allocated(c, k)
<1>1. \A p \in Op : op'[p] = IF p = o THEN [steps |-> s, done |-> 0, on |-> d] ELSE op[p]
  BY DEF Begin, NdisTypes
<1>2. op[o].done = 0 /\ op'[o].done = 0
  BY <1>1, Steps
<1>3. \A t \in Op \X (1 .. 5) : t[1] = o => ~(t[2] <= op[o].done) /\ ~(t[2] <= op'[o].done)
  BY <1>2
<1>4. \A t \in Op \X (1 .. 5) : t[1] \in Op /\ (t[1] # o => op'[t[1]] = op[t[1]])
  BY <1>1
<1> QED
  BY <1>3, <1>4, Steps DEF Allocated

(* A thread which has done with its packet, or gives it up.                *)
LEMMA EndShare ==
  ASSUME NdisTypes, NEW o \in Op, op[o] # Idle,
         op' = [op EXCEPT ![o] = Idle], NEW c \in Context, NEW k
  PROVE  Cardinality(Allocated(c, k)) =
           Cardinality(Allocated(c, k)')
           + IF c = op[o].on THEN Cost(op[o].steps, op[o].done, k) ELSE 0
<1> DEFINE A == Allocated(c, k)
           B == Allocated(c, k)'
<1>1. \A p \in Op : op'[p] = IF p = o THEN Idle ELSE op[p]
  BY DEF NdisTypes
<1>2. op'[o].done = 0
  BY <1>1, Steps
<1>3. B = {t \in A : t[1] # o}
  <2>1. \A t \in Op \X (1 .. 5) : t[1] = o => ~(t[2] <= op'[o].done)
    BY <1>2
  <2>2. \A t \in Op \X (1 .. 5) : t[1] \in Op /\ (t[1] # o => op'[t[1]] = op[t[1]])
    BY <1>1
  <2> QED
    BY <2>1, <2>2, Steps DEF Allocated
<1>4. IsFiniteSet(A) /\ Cardinality(A) \in Nat
  BY AllocatedIsFinite
<1>5. CASE c # op[o].on
  <2>1. \A t \in A : t[1] # o
    BY <1>5 DEF Allocated
  <2>2. A = B
    BY <1>3, <2>1
  <2> QED
    BY <1>4, <1>5, <2>2
<1>6. CASE c = op[o].on
  <2> DEFINE T == OfThread(o, k)
  <2>1. /\ T \subseteq A /\ IsFiniteSet(T) /\ \A t \in A : t[1] = o => t \in T
        /\ Cardinality(T) = Cost(op[o].steps, op[o].done, k)
    BY <1>6, ThreadsShare
  <2>2. \A t \in T : t[1] = o
    BY DEF OfThread
  <2>3. B = A \ T
    BY <1>3, <2>1, <2>2
  <2> HIDE DEF A, B, T
  <2>4. A \cap T = T
    BY <2>1
  <2>5. Cardinality(B) = Cardinality(A) - Cardinality(T)
    <3>1. Cardinality(A \ T) = Cardinality(A) - Cardinality(A \cap T)
      BY <1>4, FS_Difference
    <3> QED
      BY <2>3, <2>4, <3>1
  <2>6. Cardinality(T) \in Nat
    BY <2>1, FS_CardinalityType
  <2> QED
    BY <1>4, <1>6, <2>1, <2>5, <2>6 DEF A, B
<1> QED
  BY <1>5, <1>6

(* A thread which allocates the next thing.                                *)
LEMMA NextShare ==
  ASSUME NdisTypes, NEW o \in Op, Allocate(o),
         NEW c \in Context, NEW k
  PROVE  Cardinality(Allocated(c, k)') =
           Cardinality(Allocated(c, k))
           + IF c = op[o].on /\ k = op[o].steps[op[o].done + 1] THEN 1 ELSE 0
<1> DEFINE A == Allocated(c, k)
           B == Allocated(c, k)'
           n == op[o].done + 1
           mine == c = op[o].on /\ k = op[o].steps[n]
<1>1. op[o] # Idle
  BY Steps DEF Allocate
<1>2. /\ n \in 1 .. 5 /\ op[o].done \in Nat
      /\ op[o] = [steps |-> op[o].steps, done |-> op[o].done, on |-> op[o].on]
  <2>1. /\ op[o].done \in Nat /\ Len(op[o].steps) \in 3 .. 5
        /\ op[o] = [steps |-> op[o].steps, done |-> op[o].done, on |-> op[o].on]
    BY <1>1, AtWork
  <2> QED
    BY <2>1 DEF Allocate
<1>3. \A p \in Op : /\ op'[p].on = op[p].on /\ op'[p].steps = op[p].steps
                    /\ op'[p].done = IF p = o THEN n ELSE op[p].done
  BY <1>2 DEF Allocate, NdisTypes
<1>4. B = A \cup (IF mine THEN {<<o, n>>} ELSE {})
  <2>1. A = {t \in Op \X (1 .. 5) : /\ op[t[1]].on = c /\ t[2] <= op[t[1]].done
                                    /\ op[t[1]].steps[t[2]] = k}
    BY Steps DEF Allocated
  <2>2. B = {t \in Op \X (1 .. 5) : /\ op[t[1]].on = c /\ t[2] <= op'[t[1]].done
                                    /\ op[t[1]].steps[t[2]] = k}
    BY <1>3, Steps DEF Allocated
  <2> HIDE DEF A, B
  <2>3. ASSUME NEW t \in Op \X (1 .. 5)
        PROVE  t[2] <= op'[t[1]].done <=> t[2] <= op[t[1]].done \/ t = <<o, n>>
    <3>1. t = <<t[1], t[2]>> /\ t[1] \in Op /\ t[2] \in 1 .. 5
      BY <2>3
    <3>2. CASE t[1] # o
      BY <1>3, <3>1, <3>2
    <3>3. CASE t[1] = o
      <4>1. op'[o].done = op[o].done + 1
        BY <1>3
      <4>2. t[2] <= op[o].done + 1 <=> t[2] <= op[o].done \/ t[2] = op[o].done + 1
        BY <1>2, <3>1
      <4> QED
        BY <3>1, <3>3, <4>1, <4>2
    <3> QED
      BY <3>2, <3>3
  <2>4. <<o, n>> \in Op \X (1 .. 5) /\ <<o, n>>[1] = o /\ <<o, n>>[2] = n
    BY <1>2
  <2> QED
    BY <2>1, <2>2, <2>3, <2>4
<1>5. IsFiniteSet(A) /\ Cardinality(A) \in Nat
  BY AllocatedIsFinite
<1>6. <<o, n>> \notin A
  BY <1>2 DEF Allocated
<1> HIDE DEF A, B, n
<1>7. CASE mine
  <2>1. B = A \cup {<<o, n>>}
    BY <1>4, <1>7
  <2>2. Cardinality(B) = Cardinality(A) + 1
    BY <1>5, <1>6, <2>1, FS_AddElement
  <2> QED
    BY <1>7, <2>2 DEF A, B, n
<1>8. CASE ~mine
  <2>1. B = A
    BY <1>4, <1>8
  <2> QED
    BY <1>5, <1>8, <2>1 DEF A, B, n
<1> QED
  BY <1>7, <1>8

-----------------------------------------------------------------------------
(* What is being opened                                                    *)

(* The steps which Opening is about: they change what a context has, its   *)
(* state, what is used of it, what NDIS has, or what a thread works on.    *)
LEMMA OpeningContext ==
  ASSUME NdisTypes, Opening, NEW c \in Context,
         \/ Bind(c) \/ BindFails(c) \/ BindStep(c) \/ UnbindStep(c)
         \/ SendComplete(c) \/ TransferDataComplete(c)
  PROVE  Opening'
<1>1. CASE Bind(c)
  BY <1>1 DEF Bind, Opening, NdisTypes, traffic
<1>2. CASE BindFails(c)
  BY <1>2 DEF BindFails, Opening, NdisTypes, traffic
<1>3. CASE BindTake(c)
  <2>0. got[c] \subseteq Bindings /\ got'[c] \subseteq Bindings
    <3>1. got[c] \subseteq Bindings
      BY DEF Opening
    <3>2. got'[c] \in {{"context"}, got[c] \cup {"packet pool"}, got[c] \cup {"buffer pool"},
                      got[c] \cup {"adapter"}}
      BY <1>3 DEF BindTake, NdisTypes
    <3> QED
      BY <3>1, <3>2 DEF Bindings
  <2>1. /\ UNCHANGED <<op, used, flight>>
        /\ \A d \in Context : binding'[d] = binding[d]
             \/ (d = c /\ binding[d] = "opening" /\ binding'[d] = "mac")
    BY <1>3 DEF BindTake, NdisTypes, traffic
  <2>2. \A d \in Context \ {c} : got'[d] = got[d]
    BY <1>3 DEF BindTake, NdisTypes
  <2>3. "adapter" \in got'[c] => binding'[c] = "mac"
    <3>1. binding'[c] = IF got'[c] = Bindings THEN "mac" ELSE "opening"
      BY <1>3 DEF BindTake, NdisTypes
    <3>2. "adapter" \notin got[c]
      BY <1>3 DEF BindTake, Opening
    <3>3. CASE "context" \in got[c] /\ "packet pool" \in got[c] /\ "buffer pool" \in got[c]
      <4>1. got'[c] = got[c] \cup {"adapter"}
        BY <1>3, <3>3 DEF BindTake, NdisTypes
      <4>2. got'[c] = Bindings
        BY <2>0, <3>3, <4>1 DEF Bindings
      <4> QED
        BY <3>1, <4>2
    <3>4. CASE ~("context" \in got[c] /\ "packet pool" \in got[c] /\ "buffer pool" \in got[c])
      BY <1>3, <3>2, <3>4 DEF BindTake, NdisTypes
    <3> QED
      BY <3>1, <3>3, <3>4
  <2>4. binding'[c] # "none"
    BY <1>3 DEF BindTake, NdisTypes
  <2> QED
    BY <2>0, <2>1, <2>2, <2>3, <2>4 DEF Opening
<1>4. CASE Request(c) \/ RequestWaited(c)
  <2>1. /\ UNCHANGED <<got, op, used, flight>>
        /\ \E b \in Before \ {"none", "opening"} : binding' = [binding EXCEPT ![c] = b]
    BY <1>4 DEF Request, RequestWaited, AfterRequest, Before, NdisTypes,
                traffic
  <2> QED
    BY <2>1 DEF Opening, NdisTypes
<1>5. CASE RequestComplete(c)
  BY <1>5 DEF RequestComplete, Opening, traffic
<1>6. CASE AppendContext(c) \/ Unlink(c) \/ UnbindSignal(c)
  <2>1. /\ UNCHANGED <<got, op, used, flight>>
        /\ \E b \in After : binding' = [binding EXCEPT ![c] = b]
    BY <1>6 DEF AppendContext, Unlink, UnbindSignal, After, traffic
  <2> QED
    BY <2>1 DEF Opening, NdisTypes, After
<1>7. CASE Free(c)
  <2>1. \A o \in Op, d \in Context : op[o].on # d => op'[o].on # d
    BY <1>7, Steps, PoolAssumption DEF Free
  <2>2. /\ UNCHANGED <<used, flight>> /\ got' = [got EXCEPT ![c] = {}]
        /\ binding' = [binding EXCEPT ![c] = "freed"]
    BY <1>7 DEF Free
  <2> QED
    BY <2>1, <2>2 DEF Opening, NdisTypes
<1>8. CASE SendComplete(c) \/ TransferDataComplete(c)
  <2>1. binding[c] \notin {"none", "opening"}
    <3>1. ~(flight[c].send = 0 /\ flight[c].transfer = 0)
      BY <1>8 DEF SendComplete, TransferDataComplete, NdisTypes
    <3> QED
      BY <3>1 DEF Opening
  <2>2. /\ UNCHANGED <<binding, got, op>>
        /\ \A d \in Context \ {c} : flight'[d] = flight[d] /\ used'[d] = used[d]
    BY <1>8 DEF SendComplete, TransferDataComplete, adapter, NdisTypes
  <2> QED
    BY <2>1, <2>2 DEF Opening
<1> QED
  BY <1>1, <1>2, <1>3, <1>4, <1>5, <1>6, <1>7, <1>8 DEF BindStep, UnbindStep

(* A thread works on contexts only which are past their opening.           *)
LEMMA OpeningOp ==
  ASSUME NdisTypes, Linking, Opening, NEW o \in Op, OpStep(o)
  PROVE  Opening'
<1>0. UNCHANGED <<binding, got>>
  BY DEF OpStep, Send, Receive, Broadcast, Visit,
         Advance, BroadcastDone, Allocate, AllocateFails, Pass,
         adapter
<1>1. ASSUME NEW c \in Context, NEW s, binding[c] \notin {"none", "opening"},
             Begin(o, c, s), UNCHANGED <<used, flight>>
      PROVE  Opening'
  BY <1>0, <1>1 DEF Begin, Opening, NdisTypes
<1>2. ASSUME NEW m, Lookup(m) # Null
      PROVE  Lookup(m) \in Context /\ binding[Lookup(m)] \notin {"none", "opening"}
  BY <1>2, Taking DEF Linking
<1>3. ASSUME NEW m \in Mac, Send(o, m)  PROVE Opening'
  BY <1>1, <1>2, <1>3 DEF Send
<1>4. ASSUME NEW c \in Context, Receive(o, c)  PROVE Opening'
  BY <1>1, <1>4 DEF Receive, Opening
<1>5. CASE Visit(o)
  BY <1>0, <1>1, <1>2, <1>5 DEF Visit, Opening
<1>6. CASE Broadcast(o) \/ Advance(o) \/ BroadcastDone(o)
  BY <1>0, <1>6 DEF Broadcast, Advance, BroadcastDone, Opening
<1>7. CASE Allocate(o) \/ AllocateFails(o) \/ Pass(o)
  <2>1. op[o] # Idle
    BY <1>7, Steps DEF Allocate, AllocateFails, Pass
  <2>2. op[o].on \in Context /\ binding[op[o].on] \notin {"none", "opening"}
    BY <2>1, AtWork DEF Opening
  <2>3. \A d \in Context \ {op[o].on} : used'[d] = used[d] /\ flight'[d] = flight[d]
    BY <1>7 DEF Allocate, AllocateFails, Pass, NdisTypes
  <2>4. \A p \in Op : op'[p] = op[p] \/ op'[p].on \in {op[p].on, Null}
    <3>1. CASE Allocate(o)
      BY <3>1 DEF Allocate, NdisTypes
    <3>2. CASE AllocateFails(o) \/ Pass(o)
      BY <3>2, Steps DEF AllocateFails, Pass, NdisTypes
    <3> QED
      BY <1>7, <3>1, <3>2
  <2> QED
    BY <1>0, <2>2, <2>3, <2>4, PoolAssumption DEF Opening
<1> QED
  BY <1>3, <1>4, <1>5, <1>6, <1>7 DEF OpStep

-----------------------------------------------------------------------------
(* One more packet, or one less, which takes s.                            *)
LEMMA OneMore ==
  ASSUME NEW n \in Nat, NEW s \in Nat
  PROVE  (n + 1) * s = n * s + s /\ (n - 1) * s = n * s - s /\ n * s \in Nat
OBVIOUS

AllocatedFinite ==
  \A c, k : IsFiniteSet(Allocated(c, k)) /\ Cardinality(Allocated(c, k)) \in Nat
AccurateAlways == Accounted <=> PoolsAccurate

LEMMA AllocatedIsFiniteNow == AllocatedFinite
BY AllocatedIsFinite DEF AllocatedFinite

LEMMA AllocatedIsFiniteNext == AllocatedFinite'
BY AllocatedIsFiniteNow, PTL

LEMMA AccurateNow == AccurateAlways
BY AccountedIsAccurate DEF AccurateAlways

LEMMA AccurateNext == AccurateAlways'
BY AccurateNow, PTL

LEMMA AccountedKept ==
  ASSUME Accounted, NEW c \in Context,
         \A d \in Context \ {c} :
           /\ got'[d] = got[d] /\ used'[d] = used[d] /\ flight'[d] = flight[d]
           /\ \A k \in Kind : Allocated(d, k)' = Allocated(d, k),
         got'[c] # {} => \A k \in Kind : Accurate(c, k)'
  PROVE  Accounted'
BY DEF Accounted, Accurate

LEMMA SameAllocated ==
  ASSUME UNCHANGED op, NEW c, NEW k
  PROVE  Allocated(c, k)' = Allocated(c, k)
BY DEF Allocated

LEMMA AccountedContext ==
  ASSUME NdisTypes, Opening, Accounted, NEW c \in Context,
         \/ Bind(c) \/ BindFails(c) \/ BindStep(c) \/ UnbindStep(c)
         \/ SendComplete(c) \/ TransferDataComplete(c)
  PROVE  Accounted'
<1>1. ASSUME UNCHANGED <<got, op, used, flight>>  PROVE Accounted'
  BY <1>1, SameAllocated DEF Accounted, Accurate
<1>2. CASE \/ Bind(c) \/ Request(c) \/ RequestComplete(c)
           \/ RequestWaited(c) \/ AppendContext(c) \/ Unlink(c)
           \/ UnbindSignal(c)
  BY <1>1, <1>2 DEF Bind, Request, RequestComplete, RequestWaited,
                    AppendContext, Unlink, UnbindSignal, traffic
<1>3. CASE BindFails(c)
  <2>1. UNCHANGED <<op, used, flight>> /\ got' = [got EXCEPT ![c] = {}]
    BY <1>3 DEF BindFails, traffic
  <2> QED
    BY <2>1, SameAllocated, AccountedKept DEF NdisTypes
<1>4. CASE BindTake(c)
  <2>1. UNCHANGED <<op, used, flight>> /\ \A d \in Context \ {c} : got'[d] = got[d]
    BY <1>4 DEF BindTake, traffic, NdisTypes
  <2>2. ASSUME NEW k \in Kind  PROVE Accurate(c, k)'
    <3>1. /\ used[c][k] = 0 /\ flight[c].send = 0 /\ flight[c].transfer = 0
          /\ \A o \in Op : op[o].on # c
      <4>1. binding[c] = "opening"
        BY <1>4 DEF BindTake
      <4>2. /\ \A x \in Kind : used[c][x] = 0
            /\ flight[c] = [send |-> 0, transfer |-> 0]
            /\ \A o \in Op : op[o].on # c
        BY <4>1 DEF Opening
      <4> QED
        BY <4>2
    <3>2. Allocated(c, k)' = {}
      BY <2>1, <3>1, SameAllocated DEF Allocated
    <3>3. Sending(k) \in Nat /\ Receiving(k) \in Nat
      BY CostType DEF Sending, Receiving
    <3>4. 0 * Sending(k) = 0 /\ 0 * Receiving(k) = 0
      BY <3>3
    <3> QED
      BY <2>1, <3>1, <3>2, <3>4, FS_EmptySet DEF Accurate
  <2> QED
    BY <2>1, <2>2, SameAllocated, AccountedKept
<1>5. CASE Free(c)
  <2>1. /\ UNCHANGED <<used, flight>> /\ got' = [got EXCEPT ![c] = {}]
        /\ \A o \in Op : op'[o] = IF op[o].on = c THEN Idle ELSE op[o]
    BY <1>5 DEF Free
  <2>2. ASSUME NEW d \in Context \ {c}, NEW k
        PROVE  Allocated(d, k)' = Allocated(d, k)
    <3>1. \A o \in Op : IF op[o].on = c THEN op'[o].on # d /\ op[o].on # d
                        ELSE op'[o] = op[o]
      BY <2>1, Steps, PoolAssumption
    <3>2. \A t \in Op \X (1 .. 5) : t[1] \in Op
      OBVIOUS
    <3> QED
      BY <3>1, <3>2, Steps DEF Allocated
  <2> QED
    BY <2>1, <2>2, AccountedKept DEF NdisTypes
<1>6. CASE SendComplete(c) \/ TransferDataComplete(c)
  <2>1. /\ UNCHANGED <<got, op>>
        /\ \A d \in Context \ {c} : used'[d] = used[d] /\ flight'[d] = flight[d]
    BY <1>6 DEF SendComplete, TransferDataComplete, adapter, NdisTypes
  <2>2. ASSUME NEW k \in Kind, got[c] # {}  PROVE Accurate(c, k)'
    <3> DEFINE s == Sending(k)
               r == Receiving(k)
               n == flight[c].send
               m == flight[c].transfer
               a == Cardinality(Allocated(c, k))
    <3>1. /\ s \in Nat /\ r \in Nat /\ a \in Nat /\ n \in Nat /\ m \in Nat
          /\ used[c][k] \in Int
      BY CostType, AllocatedIsFinite, <2>2 DEF Sending, Receiving, NdisTypes
    <3>2. used[c][k] = n * s + m * r + a
      BY <2>2 DEF Accounted, Accurate
    <3>3. Cardinality(Allocated(c, k)') = a
      BY <2>1, SameAllocated
    <3>4. CASE SendComplete(c)
      <4>1. /\ used'[c][k] = used[c][k] - s
            /\ flight'[c].send = n - 1 /\ flight'[c].transfer = m
        BY <2>2, <3>4 DEF SendComplete, NdisTypes, Sending
      <4>2. used'[c][k] = (n - 1) * s + m * r + a
        <5> HIDE DEF s, r, n, m, a
        <5>1. (n - 1) * s = n * s - s /\ n * s \in Nat /\ m * r \in Nat
          BY <3>1, OneMore
        <5> QED
          BY <3>1, <3>2, <4>1, <5>1
      <4> QED
        BY <3>3, <4>1, <4>2 DEF Accurate
    <3>5. CASE TransferDataComplete(c)
      <4>1. /\ used'[c][k] = used[c][k] - r
            /\ flight'[c].send = n /\ flight'[c].transfer = m - 1
        BY <2>2, <3>5 DEF TransferDataComplete, NdisTypes, Receiving
      <4>2. used'[c][k] = n * s + (m - 1) * r + a
        <5> HIDE DEF s, r, n, m, a
        <5>1. (m - 1) * r = m * r - r /\ n * s \in Nat /\ m * r \in Nat
          BY <3>1, OneMore
        <5> QED
          BY <3>1, <3>2, <4>1, <5>1
      <4> QED
        BY <3>3, <4>1, <4>2 DEF Accurate
    <3> QED
      BY <1>6, <3>4, <3>5
  <2> QED
    BY <2>1, <2>2, SameAllocated, AccountedKept
<1> QED
  BY <1>2, <1>3, <1>4, <1>5, <1>6 DEF BindStep, UnbindStep

LEMMA AccountedOp ==
  ASSUME NdisTypes, Accounted, NEW o \in Op, OpStep(o)
  PROVE  Accounted'
<1>0. UNCHANGED got
  BY DEF OpStep, Send, Receive, Broadcast, Visit,
         Advance, BroadcastDone, Allocate, AllocateFails, Pass,
         adapter
<1>1. ASSUME NEW c, NEW s, op[o] = Idle, Begin(o, c, s), UNCHANGED <<used, flight>>
      PROVE  Accounted'
  <2>1. \A d, k : Allocated(d, k)' = Allocated(d, k)
    BY <1>1, BeginShare
  <2> QED
    BY <1>0, <1>1, <2>1 DEF Accounted, Accurate
<1>2. ASSUME UNCHANGED <<op, used, flight>>  PROVE Accounted'
  BY <1>0, <1>2, SameAllocated DEF Accounted, Accurate
<1>3. CASE \/ \E m \in Mac : Send(o, m)
           \/ \E c \in Context : Receive(o, c)
           \/ Broadcast(o) \/ Visit(o) \/ Advance(o) \/ BroadcastDone(o)
  BY <1>1, <1>2, <1>3 DEF Send, Receive, Broadcast, Visit, Advance,
                          BroadcastDone, CanWork
<1>4. CASE Allocate(o) \/ AllocateFails(o) \/ Pass(o)
  <2>1. op[o] # Idle
    <3>1. op[o].done < Len(op[o].steps) => op[o] # Idle
      BY Steps
    <3> QED
      BY <1>4, <3>1 DEF Allocate, AllocateFails, Pass
  <2>2. /\ op[o].on \in Context /\ op[o].done \in Nat
        /\ op[o].steps \in {SendSteps, ReceiveSteps}
    BY <2>1, AtWork
  <2> SUFFICES ASSUME NEW c \in Context, got[c] # {}, NEW k \in Kind
               PROVE  Accurate(c, k)'
    BY <1>0 DEF Accounted
  <2> DEFINE s == Sending(k)
             r == Receiving(k)
             n == flight[c].send
             m == flight[c].transfer
             a == Cardinality(Allocated(c, k))
             b == Cardinality(Allocated(c, k)')
             t == Cost(op[o].steps, op[o].done, k)
  <2>3. /\ s \in Nat /\ r \in Nat /\ a \in Nat /\ n \in Nat /\ m \in Nat
        /\ t \in Nat /\ used[c][k] \in Int
    BY <2>2, CostType, AllocatedIsFinite DEF Sending, Receiving, NdisTypes
  <2>4. used[c][k] = n * s + m * r + a
    BY DEF Accounted, Accurate
  <2>5. n * s \in Nat /\ m * r \in Nat
    <3> HIDE DEF s, r, n, m, a
    <3> QED
      BY <2>3, OneMore
  <2>6. CASE Allocate(o)
    <3> DEFINE x == IF c = op[o].on /\ k = op[o].steps[op[o].done + 1] THEN 1 ELSE 0
    <3>1. b = a + x
      BY <2>6, NextShare
    <3>2. used'[c][k] = used[c][k] + x /\ flight' = flight
      BY <2>6 DEF Allocate, NdisTypes
    <3>3. used'[c][k] = n * s + m * r + b
      <4>1. x \in Nat
        OBVIOUS
      <4> HIDE DEF s, r, n, m, a, b, x
      <4> QED
        BY <2>3, <2>4, <2>5, <3>1, <3>2, <4>1
    <3> QED
      BY <3>2, <3>3 DEF Accurate
  <2>7. CASE AllocateFails(o)
    <3> DEFINE x == IF c = op[o].on THEN t ELSE 0
    <3>0. op' = [op EXCEPT ![o] = Idle]
      BY <2>7 DEF AllocateFails
    <3>1. a = b + x
      BY <2>1, <3>0, EndShare
    <3>2. used'[c][k] = used[c][k] - x /\ flight' = flight
      BY <2>7 DEF AllocateFails, NdisTypes
    <3>3. used'[c][k] = n * s + m * r + b
      <4>1. x \in Nat
        BY <2>3
      <4>2. b \in Nat
        BY AllocatedIsFiniteNext DEF AllocatedFinite
      <4> HIDE DEF s, r, n, m, a, b, x
      <4> QED
        BY <2>3, <2>4, <2>5, <3>1, <3>2, <4>1, <4>2
    <3> QED
      BY <3>2, <3>3 DEF Accurate
  <2>8. CASE Pass(o)
    <3> DEFINE x == IF c = op[o].on THEN t ELSE 0
    <3>0. op' = [op EXCEPT ![o] = Idle] /\ used' = used
      BY <2>8 DEF Pass
    <3>1. a = b + x
      BY <2>1, <3>0, EndShare
    <3>2. b \in Nat
      BY AllocatedIsFiniteNext DEF AllocatedFinite
    <3>3. CASE c # op[o].on
      <4>1. flight'[c] = flight[c]
        BY <2>8, <3>3 DEF Pass, NdisTypes
      <4>2. a = b
        BY <3>1, <3>2, <3>3
      <4> QED
        BY <2>4, <3>0, <4>1, <4>2 DEF Accurate
    <3>4. CASE c = op[o].on /\ op[o].steps = SendSteps
      <4>1. flight'[c].send = n + 1 /\ flight'[c].transfer = m
        BY <2>8, <3>4 DEF Pass, NdisTypes
      <4>2. t = s
        BY <2>8, <3>4, Steps DEF Pass, Sending
      <4>3. used[c][k] = (n + 1) * s + m * r + b
        <5>1. a = b + s
          BY <3>1, <3>4, <4>2
        <5> HIDE DEF s, r, n, m, a, b
        <5>2. (n + 1) * s = n * s + s
          BY <2>3, OneMore
        <5> QED
          BY <2>3, <2>4, <2>5, <3>2, <5>1, <5>2
      <4> QED
        BY <3>0, <4>1, <4>3 DEF Accurate
    <3>5. CASE c = op[o].on /\ op[o].steps = ReceiveSteps
      <4>1. flight'[c].send = n /\ flight'[c].transfer = m + 1
        BY <2>8, <3>5, Steps DEF Pass, NdisTypes
      <4>2. t = r
        BY <2>8, <3>5, Steps DEF Pass, Receiving
      <4>3. used[c][k] = n * s + (m + 1) * r + b
        <5>1. a = b + r
          BY <3>1, <3>5, <4>2
        <5> HIDE DEF s, r, n, m, a, b
        <5>2. (m + 1) * r = m * r + r
          BY <2>3, OneMore
        <5> QED
          BY <2>3, <2>4, <2>5, <3>2, <5>1, <5>2
      <4> QED
        BY <3>0, <4>1, <4>3 DEF Accurate
    <3> QED
      BY <2>2, <3>3, <3>4, <3>5
  <2> QED
    BY <1>4, <2>6, <2>7, <2>8
<1> QED
  BY <1>3, <1>4 DEF OpStep

-----------------------------------------------------------------------------
(* The invariant                                                           *)

LEMMA NdisBegins ==
  ASSUME NdisInit
  PROVE  NdisInv
<1>1. NdisTypes
  BY DEF NdisInit, NdisTypes, Before, NdisPacket, NdisWalk, NoWalk, Kind
<1>2. Linking
  BY <1>1, FromKnown DEF Linking, NdisInit, Linked, FromFacts, Links, NdisTypes
<1>3. Opening
  BY PoolAssumption DEF Opening, NdisInit, Idle
<1>4. Accounted
  BY DEF Accounted, NdisInit
<1>5. \A o \in Op : Reaching(o)
  BY DEF Reaching, NdisInit, NoWalk
<1> QED
  BY <1>1, <1>2, <1>3, <1>4, <1>5, AccountedIsAccurate DEF NdisInv

LEMMA NdisKept ==
  ASSUME NdisInv, [NdisNext]_ndisVars
  PROVE  NdisInv'
<1>0. NdisTypes /\ Linking /\ Opening /\ Accounted
  BY AccountedIsAccurate DEF NdisInv
<1>1. NdisTypes'
  <2>1. CASE Aside
    BY <1>0, <2>1 DEF Aside, NdisTypes, links, adapter, traffic
  <2> QED
    BY <1>0, <2>1, NdisSteps, NdisTypesContext, NdisTypesOp
<1>2. Linking'
  BY <1>0, LinkSteps
<1>3. Opening'
  <2>1. CASE Aside
    BY <1>0, <2>1 DEF Aside, Opening, adapter, traffic
  <2> QED
    BY <1>0, <2>1, NdisSteps, OpeningContext, OpeningOp
<1>4. Accounted'
  <2>1. CASE Aside
    BY <1>0, <2>1, SameAllocated DEF Aside, Accounted, Accurate, adapter, traffic
  <2> QED
    BY <1>0, <2>1, NdisSteps, AccountedContext, AccountedOp
<1>5. \A o \in Op : Reaching(o)'
  BY <1>0, <1>1, ReachingSteps DEF NdisInv
<1> QED
  BY <1>1, <1>2, <1>3, <1>4, <1>5, AccurateNext DEF AccurateAlways, NdisInv

(* Whatever happens to bindings and packets, the list of bindings is a     *)
(* chain of the contexts which are bound, and the pools are accounted for. *)
THEOREM NdisInvariant == NdisSpec => []NdisInv
BY NdisBegins, NdisKept, PTL DEF NdisSpec

(* PoolsAccurate: in protocol.c no failure and no completion of a packet   *)
(* loses or frees twice what was taken of a context's memory and pools.    *)
THEOREM PoolsStayAccurate == NdisSpec => []PoolsAccurate
<1>1. NdisInv => PoolsAccurate
  BY DEF NdisInv
<1> QED
  BY <1>1, NdisInvariant, PTL

(* BroadcastReachesAll: the walk of Protocol_Send over the unlocked list   *)
(* misses no adapter which was bound all the time.                         *)
THEOREM BroadcastsReachAll == NdisSpec => []BroadcastReachesAll
<1>1. NdisInv => BroadcastReachesAll
  BY DEF NdisInv, Reaching, Ahead, Tried, BroadcastReachesAll
<1> QED
  BY <1>1, NdisInvariant, PTL
=============================================================================
