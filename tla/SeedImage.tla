------------------------------ MODULE SeedImage ------------------------------
(***************************************************************************)
(* The images qemu-center writes by itself: the FAT16 volume that carries  *)
(* the cloud-init seed (fat.rs), built file by file, and the ISO 9660      *)
(* image of its first design, which is kept as a library (iso.rs).  A name *)
(* is what the two builders tell apart in it; a file is its length, and a  *)
(* block of it the range of bytes it holds.  What is read back is defined  *)
(* on its own, the way the format is read.                                 *)
(***************************************************************************)
EXTENDS Integers, Sequences, FiniteSets, SequencesExt

CONSTANTS
  LongNames,     \* [text, stem, plain, units]: see ShortName; an ISO name is the text
  Sizes,         \* lengths of files
  Clusters,      \* bound: CLUSTER_COUNT (32695 in the code)
  ClusterBytes,  \* bound: CLUSTER_BYTES (2048 in the code)
  RootEntries,   \* bound: ROOT_ENTRIES (512 in the code)
  Lossy          \* the plain short name of a name that has to be altered
\* An empty name is refused.
ASSUME SeedAssumption == /\ {Clusters, ClusterBytes, RootEntries} \subseteq Nat \ {0} /\ Sizes \subseteq Nat
                         /\ \A n \in LongNames : n.units \in Nat \ {0}

VARIABLES added,     \* <<name, size>> of the files added so far
          root,      \* root directory, slot by slot
          fat,       \* FAT entries; the two copies are one
          data,      \* [cluster -> range of bytes of a file]
          volume,    \* [next, shorts, failed]: the builder's locals
          iso        \* the ISO image, or NoIso
seedVars == <<added, root, fat, data, volume, iso>>

FirstData == 2
Eoc == -1
ClusterIds == FirstData .. (Clusters + 1)
Hole == [name |-> "", from |-> 0, to |-> 0]
NoIso == [records |-> << >>, sectors |-> 0, given |-> [n \in {} |-> 0]]

SeedTypeOK ==
  /\ added \in Seq(LongNames \X Sizes)
  /\ Len(root) <= RootEntries
  /\ fat \in [0..(Clusters + 1) -> {Eoc} \cup 0..(Clusters + 1)]
  /\ \A c \in ClusterIds : data[c].to - data[c].from <= ClusterBytes
  /\ volume.next \in FirstData..(Clusters + FirstData) /\ volume.failed \in BOOLEAN
  /\ iso.sectors \in Nat

\* The label is in the first slot; FAT[0] and FAT[1] are reserved.
SeedInit ==
  /\ added = << >>
  /\ root = <<[kind |-> "label"]>>
  /\ fat = [c \in 0..(Clusters + 1) |-> IF c = 1 THEN Eoc ELSE 0]
  /\ data = [c \in ClusterIds |-> Hole]
  /\ volume = [next |-> FirstData, shorts |-> {}, failed |-> FALSE]
  /\ iso = NoIso

CeilDiv(a, b) == (a + b - 1) \div b

-----------------------------------------------------------------------------
(* build_fat16_image.                                                      *)

\* derive_short_name: the plain name if it need not be altered and is free, else the
\* stem with the first free tail.
ShortName(n, shorts) ==
  IF n.plain # Lossy /\ n.plain \notin shorts THEN n.plain
  ELSE LET free == {t \in 1..(Cardinality(shorts) + 1) : <<n.stem, t>> \notin shorts}
       IN <<n.stem, CHOOSE t \in free : \A u \in free : t <= u>>

\* lfn_entries: on the disk the last piece of the name comes first.
Pieces(n) == CeilDiv(n.units, 13)
LongEntries(n, short) ==
  Reverse([k \in 1..Pieces(n) |->
    [kind |-> "long", ordinal |-> k, last |-> k = Pieces(n), text |-> n.text, sum |-> short]])

BlocksOf_RoundedDown(size) == size \div ClusterBytes
BlocksOf(size) == CeilDiv(size, ClusterBytes)

RootIsFull(n) == Len(root) + 1 + Pieces(n) > RootEntries
DataIsFull(size) == size > 0 /\ volume.next + BlocksOf(size) > Clusters + FirstData

AddFile(n, size) ==
  LET short  == ShortName(n, volume.shorts)
      first  == volume.next
      blocks == BlocksOf(size)
      chain  == first .. (first + blocks - 1)
      End(c) == (c - first + 1) * ClusterBytes
  IN
  /\ ~volume.failed /\ iso = NoIso
  /\ \A i \in DOMAIN added : added[i][1] # n
  /\ ~RootIsFull(n) /\ ~DataIsFull(size)
  /\ added' = Append(added, <<n, size>>)
  /\ root' = root \o LongEntries(n, short)
                  \o <<[kind |-> "short", short |-> short, first |-> IF size = 0 THEN 0 ELSE first, size |-> size]>>
  /\ fat' = [c \in DOMAIN fat |-> IF c \notin chain THEN fat[c]
                                  ELSE IF c = first + blocks - 1 THEN Eoc ELSE c + 1]
  /\ data' = [c \in DOMAIN data |->
       IF c \notin chain THEN data[c]
       ELSE [name |-> n.text, from |-> End(c) - ClusterBytes, to |-> IF End(c) < size THEN End(c) ELSE size]]
  /\ volume' = [volume EXCEPT !.next = first + blocks, !.shorts = @ \cup {short}]
  /\ UNCHANGED iso

\* Whatever does not fit fails the build: no image is written.
RefuseFile(n, size) ==
  /\ ~volume.failed /\ iso = NoIso
  /\ RootIsFull(n) \/ DataIsFull(size)
  /\ volume' = [volume EXCEPT !.failed = TRUE]
  /\ UNCHANGED <<added, root, fat, data, iso>>

-----------------------------------------------------------------------------
(* build_iso.                                                              *)

Sector == 2048
RootDirLba == 20
RecordLength(identLength) == 32 + identLength + (identLength % 2)
SectorsFor(bytes) == CeilDiv(bytes, Sector)

\* Names are sorted; how the sort orders them does not matter here.  The root never fills
\* its sector (32 files of 24 letters at most), so that its records are never padded apart.
IsoFiles == UNION {[ns -> Sizes] : ns \in {s \in SUBSET LongNames : IsFiniteSet(s)}}

RootBytes(files) == 2 * RecordLength(1) + SumFunction([n \in DOMAIN files |-> RecordLength(n.units + 3)])

BuildIso(files) ==
  LET names == SetToSeq(DOMAIN files)
      start == RootDirLba + SectorsFor(RootBytes(files))
      Before(i) == SumFunction([j \in 1..(i - 1) |-> SectorsFor(files[names[j]])])
      last == start + Before(Len(names) + 1)
  IN
  /\ added = << >> /\ ~volume.failed /\ iso = NoIso
  /\ iso' = [records |-> [i \in DOMAIN names |-> [name |-> names[i].text, extent |-> start + Before(i),
                                                  size |-> files[names[i]]]],
             sectors |-> IF last > start + 1 THEN last ELSE start + 1,
             given   |-> files]
  /\ UNCHANGED <<added, root, fat, data, volume>>

\* parse_iso refuses an image in which a file ends after the image.
ParseIso ==
  IF \E i \in DOMAIN iso.records : iso.records[i].extent + SectorsFor(iso.records[i].size) > iso.sectors
  THEN {} ELSE {<<iso.records[i].name, iso.records[i].size>> : i \in DOMAIN iso.records}

\* iso_size_bytes, in sectors.
IsoSize(files) ==
  RootDirLba + SectorsFor(RootBytes(files)) + SumFunction([n \in DOMAIN files |-> SectorsFor(files[n])])

SeedNext ==
  \/ \E n \in LongNames, size \in Sizes : AddFile(n, size) \/ RefuseFile(n, size)
  \/ \E files \in IsoFiles : BuildIso(files)

SeedSpec == SeedInit /\ [][SeedNext]_seedVars

-----------------------------------------------------------------------------
(* Reading.                                                                *)

ShortSlots == {s \in DOMAIN root : root[s].kind = "short"}

\* The pieces of a long name that lie before its short entry, from the first to the
\* one that says it is the last, all with the checksum of this short name.
LongNameAt(s) ==
  LET mine(k) == s - k > 0 /\ root[s - k].kind = "long" /\ root[s - k].ordinal = k /\ root[s - k].sum = root[s].short
      lasts   == {k \in 1..(s - 1) : (\A j \in 1..k : mine(j)) /\ root[s - k].last}
  IN {root[s - k].text : k \in lasts}

\* The clusters of a chain, which ends at the end mark or where it leaves the volume.
ChainFrom(first) ==
  LET walk[k \in 1..Clusters] ==
        IF k = 1 THEN <<first>>
        ELSE LET c == Last(walk[k - 1]) IN
             IF c \in ClusterIds /\ fat[c] \in ClusterIds THEN Append(walk[k - 1], fat[c]) ELSE walk[k - 1]
  IN IF first \in ClusterIds THEN walk[Clusters] ELSE << >>

Tiles(chain, text, size) ==
  /\ \A k \in DOMAIN chain : /\ data[chain[k]].name = text
                             /\ data[chain[k]].from = (k - 1) * ClusterBytes
  /\ (IF chain = << >> THEN 0 ELSE data[Last(chain)].to) = size

\* The volume that was built holds the files that were added, each with its name as it
\* was given and all of its bytes, and nothing else; an ISO image is read back as the
\* files it was built of, none of which lies over another or over the directory, and has
\* the size that was computed beforehand (one sector more where no file has any bytes).
SeedReadsBack ==
  /\ {<<LongNameAt(s), root[s].size>> : s \in ShortSlots} = {<<{f[1].text}, f[2]>> : f \in ToSet(added)}
  /\ Cardinality(ShortSlots) = Len(added) /\ Cardinality(volume.shorts) = Len(added)
  /\ \A s \in ShortSlots : \A text \in LongNameAt(s) : Tiles(ChainFrom(root[s].first), text, root[s].size)
  /\ iso # NoIso =>
       /\ ParseIso = {<<n.text, iso.given[n]>> : n \in DOMAIN iso.given}
       /\ iso.sectors = IsoSize(iso.given) + (IF \A n \in DOMAIN iso.given : iso.given[n] = 0 THEN 1 ELSE 0)
       /\ \A i, j \in DOMAIN iso.records :
            LET r == iso.records[i] t == iso.records[j] IN
            /\ r.extent > RootDirLba
            /\ i # j /\ r.size > 0 /\ t.size > 0 =>
                 r.extent + SectorsFor(r.size) <= t.extent \/ t.extent + SectorsFor(t.size) <= r.extent
=============================================================================
