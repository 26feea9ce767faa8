-------------------------- MODULE QemuPartsProofs --------------------------
(* Theorems about what qemu-center does beside its nodes: the preset           *)
(* operations on the containers of one (PresetWorkflow), for all numbers of    *)
(* operations and containers; the kernel of WSL (WslKernel), for all files of  *)
(* the user; and the images of a new node (SeedImage), for all files.          *)
EXTENDS PresetWorkflow, WslKernel, SeedImage, OrderFacts, FiniteSetTheorems, SequenceTheorems, TLAPS


ShopOK(s) ==
  /\ s \in [named : Boxes \cup {Nobody}, backup : Boxes \cup {Nobody}, box : Seq(Box)]
  /\ Len(s.box) <= MaxBoxes
  /\ {s.named, s.backup} \subseteq (1..Len(s.box)) \cup {Nobody}

JobRecord    == [kind : Plans, at : 0..11, stale : BOOLEAN, marker : BOOLEAN]
RunnerPlaces == {"idle", "short", "do", "undo", "ok", "failed", "restored", "broken"}
RunnerRecord == [pc : RunnerPlaces,
                 at : 1..7, was : Boxes \cup {Nobody}, renamed : BOOLEAN,
                 made : BOOLEAN, policy : BOOLEAN, power : BOOLEAN]

PresetShapes ==
  /\ ShopOK(shop)
  /\ registered \in BOOLEAN /\ honest \in BOOLEAN
  /\ ledger \subseteq Jobs
  /\ {operating, flock} \subseteq Jobs \cup {Nobody}
  /\ job \in [Jobs -> JobRecord]
  /\ runner \in [Jobs -> RunnerRecord]

\* An operation that has not begun has no runner; one that upgrades has an instance, and
\* only upgrades make backups.
JobsInv ==
  /\ \A j \in Jobs : /\ job[j].at <= Len(Stages(job[j].kind)) + 1
                     /\ job[j].at = 0 => runner[j].pc = "idle"
                     /\ job[j].kind = "upgrade" /\ job[j].at # 0 => registered
  /\ shop.backup # Nobody => registered

Working(j) == runner[j].pc \in {"do", "undo"}

\* Who is called what before each command of an upgrade, and before each of its roll-back,
\* also where a command had its effect and failed, so that nobody has noted it.
UpgradePhase(s, r) ==
  /\ r.pc = "do" =>
       \/ r.at \in 1..4 /\ s.named = r.was /\ s.backup = Nobody /\ ~r.renamed /\ ~r.made
       \/ r.at = 5 /\ s.named = Nobody /\ s.backup = r.was /\ r.renamed /\ ~r.made
       \/ r.at \in 6..7 /\ s.named # Nobody /\ s.backup = r.was /\ r.renamed
  /\ r.pc = "undo" =>
       \/ r.at \in 1..2 /\ ~r.renamed /\ s.named = r.was /\ s.backup = Nobody /\ ~r.made
       \/ r.at \in 1..2 /\ ~r.renamed /\ s.named = Nobody /\ ~r.made
       \/ r.at \in 1..2 /\ r.renamed /\ s.backup = r.was
       \/ r.at = 3 /\ s.named = Nobody
       \/ r.at = 3 /\ s.named = r.was /\ s.backup = Nobody
       \/ r.at = 4 /\ s.named = r.was /\ s.backup = Nobody /\ s.box[r.was].restarts = r.policy

\* The same of a restore, whose roll-back begins when it has renamed what it replaces.
RestorePhase(s, r) ==
  /\ r.pc = "do" =>
       \/ r.at \in 1..3 /\ s.named = r.was /\ s.backup # Nobody /\ ~r.renamed
       \/ r.at = 4 /\ s.named = Nobody /\ s.backup # Nobody /\ r.renamed
       \/ r.at \in 5..6 /\ s.named # Nobody /\ s.backup = Nobody /\ r.renamed
  /\ r.pc = "undo" =>
       \/ r.at = 1 /\ s.named = Nobody /\ s.backup # Nobody
       \/ r.at = 1 /\ s.named # Nobody /\ s.backup = Nobody
       \/ r.at = 2 /\ s.named = Nobody /\ s.backup # Nobody
       \/ r.at \in 3..4 /\ s.named = r.was /\ s.backup # Nobody

\* The lock's holder is the one runner at work.
RunnersInv ==
  \A j \in Jobs : Working(j) =>
    /\ flock = j /\ registered
    /\ runner[j].was \in 1..Len(shop.box)
    /\ \/ job[j].kind = "upgrade" /\ UpgradePhase(shop, runner[j])
       \/ job[j].kind = "restore" /\ RestorePhase(shop, runner[j])

\* What an upgrade hands on restarts with its node and knows what to be put back to.
HandedOn(s) ==
  s.named # Nobody => s.box[s.named].restarts /\ (s.backup # Nobody => s.box[s.named].rollback # Nobody)

NotesTrue(s) == \A b \in 1..Len(s.box) : s.box[b].rollback # Nobody => s.box[b].rollback.policy

HonestPhase(kind, s, r) ==
  /\ r.policy
  /\ kind = "upgrade" /\ r.pc = "do" /\ r.at \in 6..7 => HandedOn(s)
  /\ kind = "restore" => s.box[r.was].rollback # Nobody
  /\ kind = "restore" /\ ((r.pc = "do" /\ r.at = 6) \/ (r.pc = "undo" /\ r.at = 4)) => s.box[s.named].restarts

HonestInv ==
  honest =>
    /\ NotesTrue(shop)
    /\ \A j \in Jobs : Working(j) => HonestPhase(job[j].kind, shop, runner[j])
    /\ (\A j \in Jobs : ~Working(j)) => HandedOn(shop)

PresetInv == PresetShapes /\ JobsInv /\ RunnersInv /\ HonestInv

\* What stays of the containers where only one of them starts or stops, or where only one
\* gets another restart policy.
SameNotes(s, t) ==
  /\ ShopOK(t) /\ Len(t.box) = Len(s.box)
  /\ \A b \in 1..Len(s.box) : t.box[b].rollback = s.box[b].rollback

LEMMA RunningSet ==
  ASSUME ShopOK(shop), shop.named \in 1..Len(shop.box), NEW on \in BOOLEAN,
         shop' = [shop EXCEPT !.box[shop.named].running = on]
  PROVE  /\ SameNotes(shop, shop') /\ shop'.named = shop.named /\ shop'.backup = shop.backup
         /\ \A b \in 1..Len(shop.box) : shop'.box[b].restarts = shop.box[b].restarts
         /\ shop'.box[shop.named].running = on
<1>1. shop.box \in Seq(Box) /\ shop.box[shop.named] \in Box
  BY DEF ShopOK
<1> DEFINE new == [shop.box[shop.named] EXCEPT !.running = on]
<1>2. new \in Box /\ new.restarts = shop.box[shop.named].restarts /\ new.rollback = shop.box[shop.named].rollback /\ new.running = on
  BY <1>1 DEF Box
<1> HIDE DEF new
<1> DEFINE boxes == [shop.box EXCEPT ![shop.named] = new]
<1>3. boxes \in Seq(Box) /\ Len(boxes) = Len(shop.box) /\ boxes[shop.named] = new
      /\ \A b \in 1..Len(shop.box) : b # shop.named => boxes[b] = shop.box[b]
  BY <1>1, <1>2
<1>4. shop' = [shop EXCEPT !.box = boxes]
  BY DEF new
<1> HIDE DEF boxes
<1>5. shop'.box = boxes /\ shop'.named = shop.named /\ shop'.backup = shop.backup
      /\ shop' \in [named : Boxes \cup {Nobody}, backup : Boxes \cup {Nobody}, box : Seq(Box)]
  BY <1>3, <1>4 DEF ShopOK
<1> QED
  BY <1>2, <1>3, <1>5 DEF SameNotes, ShopOK

LEMMA RestartsSet ==
  ASSUME ShopOK(shop), shop.named \in 1..Len(shop.box), NEW on \in BOOLEAN,
         shop' = [shop EXCEPT !.box[shop.named].restarts = on]
  PROVE  /\ SameNotes(shop, shop') /\ shop'.named = shop.named /\ shop'.backup = shop.backup
         /\ shop'.box[shop.named].restarts = on
<1>1. shop.box \in Seq(Box) /\ shop.box[shop.named] \in Box
  BY DEF ShopOK
<1> DEFINE new == [shop.box[shop.named] EXCEPT !.restarts = on]
<1>2. new \in Box /\ new.restarts = on /\ new.rollback = shop.box[shop.named].rollback
  BY <1>1 DEF Box
<1> HIDE DEF new
<1> DEFINE boxes == [shop.box EXCEPT ![shop.named] = new]
<1>3. boxes \in Seq(Box) /\ Len(boxes) = Len(shop.box) /\ boxes[shop.named] = new
      /\ \A b \in 1..Len(shop.box) : b # shop.named => boxes[b] = shop.box[b]
  BY <1>1, <1>2
<1>4. shop' = [shop EXCEPT !.box = boxes]
  BY DEF new
<1> HIDE DEF boxes
<1>5. shop'.box = boxes /\ shop'.named = shop.named /\ shop'.backup = shop.backup
      /\ shop' \in [named : Boxes \cup {Nobody}, backup : Boxes \cup {Nobody}, box : Seq(Box)]
  BY <1>3, <1>4 DEF ShopOK
<1> QED
  BY <1>2, <1>3, <1>5 DEF SameNotes, ShopOK

\* Names only.
LEMMA NamesSet ==
  ASSUME ShopOK(shop), NEW n \in (1..Len(shop.box)) \cup {Nobody}, NEW m \in (1..Len(shop.box)) \cup {Nobody},
         shop' = [shop EXCEPT !.named = n, !.backup = m]
  PROVE  SameNotes(shop, shop') /\ shop'.named = n /\ shop'.backup = m /\ shop'.box = shop.box
<1>1. MaxBoxes \in Nat /\ Len(shop.box) \in Nat
  BY PresetAssumption DEF ShopOK
<1>2. {n, m} \subseteq Boxes \cup {Nobody}
  BY <1>1 DEF ShopOK, Boxes
<1>3. shop' \in [named : Boxes \cup {Nobody}, backup : Boxes \cup {Nobody}, box : Seq(Box)]
      /\ shop'.named = n /\ shop'.backup = m /\ shop'.box = shop.box
  BY <1>2 DEF ShopOK
<1> QED
  BY <1>3 DEF SameNotes, ShopOK

\* A new container takes the name.
LEMMA BoxMade ==
  ASSUME ShopOK(shop), NEW b \in Box, FreshBox \in Boxes, shop' = WithNew(b)
  PROVE  /\ ShopOK(shop') /\ Len(shop'.box) = Len(shop.box) + 1 /\ shop'.backup = shop.backup
         /\ shop'.named = Len(shop.box) + 1 /\ shop'.box[shop'.named] = b
         /\ \A a \in 1..Len(shop.box) : shop'.box[a] = shop.box[a]
<1>1. shop.box \in Seq(Box) /\ Len(shop.box) \in Nat /\ MaxBoxes \in Nat
  BY PresetAssumption DEF ShopOK
<1> DEFINE boxes == Append(shop.box, b)
<1>2. boxes \in Seq(Box) /\ Len(boxes) = Len(shop.box) + 1 /\ boxes[Len(shop.box) + 1] = b
      /\ \A a \in 1..Len(shop.box) : boxes[a] = shop.box[a]
  BY <1>1
<1>3. shop' = [shop EXCEPT !.named = FreshBox, !.box = boxes]
  BY DEF WithNew
<1> HIDE DEF boxes
<1>4. FreshBox = Len(shop.box) + 1 /\ Len(shop.box) + 1 <= MaxBoxes
  BY <1>1 DEF FreshBox, Boxes
<1>5. shop' \in [named : Boxes \cup {Nobody}, backup : Boxes \cup {Nobody}, box : Seq(Box)]
      /\ shop'.named = FreshBox /\ shop'.backup = shop.backup /\ shop'.box = boxes
  BY <1>2, <1>3 DEF ShopOK
<1> QED
  BY <1>1, <1>2, <1>4, <1>5 DEF ShopOK

-----------------------------------------------------------------------------
\* What a runner remembers of its program, with what the last command added.
Remembers(j, renames, makes) ==
  LET r == runner[j]  q == runner'[j] IN
  /\ q.was = r.was /\ q.policy = r.policy /\ q.power = r.power
  /\ (q.renamed <=> r.renamed \/ renames) /\ (q.made <=> r.made \/ makes)

\* The next command, or the end of the program.
Goes(j, renames, makes) ==
  /\ Remembers(j, renames, makes)
  /\ \/ runner[j].at < Len(Program(j)) /\ runner'[j].pc = runner[j].pc /\ runner'[j].at = runner[j].at + 1
     \/ /\ runner[j].at = Len(Program(j)) /\ ~Working(j)'
        /\ runner'[j].pc = "restored" => job[j].kind = "upgrade"

TurnsBack(j) ==
  /\ runner[j].pc = "do" /\ (job[j].kind = "upgrade" \/ runner[j].renamed)
  /\ Remembers(j, FALSE, FALSE)
  /\ runner'[j].pc = "undo" /\ runner'[j].at = 1

OnlyRunner(j) ==
  /\ runner' \in [Jobs -> RunnerRecord]
  /\ \A i \in Jobs : i # j => runner'[i] = runner[i]

\* The lock stays with a runner that goes on with its instance, and is let go of only by
\* its holder.
LockFollows(j) ==
  /\ Working(j)' => flock' = flock /\ runner'[j].was = runner[j].was
  /\ flock' \in {flock, Nobody} /\ (flock # j => flock' = flock)

LEMMA RunnerSet ==
  ASSUME NEW r \in RunnerRecord
  PROVE  /\ \A n \in 1..7 : [r EXCEPT !.at = n] \in RunnerRecord
         /\ \A place \in RunnerPlaces : [r EXCEPT !.pc = place] \in RunnerRecord
         /\ \A place \in RunnerPlaces : \A n \in 1..7 : [r EXCEPT !.pc = place, !.at = n] \in RunnerRecord
<1>1. \A n \in 1..7 : [r EXCEPT !.at = n] \in RunnerRecord
  BY DEF RunnerRecord
<1>2. \A place \in RunnerPlaces : [r EXCEPT !.pc = place] \in RunnerRecord
  BY DEF RunnerRecord
<1>3. ASSUME NEW place \in RunnerPlaces, NEW n \in 1..7 PROVE [r EXCEPT !.pc = place, !.at = n] \in RunnerRecord
  BY DEF RunnerRecord
<1> QED
  BY <1>1, <1>2, <1>3

LEMMA ProceedFacts ==
  ASSUME PresetShapes, NEW j \in Jobs, Working(j), runner[j].at <= Len(Program(j)), Len(Program(j)) \in 1..7,
         NEW renames \in BOOLEAN, NEW makes \in BOOLEAN,
         NEW noted, noted = [runner[j] EXCEPT !.renamed = @ \/ renames, !.made = @ \/ makes],
         Proceed(j, noted)
  PROVE  OnlyRunner(j) /\ LockFollows(j) /\ Goes(j, renames, makes)
<1>1. runner \in [Jobs -> RunnerRecord] /\ runner[j] \in RunnerRecord
  BY DEF PresetShapes
<1>2. /\ noted \in RunnerRecord /\ noted.was = runner[j].was /\ noted.policy = runner[j].policy
      /\ noted.power = runner[j].power /\ noted.pc = runner[j].pc /\ noted.at = runner[j].at
      /\ noted.renamed = (runner[j].renamed \/ renames) /\ noted.made = (runner[j].made \/ makes)
  BY <1>1 DEF RunnerRecord
<1> DEFINE size == Len(Program(j))
<1>3. size \in 1..7 /\ runner[j].at \in 1..size
  BY <1>1 DEF RunnerRecord
<1>4. Proceed(j, noted) <=>
        IF noted.at < size
        THEN runner' = [runner EXCEPT ![j] = [noted EXCEPT !.at = @ + 1]] /\ UNCHANGED flock
        ELSE /\ runner' = [runner EXCEPT ![j] = [noted EXCEPT !.at = 1, !.pc =
                       IF @ = "do" THEN "ok" ELSE IF job[j].kind = "upgrade" THEN "restored" ELSE "failed"]]
             /\ Unlock(j)
  BY DEF Proceed
<1> HIDE DEF size
<1>5. CASE noted.at < size
  <2> DEFINE next == [noted EXCEPT !.at = @ + 1]
  <2>0. noted.at + 1 \in 1..7
    BY <1>2, <1>3, <1>5
  <2>a. next \in RunnerRecord
    <3>1. PICK n \in 1..7 : n = noted.at + 1
      BY <2>0
    <3>2. next = [noted EXCEPT !.at = n]
      BY <3>1
    <3>3. [noted EXCEPT !.at = n] \in RunnerRecord
      BY <1>2, RunnerSet
    <3> QED
      BY <3>2, <3>3
  <2>1. /\ next.was = noted.was /\ next.policy = noted.policy
        /\ next.power = noted.power /\ next.pc = noted.pc /\ next.at = noted.at + 1
        /\ next.renamed = noted.renamed /\ next.made = noted.made
    BY <1>2 DEF RunnerRecord
  <2>2. runner' = [runner EXCEPT ![j] = next] /\ UNCHANGED flock
    BY <1>4, <1>5
  <2> HIDE DEF next
  <2>3. runner'[j] = next /\ OnlyRunner(j)
    BY <1>1, <2>a, <2>2 DEF OnlyRunner
  <2> QED
    BY <1>2, <1>5, <2>1, <2>2, <2>3 DEF LockFollows, Goes, Remembers, size
<1>6. CASE ~(noted.at < size)
  <2> DEFINE over == [noted EXCEPT !.at = 1, !.pc =
                IF @ = "do" THEN "ok" ELSE IF job[j].kind = "upgrade" THEN "restored" ELSE "failed"]
  <2>a. over \in RunnerRecord
    <3>1. PICK place \in RunnerPlaces :
            place = IF noted.pc = "do" THEN "ok" ELSE IF job[j].kind = "upgrade" THEN "restored" ELSE "failed"
      BY DEF RunnerPlaces
    <3>2. over = [noted EXCEPT !.pc = place, !.at = 1]
      BY <1>2, <3>1 DEF RunnerRecord
    <3>3. noted \in RunnerRecord /\ 1 \in 1..7
      BY <1>2
    <3>4. [noted EXCEPT !.pc = place, !.at = 1] \in RunnerRecord
      BY <3>3, RunnerSet
    <3> QED
      BY <3>2, <3>4
  <2>1. /\ over.was = noted.was /\ over.policy = noted.policy
        /\ over.power = noted.power /\ over.pc \in {"ok", "restored", "failed"}
        /\ over.pc = "restored" => job[j].kind = "upgrade"
        /\ over.renamed = noted.renamed /\ over.made = noted.made
    BY <1>2 DEF RunnerRecord
  <2>2. runner' = [runner EXCEPT ![j] = over] /\ Unlock(j)
    BY <1>4, <1>6
  <2> HIDE DEF over
  <2>3. runner'[j] = over /\ OnlyRunner(j)
    BY <1>1, <2>a, <2>2 DEF OnlyRunner
  <2>4. runner[j].at = size
    BY <1>2, <1>3, <1>6
  <2> QED
    BY <1>2, <2>1, <2>2, <2>3, <2>4 DEF LockFollows, Goes, Remembers, Unlock, Working, size
<1> QED
  BY <1>5, <1>6

LEMMA FailsFacts ==
  ASSUME PresetShapes, NEW j \in Jobs, Working(j), Fails(j)
  PROVE  /\ OnlyRunner(j) /\ LockFollows(j)
         /\ \/ TurnsBack(j) /\ UNCHANGED honest
            \/ ~Working(j)' /\ runner'[j].pc = "broken" /\ honest' = FALSE
<1>1. runner \in [Jobs -> RunnerRecord] /\ runner[j] \in RunnerRecord
  BY DEF PresetShapes
<1>2. CASE runner[j].pc = "do" /\ (job[j].kind = "upgrade" \/ runner[j].renamed)
  <2> DEFINE back == [runner[j] EXCEPT !.pc = "undo", !.at = 1]
  <2>a. back \in RunnerRecord
    <3>1. "undo" \in RunnerPlaces /\ 1 \in 1..7
      BY DEF RunnerPlaces
    <3> QED
      BY <1>1, <3>1, RunnerSet
  <2>1. /\ back.was = runner[j].was /\ back.policy = runner[j].policy
        /\ back.power = runner[j].power /\ back.pc = "undo" /\ back.at = 1
        /\ back.renamed = runner[j].renamed /\ back.made = runner[j].made
    BY <1>1 DEF RunnerRecord
  <2>2. runner' = [runner EXCEPT ![j] = back] /\ UNCHANGED <<flock, honest>>
    BY <1>1, <1>2 DEF Fails
  <2> HIDE DEF back
  <2>3. runner'[j] = back /\ OnlyRunner(j)
    BY <1>1, <2>a, <2>2 DEF OnlyRunner
  <2>4. back.renamed \in BOOLEAN /\ back.made \in BOOLEAN
    BY <2>a DEF RunnerRecord
  <2> QED
    BY <1>2, <2>1, <2>2, <2>3, <2>4 DEF LockFollows, TurnsBack, Remembers
<1>3. CASE ~(runner[j].pc = "do" /\ (job[j].kind = "upgrade" \/ runner[j].renamed))
  <2> DEFINE broken == [runner[j] EXCEPT !.pc = "broken"]
  <2>0. "broken" \in RunnerPlaces
    BY DEF RunnerPlaces
  <2>1. broken \in RunnerRecord /\ broken.pc = "broken"
    <3>1. broken \in RunnerRecord
      BY <1>1, <2>0, RunnerSet
    <3> QED
      BY <1>1, <3>1 DEF RunnerRecord
  <2>2. runner' = [runner EXCEPT ![j] = broken] /\ Unlock(j) /\ honest' = FALSE
    BY <1>1, <1>3 DEF Fails, Answers
  <2> HIDE DEF broken
  <2>3. runner'[j] = broken /\ OnlyRunner(j)
    BY <1>1, <2>1, <2>2 DEF OnlyRunner
  <2> QED
    BY <2>1, <2>2, <2>3 DEF LockFollows, Unlock, Working
<1> QED
  BY <1>2, <1>3

\* What one docker command does: it is left out; it has its effect; or the program turns
\* back or breaks off, with or without the effect.
LEMMA CommandOutcome ==
  ASSUME PresetShapes, NEW j \in Jobs, Working(j), DockerCommand(j),
         runner[j].at <= Len(Program(j)), Len(Program(j)) \in 1..7,
         NEW cmd, cmd = Program(j)[runner[j].at]
  PROVE  /\ OnlyRunner(j) /\ LockFollows(j)
         /\ \/ ~Needed(j, cmd) /\ UNCHANGED <<shop, honest>> /\ Goes(j, FALSE, FALSE)
            \/ /\ Needed(j, cmd) /\ Possible(j, cmd) /\ shop' = Effect(j, cmd)
               /\ UNCHANGED honest /\ Goes(j, cmd = "rename", cmd = "create")
            \/ /\ Needed(j, cmd) /\ (shop' = shop \/ (Possible(j, cmd) /\ shop' = Effect(j, cmd)))
               /\ \/ TurnsBack(j) /\ UNCHANGED honest
                  \/ ~Working(j)' /\ runner'[j].pc = "broken" /\ honest' = FALSE
<1> DEFINE noted == [runner[j] EXCEPT !.renamed = @ \/ cmd = "rename", !.made = @ \/ cmd = "create"]
<1>1. runner[j] \in RunnerRecord
  BY DEF PresetShapes
<1>2. \/ ~Needed(j, cmd) /\ Proceed(j, runner[j]) /\ UNCHANGED <<shop, honest>>
      \/ /\ Needed(j, cmd) /\ Possible(j, cmd) /\ shop' = Effect(j, cmd)
         /\ Proceed(j, noted) /\ UNCHANGED honest
      \/ Needed(j, cmd) /\ (shop' = shop \/ (Possible(j, cmd) /\ shop' = Effect(j, cmd))) /\ Fails(j)
  BY DEF DockerCommand
<1>3. CASE ~Needed(j, cmd) /\ Proceed(j, runner[j]) /\ UNCHANGED <<shop, honest>>
  <2>1. runner[j] = [runner[j] EXCEPT !.renamed = @ \/ FALSE, !.made = @ \/ FALSE]
    BY <1>1 DEF RunnerRecord
  <2>2. OnlyRunner(j) /\ LockFollows(j) /\ Goes(j, FALSE, FALSE)
    BY <1>3, <2>1, ProceedFacts
  <2> QED
    BY <1>3, <2>2
<1>4. CASE Needed(j, cmd) /\ Possible(j, cmd) /\ shop' = Effect(j, cmd) /\ Proceed(j, noted) /\ UNCHANGED honest
  <2>1. OnlyRunner(j) /\ LockFollows(j) /\ Goes(j, cmd = "rename", cmd = "create")
    BY <1>4, ProceedFacts
  <2> QED
    BY <1>4, <2>1
<1>5. CASE Needed(j, cmd) /\ (shop' = shop \/ (Possible(j, cmd) /\ shop' = Effect(j, cmd))) /\ Fails(j)
  <2>1. /\ OnlyRunner(j) /\ LockFollows(j)
        /\ \/ TurnsBack(j) /\ UNCHANGED honest
           \/ ~Working(j)' /\ runner'[j].pc = "broken" /\ honest' = FALSE
    BY <1>5, FailsFacts
  <2> QED
    BY <1>5, <2>1
<1> QED
  BY <1>2, <1>3, <1>4, <1>5

-----------------------------------------------------------------------------
\* What a runner's command has to leave behind.
Continues(j) ==
  /\ ShopOK(shop') /\ runner[j].was \in 1..Len(shop'.box)
  /\ Working(j)' => \/ job[j].kind = "upgrade" /\ UpgradePhase(shop', runner'[j])
                    \/ job[j].kind = "restore" /\ RestorePhase(shop', runner'[j])
  /\ honest' => /\ NotesTrue(shop')
                /\ Working(j)' => HonestPhase(job[j].kind, shop', runner'[j])
                /\ ~Working(j)' => HandedOn(shop')

LEMMA NotesKept ==
  ASSUME NEW s, NEW t, SameNotes(s, t), NotesTrue(s)
  PROVE  NotesTrue(t)
BY DEF SameNotes, NotesTrue

LEMMA SameShop == ASSUME NEW s, ShopOK(s) PROVE SameNotes(s, s)
BY DEF SameNotes

\* What is known when a runner is at a command.
LEMMA AtWork ==
  ASSUME PresetInv, NEW j \in Jobs, Working(j)
  PROVE  /\ PresetShapes /\ ShopOK(shop) /\ runner[j] \in RunnerRecord
         /\ runner[j].was \in 1..Len(shop.box) /\ runner[j].was # Nobody
         /\ runner[j].policy \in BOOLEAN /\ runner[j].power \in BOOLEAN
         /\ runner[j].renamed \in BOOLEAN /\ runner[j].made \in BOOLEAN
         /\ runner[j].at \in 1..7 /\ Len(shop.box) \in Nat
         /\ honest => NotesTrue(shop) /\ HonestPhase(job[j].kind, shop, runner[j])
<1>1. PresetShapes /\ ShopOK(shop) /\ runner[j] \in RunnerRecord /\ runner[j].was \in 1..Len(shop.box)
  BY DEF PresetInv, PresetShapes, RunnersInv
<1>2. Len(shop.box) \in Nat /\ runner[j].was # Nobody
  BY <1>1, PresetAssumption DEF ShopOK
<1>3. /\ runner[j].policy \in BOOLEAN /\ runner[j].power \in BOOLEAN
      /\ runner[j].renamed \in BOOLEAN /\ runner[j].made \in BOOLEAN
      /\ runner[j].at \in 1..7
  BY <1>1 DEF RunnerRecord
<1>4. honest => NotesTrue(shop) /\ HonestPhase(job[j].kind, shop, runner[j])
  BY DEF PresetInv, HonestInv
<1> QED
  BY <1>1, <1>2, <1>3, <1>4

\* The command that a runner is at.
LEMMA UpgradeProgram ==
  ASSUME NEW j \in Jobs, job[j].kind = "upgrade"
  PROVE  /\ runner[j].pc = "do" => Program(j) = <<"stop", "clone", "hold", "rename", "create", "start", "activate">>
         /\ runner[j].pc = "undo" => Program(j) = <<"remove", "unrename", "policy", "start">>
BY DEF Program, RunnerCommands, Undoing

LEMMA RestoreProgram ==
  ASSUME NEW j \in Jobs, job[j].kind = "restore"
  PROVE  /\ runner[j].pc = "do" => Program(j) = <<"stop", "hold", "rename", "return", "policy", "start">>
         /\ runner[j].pc = "undo" => Program(j) = <<"giveBack", "unrename", "policy", "start">>
BY DEF Program, RunnerCommands, Undoing

\* Each docker command by itself.
LEMMA Effects ==
  ASSUME NEW j \in Jobs
  PROVE  /\ Effect(j, "stop") = [shop EXCEPT !.box[shop.named].running = FALSE]
         /\ Effect(j, "hold") = [shop EXCEPT !.box[shop.named].restarts = FALSE]
         /\ Effect(j, "policy") = [shop EXCEPT !.box[shop.named].restarts = Goal(j).policy]
         /\ Effect(j, "start") = [shop EXCEPT !.box[shop.named].running = TRUE]
         /\ Effect(j, "remove") = [shop EXCEPT !.named = Nobody]
         /\ Effect(j, "create") = WithNew(NewBox(runner[j].policy, [policy |-> runner[j].policy, power |-> runner[j].power]))
         /\ Effect(j, "rename") = [shop EXCEPT !.named = Nobody, !.backup = IF job[j].kind = "upgrade" THEN shop.named ELSE @]
         /\ Effect(j, "return") = [shop EXCEPT !.named = shop.backup, !.backup = shop.named]
         /\ Effect(j, "giveBack") = [shop EXCEPT !.named = shop.backup, !.backup = shop.named]
         /\ Effect(j, "unrename") = [shop EXCEPT !.named = runner[j].was, !.backup = IF job[j].kind = "upgrade" THEN Nobody ELSE @]
         /\ Effect(j, "clone") = shop /\ Effect(j, "activate") = shop
BY DEF Effect

LEMMA NeededFacts ==
  ASSUME NEW j \in Jobs
  PROVE  /\ \A cmd \in {"stop", "clone", "hold", "rename", "create", "activate", "return", "policy"} : Needed(j, cmd)
         /\ Needed(j, "start") <=> (job[j].kind = "restore" \/ runner[j].pc = "undo" => Goal(j).power)
         /\ Needed(j, "remove") <=> runner[j].made
         /\ Needed(j, "unrename") <=> (job[j].kind = "upgrade" => runner[j].renamed)
         /\ Needed(j, "giveBack") <=> shop.named # Nobody
BY DEF Needed

LEMMA PossibleFacts ==
  ASSUME NEW j \in Jobs
  PROVE  /\ \A cmd \in {"stop", "hold", "policy", "start", "remove", "activate"} :
              Possible(j, cmd) => shop.named # Nobody
         /\ Possible(j, "rename") => shop.named # Nobody
         /\ Possible(j, "create") => shop.named = Nobody /\ FreshBox \in Boxes
         /\ Possible(j, "return") => shop.named = Nobody /\ shop.backup # Nobody
         /\ Possible(j, "unrename") => shop.named = Nobody
         /\ Possible(j, "giveBack") => shop.backup = Nobody
BY DEF Possible

\* The upgrade's program.
LEMMA UpgradeDoes ==
  ASSUME PresetInv, NEW j \in Jobs, job[j].kind = "upgrade", runner[j].pc = "do", DockerCommand(j)
  PROVE  OnlyRunner(j) /\ LockFollows(j) /\ Continues(j)
<1>0. Working(j)
  BY DEF Working
<1>1. /\ PresetShapes /\ ShopOK(shop) /\ runner[j].was \in 1..Len(shop.box) /\ runner[j].was # Nobody
      /\ runner[j].policy \in BOOLEAN /\ runner[j].power \in BOOLEAN /\ runner[j].at \in 1..7
      /\ runner[j].renamed \in BOOLEAN /\ runner[j].made \in BOOLEAN /\ Len(shop.box) \in Nat
      /\ honest => NotesTrue(shop) /\ HonestPhase("upgrade", shop, runner[j])
  BY <1>0, AtWork
<1>2. UpgradePhase(shop, runner[j])
  BY <1>0 DEF PresetInv, RunnersInv
<1>3. Program(j) = <<"stop", "clone", "hold", "rename", "create", "start", "activate">>
  BY UpgradeProgram
<1>4. PICK cmd : cmd = Program(j)[runner[j].at]
  OBVIOUS
<1>5. Len(Program(j)) = 7
  BY <1>3
<1>6. runner[j].at <= Len(Program(j)) /\ Len(Program(j)) \in 1..7
  BY <1>1, <1>5
<1>7. /\ OnlyRunner(j) /\ LockFollows(j)
      /\ \/ ~Needed(j, cmd) /\ UNCHANGED <<shop, honest>> /\ Goes(j, FALSE, FALSE)
         \/ /\ Needed(j, cmd) /\ Possible(j, cmd) /\ shop' = Effect(j, cmd)
            /\ UNCHANGED honest /\ Goes(j, cmd = "rename", cmd = "create")
         \/ /\ Needed(j, cmd) /\ (shop' = shop \/ (Possible(j, cmd) /\ shop' = Effect(j, cmd)))
            /\ \/ TurnsBack(j) /\ UNCHANGED honest
               \/ ~Working(j)' /\ runner'[j].pc = "broken" /\ honest' = FALSE
  BY <1>0, <1>1, <1>4, <1>6, CommandOutcome
<1>8. CASE runner[j].at \in 1..3
  <2>1. cmd \in {"stop", "clone", "hold"}
    BY <1>3, <1>4, <1>8
  <2>2. /\ shop.named = runner[j].was /\ shop.backup = Nobody /\ ~runner[j].renamed /\ ~runner[j].made
        /\ shop.named \in 1..Len(shop.box)
    BY <1>1, <1>2, <1>8 DEF UpgradePhase
  <2>3. Needed(j, cmd)
    BY <2>1, NeededFacts
  <2>4. /\ SameNotes(shop, shop') /\ shop'.named = shop.named /\ shop'.backup = shop.backup
    <3>1. CASE shop' = shop
      BY <1>1, <3>1, SameShop
    <3>2. CASE shop' = Effect(j, cmd)
      <4>1. CASE cmd = "stop"
        <5>1. shop' = [shop EXCEPT !.box[shop.named].running = FALSE]
          BY <3>2, <4>1, Effects
        <5> QED
          BY <1>1, <2>2, <5>1, RunningSet
      <4>2. CASE cmd = "clone"
        BY <1>1, <3>2, <4>2, SameShop, Effects
      <4>3. CASE cmd = "hold"
        <5>1. shop' = [shop EXCEPT !.box[shop.named].restarts = FALSE]
          BY <3>2, <4>3, Effects
        <5> QED
          BY <1>1, <2>2, <5>1, RestartsSet
      <4> QED
        BY <2>1, <4>1, <4>2, <4>3
    <3> QED
      BY <1>7, <2>3, <3>1, <3>2
  <2>5. ShopOK(shop') /\ runner[j].was \in 1..Len(shop'.box)
    BY <1>1, <2>4 DEF SameNotes
  <2>6. honest => NotesTrue(shop')
    BY <1>1, <2>4, NotesKept
  <2>7. \/ Goes(j, FALSE, FALSE) /\ UNCHANGED honest
        \/ TurnsBack(j) /\ UNCHANGED honest
        \/ ~Working(j)' /\ honest' = FALSE
    <3>1. cmd # "rename" /\ cmd # "create"
      BY <2>1
    <3> QED
      BY <1>7, <2>3, <3>1
  <2>8. CASE Goes(j, FALSE, FALSE) /\ UNCHANGED honest
    <3>1. /\ runner'[j].pc = "do" /\ runner'[j].at \in 2..4 /\ runner'[j].was = runner[j].was
          /\ ~runner'[j].renamed /\ ~runner'[j].made /\ runner'[j].policy = runner[j].policy
      <4>1. runner[j].at # Len(Program(j))
        BY <1>5, <1>8
      <4>2. runner'[j].pc = runner[j].pc /\ runner'[j].at = runner[j].at + 1 /\ Remembers(j, FALSE, FALSE)
        BY <2>8, <4>1 DEF Goes
      <4>3. runner'[j].at \in 2..4
        BY <1>8, <4>2
      <4> QED
        BY <2>2, <4>2, <4>3 DEF Remembers
    <3>2. UpgradePhase(shop', runner'[j])
      BY <2>2, <2>4, <3>1 DEF UpgradePhase
    <3>3. Working(j)' /\ (honest' => HonestPhase("upgrade", shop', runner'[j]))
      BY <1>1, <2>8, <3>1 DEF HonestPhase, Working
    <3> QED
      BY <1>7, <2>5, <2>6, <2>8, <3>2, <3>3 DEF Continues
  <2>9. CASE TurnsBack(j) /\ UNCHANGED honest
    <3>1. /\ runner'[j].pc = "undo" /\ runner'[j].at = 1 /\ runner'[j].was = runner[j].was
          /\ ~runner'[j].renamed /\ ~runner'[j].made /\ runner'[j].policy = runner[j].policy
      BY <2>2, <2>9 DEF TurnsBack, Remembers
    <3>2. UpgradePhase(shop', runner'[j])
      BY <2>2, <2>4, <3>1 DEF UpgradePhase
    <3>3. Working(j)' /\ (honest' => HonestPhase("upgrade", shop', runner'[j]))
      BY <1>1, <2>9, <3>1 DEF HonestPhase, Working
    <3> QED
      BY <1>7, <2>5, <2>6, <2>9, <3>2, <3>3 DEF Continues
  <2> QED
    BY <1>7, <2>5, <2>7, <2>8, <2>9 DEF Continues
<1>9. CASE runner[j].at = 4
  <2>1. cmd = "rename" /\ Needed(j, cmd)
    BY <1>3, <1>4, <1>9, NeededFacts
  <2>2. /\ shop.named = runner[j].was /\ shop.backup = Nobody /\ ~runner[j].renamed /\ ~runner[j].made
        /\ shop.named \in 1..Len(shop.box)
    BY <1>1, <1>2, <1>9 DEF UpgradePhase
  <2>3. ASSUME shop' = Effect(j, cmd)
        PROVE  SameNotes(shop, shop') /\ shop'.named = Nobody /\ shop'.backup = runner[j].was
    <3>1. shop' = [shop EXCEPT !.named = Nobody, !.backup = shop.named]
      BY <2>1, <2>3, Effects
    <3> QED
      BY <1>1, <2>2, <3>1, NamesSet
  <2>4. SameNotes(shop, shop')
    BY <1>1, <1>7, <2>1, <2>3, SameShop
  <2>5. ShopOK(shop') /\ runner[j].was \in 1..Len(shop'.box)
    BY <1>1, <2>4 DEF SameNotes
  <2>6. honest => NotesTrue(shop')
    BY <1>1, <2>4, NotesKept
  <2>7. CASE shop' = Effect(j, cmd) /\ Goes(j, TRUE, FALSE) /\ UNCHANGED honest
    <3>1. runner'[j].pc = "do" /\ runner'[j].at = 5 /\ Remembers(j, TRUE, FALSE)
      <4>1. runner[j].at = 4 /\ runner[j].at # Len(Program(j))
        BY <1>5, <1>9, <2>7
      <4>2. runner'[j].pc = "do" /\ runner'[j].at = runner[j].at + 1 /\ Remembers(j, TRUE, FALSE)
        BY <1>5, <1>9, <2>7, <4>1 DEF Goes
      <4>3. runner'[j].at = 5
        BY <4>1, <4>2
      <4> QED
        BY <4>2, <4>3
    <3>2. UpgradePhase(shop', runner'[j])
      BY <2>2, <2>3, <2>7, <3>1 DEF UpgradePhase, Remembers
    <3>3. Working(j)' /\ (honest' => HonestPhase("upgrade", shop', runner'[j]))
      BY <1>1, <2>7, <3>1 DEF HonestPhase, Working, Remembers
    <3> QED
      BY <1>7, <2>5, <2>6, <2>7, <3>2, <3>3 DEF Continues
  <2>8. CASE TurnsBack(j) /\ UNCHANGED honest
    <3>1. runner'[j].pc = "undo" /\ runner'[j].at = 1 /\ Remembers(j, FALSE, FALSE)
      BY <2>8 DEF TurnsBack
    <3>2. shop' = shop \/ (shop'.named = Nobody /\ shop'.backup = runner[j].was)
      BY <1>7, <2>1, <2>3
    <3>3. UpgradePhase(shop', runner'[j])
      BY <2>2, <3>1, <3>2 DEF UpgradePhase, Remembers
    <3>4. Working(j)' /\ (honest' => HonestPhase("upgrade", shop', runner'[j]))
      BY <1>1, <2>8, <3>1 DEF HonestPhase, Working, Remembers
    <3> QED
      BY <1>7, <2>5, <2>6, <2>8, <3>3, <3>4 DEF Continues
  <2>9. CASE ~Working(j)' /\ honest' = FALSE
    BY <1>7, <2>5, <2>9 DEF Continues
  <2> QED
    BY <1>7, <2>1, <2>7, <2>8, <2>9
<1>10. CASE runner[j].at = 5
  <2>1. cmd = "create" /\ Needed(j, cmd)
    BY <1>3, <1>4, <1>10, NeededFacts
  <2>2. shop.named = Nobody /\ shop.backup = runner[j].was /\ runner[j].renamed /\ ~runner[j].made
    BY <1>1, <1>2, <1>10 DEF UpgradePhase
  <2> DEFINE notes == [policy |-> runner[j].policy, power |-> runner[j].power]
             box == NewBox(runner[j].policy, notes)
  <2>3. /\ notes \in [policy : BOOLEAN, power : BOOLEAN] /\ notes.policy = runner[j].policy
        /\ notes # Nobody
    BY <1>1, PresetAssumption
  <2>4. box \in Box /\ box.restarts = runner[j].policy /\ box.rollback = notes
    BY <1>1, <2>3 DEF NewBox, Box
  <2> HIDE DEF box, notes
  <2>5. ASSUME Possible(j, cmd), shop' = Effect(j, cmd)
        PROVE  /\ ShopOK(shop') /\ Len(shop'.box) = Len(shop.box) + 1 /\ shop'.backup = runner[j].was
               /\ shop'.named = Len(shop.box) + 1 /\ shop'.box[shop'.named] = box
               /\ \A a \in 1..Len(shop.box) : shop'.box[a] = shop.box[a]
    <3>1. shop' = WithNew(box) /\ FreshBox \in Boxes
      BY <2>1, <2>5, Effects, PossibleFacts DEF box, notes
    <3> QED
      BY <1>1, <2>2, <2>4, <3>1, BoxMade
  <2>6. ShopOK(shop') /\ runner[j].was \in 1..Len(shop'.box) /\ shop'.backup = runner[j].was
    BY <1>1, <1>7, <2>1, <2>2, <2>5
  <2>7. honest => NotesTrue(shop')
    <3>1. CASE shop' = shop
      BY <1>1, <3>1
    <3>2. ASSUME honest, Possible(j, cmd), shop' = Effect(j, cmd), NEW b \in 1..Len(shop'.box),
                 shop'.box[b].rollback # Nobody
          PROVE  shop'.box[b].rollback.policy
      <4>1. CASE b \in 1..Len(shop.box)
        BY <1>1, <2>5, <3>2, <4>1 DEF NotesTrue
      <4>2. CASE b = Len(shop.box) + 1
        BY <1>1, <2>3, <2>4, <2>5, <3>2, <4>2 DEF HonestPhase
      <4> QED
        BY <1>1, <2>5, <3>2, <4>1, <4>2
    <3> QED
      BY <1>7, <2>1, <3>1, <3>2 DEF NotesTrue
  <2>8. CASE Possible(j, cmd) /\ shop' = Effect(j, cmd) /\ Goes(j, FALSE, TRUE) /\ UNCHANGED honest
    <3>1. runner'[j].pc = "do" /\ runner'[j].at = 6 /\ Remembers(j, FALSE, TRUE)
      <4>1. runner[j].at = 5 /\ runner[j].at # Len(Program(j))
        BY <1>5, <1>10, <2>8
      <4>2. runner'[j].pc = "do" /\ runner'[j].at = runner[j].at + 1 /\ Remembers(j, FALSE, TRUE)
        BY <1>5, <1>10, <2>8, <4>1 DEF Goes
      <4>3. runner'[j].at = 6
        BY <4>1, <4>2
      <4> QED
        BY <4>2, <4>3
    <3>2. shop'.named # Nobody
      BY <1>1, <2>5, <2>8, PresetAssumption
    <3>3. UpgradePhase(shop', runner'[j])
      BY <2>2, <2>6, <3>1, <3>2 DEF UpgradePhase, Remembers
    <3>4. honest => HandedOn(shop')
      BY <1>1, <2>3, <2>4, <2>5, <2>8 DEF HandedOn, HonestPhase
    <3>5. Working(j)' /\ (honest' => HonestPhase("upgrade", shop', runner'[j]))
      BY <1>1, <2>8, <3>1, <3>4 DEF HonestPhase, Working, Remembers
    <3> QED
      BY <1>7, <2>6, <2>7, <2>8, <3>3, <3>5 DEF Continues
  <2>9. CASE TurnsBack(j) /\ UNCHANGED honest
    <3>1. runner'[j].pc = "undo" /\ runner'[j].at = 1 /\ Remembers(j, FALSE, FALSE)
      BY <2>9 DEF TurnsBack
    <3>2. UpgradePhase(shop', runner'[j])
      BY <2>2, <2>6, <3>1 DEF UpgradePhase, Remembers
    <3>3. Working(j)' /\ (honest' => HonestPhase("upgrade", shop', runner'[j]))
      BY <1>1, <2>9, <3>1 DEF HonestPhase, Working, Remembers
    <3> QED
      BY <1>7, <2>6, <2>7, <2>9, <3>2, <3>3 DEF Continues
  <2>10. CASE ~Working(j)' /\ honest' = FALSE
    BY <1>7, <2>6, <2>10 DEF Continues
  <2> QED
    BY <1>7, <2>1, <2>8, <2>9, <2>10
<1>11. CASE runner[j].at \in 6..7
  <2>1. cmd \in {"start", "activate"}
    BY <1>3, <1>4, <1>11
  <2>2. Needed(j, cmd)
    BY <2>1, NeededFacts
  <2>3. shop.named # Nobody /\ shop.backup = runner[j].was /\ runner[j].renamed
    BY <1>1, <1>2, <1>11 DEF UpgradePhase
  <2>4. /\ SameNotes(shop, shop') /\ shop'.named = shop.named /\ shop'.backup = shop.backup
        /\ \A b \in 1..Len(shop.box) : shop'.box[b].restarts = shop.box[b].restarts
    <3>1. CASE shop' = shop
      BY <1>1, <3>1, SameShop
    <3>2. CASE shop' = Effect(j, cmd)
      <4>1. CASE cmd = "start"
        <5>1. shop' = [shop EXCEPT !.box[shop.named].running = TRUE]
          BY <3>2, <4>1, Effects
        <5>2. shop.named \in 1..Len(shop.box)
          BY <1>1, <2>3 DEF ShopOK
        <5> QED
          BY <1>1, <5>1, <5>2, RunningSet
      <4>2. CASE cmd = "activate"
        BY <1>1, <3>2, <4>2, SameShop, Effects
      <4> QED
        BY <2>1, <4>1, <4>2
    <3> QED
      BY <1>7, <2>2, <3>1, <3>2
  <2>5. ShopOK(shop') /\ runner[j].was \in 1..Len(shop'.box)
    BY <1>1, <2>4 DEF SameNotes
  <2>6. honest => NotesTrue(shop')
    BY <1>1, <2>4, NotesKept
  <2>7. honest => HandedOn(shop')
    <3>1. shop.named \in 1..Len(shop.box)
      BY <1>1, <2>3 DEF ShopOK
    <3>2. honest => HandedOn(shop)
      BY <1>1, <1>11 DEF HonestPhase
    <3> QED
      BY <2>4, <3>1, <3>2 DEF HandedOn, SameNotes
  <2>8. CASE Goes(j, FALSE, FALSE) /\ UNCHANGED honest
    <3>1. CASE runner[j].at = 6
      <4>1. runner'[j].pc = "do" /\ runner'[j].at = 7 /\ Remembers(j, FALSE, FALSE)
        <5>1. runner[j].at = 6 /\ runner[j].at # Len(Program(j))
          BY <1>5, <2>8, <3>1
        <5>2. runner'[j].pc = "do" /\ runner'[j].at = runner[j].at + 1 /\ Remembers(j, FALSE, FALSE)
          BY <1>5, <2>8, <3>1, <5>1 DEF Goes
        <5>3. runner'[j].at = 7
          BY <5>1, <5>2
        <5> QED
          BY <5>2, <5>3
      <4>2. UpgradePhase(shop', runner'[j])
        BY <2>3, <2>4, <4>1 DEF UpgradePhase, Remembers
      <4>3. Working(j)' /\ (honest' => HonestPhase("upgrade", shop', runner'[j]))
        BY <1>1, <2>7, <2>8, <4>1 DEF HonestPhase, Working, Remembers
      <4> QED
        BY <1>7, <2>5, <2>6, <2>8, <4>2, <4>3 DEF Continues
    <3>2. CASE runner[j].at = 7
      <4>1. ~Working(j)'
        BY <1>5, <2>8, <3>2 DEF Goes
      <4> QED
        BY <1>7, <2>5, <2>6, <2>7, <2>8, <4>1 DEF Continues
    <3> QED
      BY <1>11, <3>1, <3>2
  <2>9. CASE TurnsBack(j) /\ UNCHANGED honest
    <3>1. runner'[j].pc = "undo" /\ runner'[j].at = 1 /\ Remembers(j, FALSE, FALSE)
      BY <2>9 DEF TurnsBack
    <3>2. UpgradePhase(shop', runner'[j])
      BY <2>3, <2>4, <3>1 DEF UpgradePhase, Remembers
    <3>3. Working(j)' /\ (honest' => HonestPhase("upgrade", shop', runner'[j]))
      BY <1>1, <2>9, <3>1 DEF HonestPhase, Working, Remembers
    <3> QED
      BY <1>7, <2>5, <2>6, <2>9, <3>2, <3>3 DEF Continues
  <2>10. CASE ~Working(j)' /\ honest' = FALSE
    BY <1>7, <2>5, <2>10 DEF Continues
  <2>11. cmd # "rename" /\ cmd # "create"
    BY <2>1
  <2> QED
    BY <1>7, <2>2, <2>8, <2>9, <2>10, <2>11
<1> QED
  BY <1>1, <1>8, <1>9, <1>10, <1>11

\* What "original instance restored" promises.
IsRestored(j) ==
  LET b == runner[j].was IN
  /\ shop'.named = b /\ shop'.backup = Nobody
  /\ shop'.box[b].restarts = runner[j].policy
  /\ runner[j].power => shop'.box[b].running

\* A runner that undoes its work goes on or breaks off.
LEMMA UndoOutcome ==
  ASSUME PresetInv, NEW j \in Jobs, runner[j].pc = "undo", DockerCommand(j), Len(Program(j)) = 4,
         runner[j].at \in 1..4, NEW cmd, cmd = Program(j)[runner[j].at], cmd # "rename", cmd # "create"
  PROVE  /\ OnlyRunner(j) /\ LockFollows(j)
         /\ \/ ~Needed(j, cmd) /\ shop' = shop
            \/ Needed(j, cmd) /\ Possible(j, cmd) /\ shop' = Effect(j, cmd)
            \/ shop' = shop /\ ~Working(j)' /\ honest' = FALSE
         /\ \/ ~Working(j)' /\ runner'[j].pc = "broken" /\ honest' = FALSE
            \/ /\ UNCHANGED honest /\ Remembers(j, FALSE, FALSE)
               /\ ~Needed(j, cmd) \/ (Possible(j, cmd) /\ shop' = Effect(j, cmd))
               /\ runner[j].at \in 1..3 => runner'[j].pc = "undo" /\ runner'[j].at = runner[j].at + 1
               /\ runner[j].at = 4 => ~Working(j)' /\ (runner'[j].pc = "restored" => job[j].kind = "upgrade")
<1>1. Working(j) /\ PresetShapes
  BY DEF Working, PresetInv
<1>2. runner[j].at <= Len(Program(j)) /\ Len(Program(j)) \in 1..7
  OBVIOUS
<1>3. ~TurnsBack(j)
  BY DEF TurnsBack
<1>4. /\ OnlyRunner(j) /\ LockFollows(j)
      /\ \/ ~Needed(j, cmd) /\ UNCHANGED <<shop, honest>> /\ Goes(j, FALSE, FALSE)
         \/ /\ Needed(j, cmd) /\ Possible(j, cmd) /\ shop' = Effect(j, cmd)
            /\ UNCHANGED honest /\ Goes(j, FALSE, FALSE)
         \/ /\ Needed(j, cmd) /\ (shop' = shop \/ (Possible(j, cmd) /\ shop' = Effect(j, cmd)))
            /\ ~Working(j)' /\ runner'[j].pc = "broken" /\ honest' = FALSE
  <2>1. /\ OnlyRunner(j) /\ LockFollows(j)
        /\ \/ ~Needed(j, cmd) /\ UNCHANGED <<shop, honest>> /\ Goes(j, FALSE, FALSE)
           \/ /\ Needed(j, cmd) /\ Possible(j, cmd) /\ shop' = Effect(j, cmd)
              /\ UNCHANGED honest /\ Goes(j, cmd = "rename", cmd = "create")
           \/ /\ Needed(j, cmd) /\ (shop' = shop \/ (Possible(j, cmd) /\ shop' = Effect(j, cmd)))
              /\ \/ TurnsBack(j) /\ UNCHANGED honest
                 \/ ~Working(j)' /\ runner'[j].pc = "broken" /\ honest' = FALSE
    BY <1>1, <1>2, CommandOutcome
  <2>2. (cmd = "rename") = FALSE /\ (cmd = "create") = FALSE
    OBVIOUS
  <2> QED
    BY <1>3, <2>1, <2>2
<1>5. Goes(j, FALSE, FALSE) =>
        /\ Remembers(j, FALSE, FALSE)
        /\ runner[j].at \in 1..3 => runner'[j].pc = "undo" /\ runner'[j].at = runner[j].at + 1
        /\ runner[j].at = 4 => ~Working(j)' /\ (runner'[j].pc = "restored" => job[j].kind = "upgrade")
  <2>1. runner[j].at \in 1..3 => runner[j].at # Len(Program(j))
    OBVIOUS
  <2>2. ~(runner[j].at = 4 /\ runner[j].at < Len(Program(j)))
    OBVIOUS
  <2> QED
    BY <2>1, <2>2 DEF Goes
<1> QED
  BY <1>4, <1>5

\* The roll-back of an upgrade.
LEMMA UpgradeUndoes ==
  ASSUME PresetInv, NEW j \in Jobs, job[j].kind = "upgrade", runner[j].pc = "undo", DockerCommand(j)
  PROVE  /\ OnlyRunner(j) /\ LockFollows(j) /\ Continues(j)
         /\ runner'[j].pc = "restored" => IsRestored(j)
<1>0. Working(j)
  BY DEF Working
<1>1. /\ PresetShapes /\ ShopOK(shop) /\ runner[j].was \in 1..Len(shop.box) /\ runner[j].was # Nobody
      /\ runner[j].policy \in BOOLEAN /\ runner[j].power \in BOOLEAN /\ runner[j].at \in 1..7
      /\ runner[j].renamed \in BOOLEAN /\ runner[j].made \in BOOLEAN /\ Len(shop.box) \in Nat
      /\ honest => NotesTrue(shop) /\ HonestPhase("upgrade", shop, runner[j])
  BY <1>0, AtWork
<1>2. UpgradePhase(shop, runner[j])
  BY <1>0 DEF PresetInv, RunnersInv
<1>3. Program(j) = <<"remove", "unrename", "policy", "start">>
  BY UpgradeProgram
<1>4. PICK cmd : cmd = Program(j)[runner[j].at]
  OBVIOUS
<1>5. runner[j].at \in 1..4 /\ Len(Program(j)) = 4
  BY <1>2, <1>3 DEF UpgradePhase
<1>6. cmd \in {"remove", "unrename", "policy", "start"}
  BY <1>3, <1>4, <1>5
<1>7. /\ OnlyRunner(j) /\ LockFollows(j)
      /\ \/ ~Needed(j, cmd) /\ shop' = shop
         \/ Needed(j, cmd) /\ Possible(j, cmd) /\ shop' = Effect(j, cmd)
         \/ shop' = shop /\ ~Working(j)' /\ honest' = FALSE
      /\ \/ ~Working(j)' /\ runner'[j].pc = "broken" /\ honest' = FALSE
         \/ /\ UNCHANGED honest /\ Remembers(j, FALSE, FALSE)
            /\ ~Needed(j, cmd) \/ (Possible(j, cmd) /\ shop' = Effect(j, cmd))
            /\ runner[j].at \in 1..3 => runner'[j].pc = "undo" /\ runner'[j].at = runner[j].at + 1
            /\ runner[j].at = 4 => ~Working(j)' /\ (runner'[j].pc = "restored" => job[j].kind = "upgrade")
  <2>1. cmd # "rename" /\ cmd # "create"
    BY <1>6
  <2> QED
    BY <1>4, <1>5, <2>1, UndoOutcome
<1>8. Goal(j) = [policy |-> runner[j].policy, power |-> runner[j].power]
  BY DEF Goal
<1>9. ASSUME SameNotes(shop, shop')
      PROVE  /\ ShopOK(shop') /\ runner[j].was \in 1..Len(shop'.box)
             /\ honest => NotesTrue(shop')
  BY <1>1, <1>9, NotesKept DEF SameNotes
<1>10. ASSUME ~Working(j)', runner'[j].pc = "broken", honest' = FALSE, SameNotes(shop, shop')
       PROVE  Continues(j) /\ (runner'[j].pc = "restored" => IsRestored(j))
  BY <1>9, <1>10 DEF Continues
<1>11. ASSUME runner'[j].pc = "undo", Remembers(j, FALSE, FALSE), UNCHANGED honest, SameNotes(shop, shop'),
              UpgradePhase(shop', runner'[j])
       PROVE  Continues(j) /\ (runner'[j].pc = "restored" => IsRestored(j))
  <2>1. Working(j)' /\ (honest' => HonestPhase("upgrade", shop', runner'[j]))
    BY <1>1, <1>11 DEF HonestPhase, Working, Remembers
  <2> QED
    BY <1>9, <1>11, <2>1 DEF Continues
<1>12. CASE runner[j].at = 1
  <2>1. cmd = "remove" /\ (Needed(j, cmd) <=> runner[j].made)
    BY <1>3, <1>4, <1>12, NeededFacts
  <2>2. ASSUME Possible(j, cmd), shop' = Effect(j, cmd)
        PROVE  SameNotes(shop, shop') /\ shop'.named = Nobody /\ shop'.backup = shop.backup
    <3>1. shop' = [shop EXCEPT !.named = Nobody]
      BY <2>1, <2>2, Effects
    <3>2. shop' = [shop EXCEPT !.named = Nobody, !.backup = shop.backup]
      BY <1>1, <3>1 DEF ShopOK
    <3>3. shop.backup \in (1..Len(shop.box)) \cup {Nobody}
      BY <1>1 DEF ShopOK
    <3> QED
      BY <1>1, <3>2, <3>3, NamesSet
  <2>3. SameNotes(shop, shop')
    BY <1>1, <1>7, <2>2, SameShop
  <2>4. CASE ~Working(j)' /\ runner'[j].pc = "broken" /\ honest' = FALSE
    BY <1>7, <1>10, <2>3, <2>4
  <2>5. CASE /\ UNCHANGED honest /\ Remembers(j, FALSE, FALSE)
             /\ ~Needed(j, cmd) \/ (Possible(j, cmd) /\ shop' = Effect(j, cmd))
             /\ runner'[j].pc = "undo" /\ runner'[j].at = 2
    <3>1. shop' = shop \/ (runner[j].made /\ shop'.named = Nobody /\ shop'.backup = shop.backup)
      BY <1>7, <2>1, <2>2, <2>5
    <3>2. UpgradePhase(shop', runner'[j])
      BY <1>2, <1>12, <2>5, <3>1 DEF UpgradePhase, Remembers
    <3> QED
      BY <1>7, <1>11, <2>3, <2>5, <3>2
  <2>6. runner[j].at \in 1..3 /\ runner[j].at + 1 = 2
    BY <1>12
  <2> QED
    BY <1>7, <2>1, <2>4, <2>5, <2>6
<1>13. CASE runner[j].at = 2
  <2>1. cmd = "unrename" /\ (Needed(j, cmd) <=> runner[j].renamed)
    BY <1>3, <1>4, <1>13, NeededFacts
  <2>2. ASSUME Possible(j, cmd), shop' = Effect(j, cmd)
        PROVE  SameNotes(shop, shop') /\ shop'.named = runner[j].was /\ shop'.backup = Nobody
    <3>1. shop' = [shop EXCEPT !.named = runner[j].was, !.backup = Nobody]
      BY <2>1, <2>2, Effects
    <3> QED
      BY <1>1, <3>1, NamesSet
  <2>3. SameNotes(shop, shop')
    BY <1>1, <1>7, <2>2, SameShop
  <2>4. CASE ~Working(j)' /\ runner'[j].pc = "broken" /\ honest' = FALSE
    BY <1>7, <1>10, <2>3, <2>4
  <2>5. CASE /\ UNCHANGED honest /\ Remembers(j, FALSE, FALSE)
             /\ ~Needed(j, cmd) \/ (Possible(j, cmd) /\ shop' = Effect(j, cmd))
             /\ runner'[j].pc = "undo" /\ runner'[j].at = 3
    <3>1. (shop' = shop /\ ~runner[j].renamed) \/ (shop'.named = runner[j].was /\ shop'.backup = Nobody)
      BY <1>7, <2>1, <2>2, <2>5
    <3>2. UpgradePhase(shop', runner'[j])
      BY <1>2, <1>13, <2>5, <3>1 DEF UpgradePhase, Remembers
    <3> QED
      BY <1>7, <1>11, <2>3, <2>5, <3>2
  <2>6. runner[j].at \in 1..3 /\ runner[j].at + 1 = 3
    BY <1>13
  <2> QED
    BY <1>7, <2>1, <2>4, <2>5, <2>6
<1>14. CASE runner[j].at = 3
  <2>1. cmd = "policy" /\ Needed(j, cmd)
    BY <1>3, <1>4, <1>14, NeededFacts
  <2>2. ASSUME Possible(j, cmd), shop' = Effect(j, cmd)
        PROVE  /\ SameNotes(shop, shop') /\ shop'.named = runner[j].was /\ shop'.backup = Nobody
               /\ shop'.box[runner[j].was].restarts = runner[j].policy
    <3>1. shop' = [shop EXCEPT !.box[shop.named].restarts = runner[j].policy]
      <4>1. Goal(j).policy = runner[j].policy
        BY <1>8
      <4> QED
        BY <2>1, <2>2, <4>1, Effects
    <3>2. shop.named # Nobody
      BY <2>1, <2>2, PossibleFacts
    <3>3. shop.named = runner[j].was /\ shop.backup = Nobody
      BY <1>2, <1>14, <3>2 DEF UpgradePhase
    <3> QED
      BY <1>1, <3>1, <3>3, RestartsSet
  <2>3. SameNotes(shop, shop')
    BY <1>1, <1>7, <2>2, SameShop
  <2>4. CASE ~Working(j)' /\ runner'[j].pc = "broken" /\ honest' = FALSE
    BY <1>7, <1>10, <2>3, <2>4
  <2>5. CASE /\ UNCHANGED honest /\ Remembers(j, FALSE, FALSE)
             /\ Possible(j, cmd) /\ shop' = Effect(j, cmd)
             /\ runner'[j].pc = "undo" /\ runner'[j].at = 4
    <3>1. UpgradePhase(shop', runner'[j])
      BY <2>2, <2>5 DEF UpgradePhase, Remembers
    <3> QED
      BY <1>7, <1>11, <2>3, <2>5, <3>1
  <2>6. runner[j].at \in 1..3 /\ runner[j].at + 1 = 4
    BY <1>14
  <2> QED
    BY <1>7, <2>1, <2>4, <2>5, <2>6
<1>15. CASE runner[j].at = 4
  <2>1. cmd = "start" /\ (Needed(j, cmd) <=> runner[j].power)
    BY <1>3, <1>4, <1>8, <1>15, NeededFacts
  <2>2. /\ shop.named = runner[j].was /\ shop.backup = Nobody
        /\ shop.box[runner[j].was].restarts = runner[j].policy
    BY <1>2, <1>15 DEF UpgradePhase
  <2>3. ASSUME Possible(j, cmd), shop' = Effect(j, cmd)
        PROVE  /\ SameNotes(shop, shop') /\ shop'.named = shop.named /\ shop'.backup = shop.backup
               /\ \A b \in 1..Len(shop.box) : shop'.box[b].restarts = shop.box[b].restarts
               /\ shop'.box[shop.named].running
    <3>1. shop' = [shop EXCEPT !.box[shop.named].running = TRUE]
      BY <2>1, <2>3, Effects
    <3> QED
      BY <1>1, <2>2, <3>1, RunningSet
  <2>4. SameNotes(shop, shop')
    BY <1>1, <1>7, <2>3, SameShop
  <2>5. CASE ~Working(j)' /\ runner'[j].pc = "broken" /\ honest' = FALSE
    BY <1>7, <1>10, <2>4, <2>5
  <2>6. CASE /\ UNCHANGED honest /\ ~Working(j)'
             /\ ~Needed(j, cmd) \/ (Possible(j, cmd) /\ shop' = Effect(j, cmd))
    <3>1. IsRestored(j)
      BY <1>1, <1>7, <2>1, <2>2, <2>3, <2>6 DEF IsRestored
    <3>2. honest => HandedOn(shop')
      BY <1>1, <3>1 DEF IsRestored, HandedOn, HonestPhase
    <3> QED
      BY <1>7, <1>9, <2>4, <2>6, <3>1, <3>2 DEF Continues
  <2> QED
    BY <1>7, <1>15, <2>5, <2>6
<1> QED
  BY <1>5, <1>12, <1>13, <1>14, <1>15

\* What a restore puts the original back to.
LEMMA RestoreGoal ==
  ASSUME NEW j \in Jobs, job[j].kind = "restore", runner[j].pc = "do", ShopOK(shop),
         shop.named \in 1..Len(shop.box), runner[j].was \in 1..Len(shop.box)
  PROVE  /\ Goal(j).policy \in BOOLEAN
         /\ shop.box[runner[j].was].rollback # Nobody => Goal(j).policy = shop.box[runner[j].was].rollback.policy
<1>1. shop.box[runner[j].was] \in Box /\ shop.box[shop.named] \in Box
  BY DEF ShopOK
<1> DEFINE noted == shop.box[runner[j].was].rollback
<1>2. noted \in [policy : BOOLEAN, power : BOOLEAN] \cup {Nobody} /\ shop.box[shop.named].restarts \in BOOLEAN
  BY <1>1 DEF Box
<1>3. Goal(j) = IF noted # Nobody THEN noted
                ELSE [policy |-> shop.box[shop.named].restarts, power |-> TRUE]
  BY DEF Goal
<1> HIDE DEF noted
<1>4. Goal(j).policy \in BOOLEAN /\ (noted # Nobody => Goal(j).policy = noted.policy)
  BY <1>2, <1>3
<1> QED
  BY <1>4 DEF noted

\* The restore's program.
LEMMA RestoreDoes ==
  ASSUME PresetInv, NEW j \in Jobs, job[j].kind = "restore", runner[j].pc = "do", DockerCommand(j)
  PROVE  OnlyRunner(j) /\ LockFollows(j) /\ Continues(j)
<1>0. Working(j)
  BY DEF Working
<1>1. /\ PresetShapes /\ ShopOK(shop) /\ runner[j].was \in 1..Len(shop.box) /\ runner[j].was # Nobody
      /\ runner[j].policy \in BOOLEAN /\ runner[j].power \in BOOLEAN /\ runner[j].at \in 1..7
      /\ runner[j].renamed \in BOOLEAN /\ runner[j].made \in BOOLEAN /\ Len(shop.box) \in Nat
      /\ honest => NotesTrue(shop) /\ HonestPhase("restore", shop, runner[j])
  BY <1>0, AtWork
<1>2. RestorePhase(shop, runner[j])
  BY <1>0 DEF PresetInv, RunnersInv
<1>3. Program(j) = <<"stop", "hold", "rename", "return", "policy", "start">>
  BY RestoreProgram
<1>4. PICK cmd : cmd = Program(j)[runner[j].at]
  OBVIOUS
<1>5. runner[j].at \in 1..6 /\ Len(Program(j)) = 6
  BY <1>2, <1>3 DEF RestorePhase
<1>6. runner[j].at <= Len(Program(j)) /\ Len(Program(j)) \in 1..7
  BY <1>1, <1>5
<1>7. /\ OnlyRunner(j) /\ LockFollows(j)
      /\ \/ ~Needed(j, cmd) /\ UNCHANGED <<shop, honest>> /\ Goes(j, FALSE, FALSE)
         \/ /\ Needed(j, cmd) /\ Possible(j, cmd) /\ shop' = Effect(j, cmd)
            /\ UNCHANGED honest /\ Goes(j, cmd = "rename", cmd = "create")
         \/ /\ Needed(j, cmd) /\ (shop' = shop \/ (Possible(j, cmd) /\ shop' = Effect(j, cmd)))
            /\ \/ TurnsBack(j) /\ UNCHANGED honest
               \/ ~Working(j)' /\ runner'[j].pc = "broken" /\ honest' = FALSE
  BY <1>0, <1>1, <1>4, <1>6, CommandOutcome
<1>8. ASSUME SameNotes(shop, shop')
      PROVE  /\ ShopOK(shop') /\ runner[j].was \in 1..Len(shop'.box)
             /\ honest => NotesTrue(shop') /\ runner[j].policy /\ shop'.box[runner[j].was].rollback # Nobody
  BY <1>1, <1>8, NotesKept DEF SameNotes, HonestPhase
<1>9. ASSUME ~Working(j)', honest' = FALSE, SameNotes(shop, shop')
      PROVE  Continues(j)
  BY <1>8, <1>9 DEF Continues
<1>10. ASSUME TurnsBack(j), UNCHANGED honest, SameNotes(shop, shop'),
              \/ shop'.named = Nobody /\ shop'.backup # Nobody
              \/ shop'.named # Nobody /\ shop'.backup = Nobody
       PROVE  Continues(j)
  <2>1. runner'[j].pc = "undo" /\ runner'[j].at = 1 /\ Remembers(j, FALSE, FALSE)
    BY <1>10 DEF TurnsBack
  <2>2. RestorePhase(shop', runner'[j])
    BY <1>10, <2>1 DEF RestorePhase
  <2>3. Working(j)' /\ (honest' => HonestPhase("restore", shop', runner'[j]))
    BY <1>8, <1>10, <2>1 DEF HonestPhase, Working, Remembers
  <2> QED
    BY <1>8, <1>10, <2>2, <2>3 DEF Continues
<1>11. ASSUME runner'[j].pc = "do", Remembers(j, FALSE, FALSE) \/ Remembers(j, TRUE, FALSE), UNCHANGED honest, SameNotes(shop, shop'),
              RestorePhase(shop', runner'[j]), honest /\ runner'[j].at = 6 => shop'.box[shop'.named].restarts
       PROVE  Continues(j)
  <2>1. Working(j)' /\ (honest' => HonestPhase("restore", shop', runner'[j]))
    BY <1>8, <1>11 DEF HonestPhase, Working, Remembers
  <2> QED
    BY <1>8, <1>11, <2>1 DEF Continues
<1>12. CASE runner[j].at \in 1..2
  <2>1. cmd \in {"stop", "hold"} /\ Needed(j, cmd)
    BY <1>3, <1>4, <1>12, NeededFacts
  <2>2. /\ shop.named = runner[j].was /\ shop.backup # Nobody /\ ~runner[j].renamed
        /\ shop.named \in 1..Len(shop.box)
    BY <1>1, <1>2, <1>12 DEF RestorePhase
  <2>3. SameNotes(shop, shop') /\ shop'.named = shop.named /\ shop'.backup = shop.backup
    <3>1. CASE shop' = shop
      BY <1>1, <3>1, SameShop
    <3>2. CASE shop' = Effect(j, cmd)
      <4>1. CASE cmd = "stop"
        <5>1. shop' = [shop EXCEPT !.box[shop.named].running = FALSE]
          BY <3>2, <4>1, Effects
        <5> QED
          BY <1>1, <2>2, <5>1, RunningSet
      <4>2. CASE cmd = "hold"
        <5>1. shop' = [shop EXCEPT !.box[shop.named].restarts = FALSE]
          BY <3>2, <4>2, Effects
        <5> QED
          BY <1>1, <2>2, <5>1, RestartsSet
      <4> QED
        BY <2>1, <4>1, <4>2
    <3> QED
      BY <1>7, <2>1, <3>1, <3>2
  <2>4. ~TurnsBack(j) /\ cmd # "rename" /\ cmd # "create"
    BY <2>1, <2>2 DEF TurnsBack
  <2>5. CASE Goes(j, FALSE, FALSE) /\ UNCHANGED honest
    <3>1. runner'[j].pc = "do" /\ runner'[j].at \in 2..3 /\ Remembers(j, FALSE, FALSE)
      <4>1. runner[j].at # Len(Program(j))
        BY <1>5, <1>12
      <4>2. runner'[j].pc = "do" /\ runner'[j].at = runner[j].at + 1 /\ Remembers(j, FALSE, FALSE)
        BY <2>5, <4>1 DEF Goes
      <4>3. runner'[j].at \in 2..3
        BY <1>12, <4>2
      <4> QED
        BY <4>2, <4>3
    <3>2. RestorePhase(shop', runner'[j])
      BY <2>2, <2>3, <3>1 DEF RestorePhase, Remembers
    <3> QED
      BY <1>7, <1>11, <2>3, <2>5, <3>1, <3>2
  <2>6. CASE ~Working(j)' /\ honest' = FALSE
    BY <1>7, <1>9, <2>3, <2>6
  <2> QED
    BY <1>7, <2>1, <2>4, <2>5, <2>6
<1>13. CASE runner[j].at = 3
  <2>1. cmd = "rename" /\ Needed(j, cmd)
    BY <1>3, <1>4, <1>13, NeededFacts
  <2>2. /\ shop.named = runner[j].was /\ shop.backup # Nobody /\ ~runner[j].renamed
        /\ shop.backup \in (1..Len(shop.box)) \cup {Nobody}
    BY <1>1, <1>2, <1>13 DEF RestorePhase, ShopOK
  <2>3. ASSUME shop' = Effect(j, cmd)
        PROVE  SameNotes(shop, shop') /\ shop'.named = Nobody /\ shop'.backup = shop.backup
    <3>1. shop' = [shop EXCEPT !.named = Nobody, !.backup = shop.backup]
      BY <2>1, <2>3, Effects
    <3> QED
      BY <1>1, <2>2, <3>1, NamesSet
  <2>4. SameNotes(shop, shop')
    BY <1>1, <1>7, <2>1, <2>3, SameShop
  <2>5. ~TurnsBack(j) /\ cmd # "create"
    BY <2>1, <2>2 DEF TurnsBack
  <2>6. CASE shop' = Effect(j, cmd) /\ Goes(j, TRUE, FALSE) /\ UNCHANGED honest
    <3>1. runner'[j].pc = "do" /\ runner'[j].at = 4 /\ Remembers(j, TRUE, FALSE)
      <4>1. runner[j].at # Len(Program(j))
        BY <1>5, <1>13
      <4>2. runner'[j].pc = "do" /\ runner'[j].at = runner[j].at + 1 /\ Remembers(j, TRUE, FALSE)
        BY <2>6, <4>1 DEF Goes
      <4>3. runner'[j].at = 4
        BY <1>13, <4>2
      <4> QED
        BY <4>2, <4>3
    <3>2. RestorePhase(shop', runner'[j])
      BY <2>2, <2>3, <2>6, <3>1 DEF RestorePhase, Remembers
    <3> QED
      BY <1>7, <1>11, <2>4, <2>6, <3>1, <3>2
  <2>7. CASE ~Working(j)' /\ honest' = FALSE
    BY <1>7, <1>9, <2>4, <2>7
  <2>8. (cmd = "rename") = TRUE /\ (cmd = "create") = FALSE
    BY <2>1
  <2> QED
    BY <1>7, <2>1, <2>5, <2>6, <2>7, <2>8
<1>14. CASE runner[j].at = 4
  <2>1. cmd = "return" /\ Needed(j, cmd)
    BY <1>3, <1>4, <1>14, NeededFacts
  <2>2. /\ shop.named = Nobody /\ shop.backup # Nobody /\ runner[j].renamed
        /\ shop.backup \in 1..Len(shop.box)
    BY <1>1, <1>2, <1>14 DEF RestorePhase, ShopOK
  <2>3. ASSUME shop' = Effect(j, cmd)
        PROVE  SameNotes(shop, shop') /\ shop'.named = shop.backup /\ shop'.backup = Nobody
    <3>1. shop' = [shop EXCEPT !.named = shop.backup, !.backup = Nobody]
      BY <2>1, <2>2, <2>3, Effects
    <3> QED
      BY <1>1, <2>2, <3>1, NamesSet
  <2>4. SameNotes(shop, shop')
    BY <1>1, <1>7, <2>1, <2>3, SameShop
  <2>5. CASE shop' = Effect(j, cmd) /\ Goes(j, FALSE, FALSE) /\ UNCHANGED honest
    <3>1. runner'[j].pc = "do" /\ runner'[j].at = 5 /\ Remembers(j, FALSE, FALSE)
      <4>1. runner[j].at # Len(Program(j))
        BY <1>5, <1>14
      <4>2. runner'[j].pc = "do" /\ runner'[j].at = runner[j].at + 1 /\ Remembers(j, FALSE, FALSE)
        BY <2>5, <4>1 DEF Goes
      <4>3. runner'[j].at = 5
        BY <1>14, <4>2
      <4> QED
        BY <4>2, <4>3
    <3>2. RestorePhase(shop', runner'[j])
      BY <2>2, <2>3, <2>5, <3>1 DEF RestorePhase, Remembers
    <3> QED
      BY <1>7, <1>11, <2>4, <2>5, <3>1, <3>2
  <2>6. CASE TurnsBack(j) /\ UNCHANGED honest
    <3>1. \/ shop'.named = Nobody /\ shop'.backup # Nobody
          \/ shop'.named # Nobody /\ shop'.backup = Nobody
      BY <1>7, <2>1, <2>2, <2>3
    <3> QED
      BY <1>7, <1>10, <2>4, <2>6, <3>1
  <2>7. CASE ~Working(j)' /\ honest' = FALSE
    BY <1>7, <1>9, <2>4, <2>7
  <2>8. (cmd = "rename") = FALSE /\ (cmd = "create") = FALSE
    BY <2>1
  <2> QED
    BY <1>7, <2>1, <2>5, <2>6, <2>7, <2>8
<1>15. CASE runner[j].at = 5
  <2>1. cmd = "policy" /\ Needed(j, cmd)
    BY <1>3, <1>4, <1>15, NeededFacts
  <2>2. /\ shop.named # Nobody /\ shop.backup = Nobody /\ runner[j].renamed
        /\ shop.named \in 1..Len(shop.box)
    BY <1>1, <1>2, <1>15 DEF RestorePhase, ShopOK
  <2>3. /\ Goal(j).policy \in BOOLEAN
        /\ shop.box[runner[j].was].rollback # Nobody => Goal(j).policy = shop.box[runner[j].was].rollback.policy
    BY <1>1, <2>2, RestoreGoal
  <2>4. honest => Goal(j).policy
    <3>1. honest => shop.box[runner[j].was].rollback # Nobody /\ NotesTrue(shop)
      BY <1>1 DEF HonestPhase
    <3> QED
      BY <1>1, <2>3, <3>1 DEF NotesTrue
  <2>5. ASSUME shop' = Effect(j, cmd)
        PROVE  /\ SameNotes(shop, shop') /\ shop'.named = shop.named /\ shop'.backup = Nobody
               /\ honest => shop'.box[shop'.named].restarts
    <3>1. PICK on \in BOOLEAN : on = Goal(j).policy
      BY <2>3
    <3>2. shop' = [shop EXCEPT !.box[shop.named].restarts = on]
      BY <2>1, <2>5, <3>1, Effects
    <3>3. /\ SameNotes(shop, shop') /\ shop'.named = shop.named /\ shop'.backup = shop.backup
          /\ shop'.box[shop.named].restarts = on
      BY <1>1, <2>2, <3>2, RestartsSet
    <3> QED
      BY <2>2, <2>4, <3>1, <3>3
  <2>6. SameNotes(shop, shop') /\ shop'.named # Nobody /\ shop'.backup = Nobody
    BY <1>1, <1>7, <2>1, <2>2, <2>5, SameShop
  <2>7. CASE shop' = Effect(j, cmd) /\ Goes(j, FALSE, FALSE) /\ UNCHANGED honest
    <3>1. runner'[j].pc = "do" /\ runner'[j].at = 6 /\ Remembers(j, FALSE, FALSE)
      <4>1. runner[j].at # Len(Program(j))
        BY <1>5, <1>15
      <4>2. runner'[j].pc = "do" /\ runner'[j].at = runner[j].at + 1 /\ Remembers(j, FALSE, FALSE)
        BY <2>7, <4>1 DEF Goes
      <4>3. runner'[j].at = 6
        BY <1>15, <4>2
      <4> QED
        BY <4>2, <4>3
    <3>2. RestorePhase(shop', runner'[j])
      BY <2>2, <2>6, <2>7, <3>1 DEF RestorePhase, Remembers
    <3> QED
      BY <1>7, <1>11, <2>5, <2>7, <3>1, <3>2
  <2>8. CASE TurnsBack(j) /\ UNCHANGED honest
    BY <1>7, <1>10, <2>6, <2>8
  <2>9. CASE ~Working(j)' /\ honest' = FALSE
    BY <1>7, <1>9, <2>6, <2>9
  <2>10. (cmd = "rename") = FALSE /\ (cmd = "create") = FALSE
    BY <2>1
  <2> QED
    BY <1>7, <2>1, <2>7, <2>8, <2>9, <2>10
<1>16. CASE runner[j].at = 6
  <2>1. cmd = "start"
    BY <1>3, <1>4, <1>16
  <2>2. /\ shop.named # Nobody /\ shop.backup = Nobody /\ runner[j].renamed
        /\ shop.named \in 1..Len(shop.box)
    BY <1>1, <1>2, <1>16 DEF RestorePhase, ShopOK
  <2>3. honest => shop.box[shop.named].restarts
    BY <1>1, <1>16 DEF HonestPhase
  <2>4. ASSUME shop' = Effect(j, cmd)
        PROVE  /\ SameNotes(shop, shop') /\ shop'.named = shop.named /\ shop'.backup = shop.backup
               /\ \A b \in 1..Len(shop.box) : shop'.box[b].restarts = shop.box[b].restarts
    <3>1. shop' = [shop EXCEPT !.box[shop.named].running = TRUE]
      BY <2>1, <2>4, Effects
    <3> QED
      BY <1>1, <2>2, <3>1, RunningSet
  <2>5. /\ SameNotes(shop, shop') /\ shop'.named = shop.named /\ shop'.backup = Nobody
        /\ honest => HandedOn(shop')
    <3>1. shop' = shop \/ shop' = Effect(j, cmd)
      BY <1>7
    <3>2. SameNotes(shop, shop') /\ shop'.named = shop.named /\ shop'.backup = Nobody
      BY <1>1, <2>2, <2>4, <3>1, SameShop
    <3>3. honest => shop'.box[shop.named].restarts
      BY <2>2, <2>3, <2>4, <3>1
    <3> QED
      BY <3>2, <3>3 DEF HandedOn
  <2>6. CASE Goes(j, FALSE, FALSE) /\ UNCHANGED honest
    <3>1. ~Working(j)'
      <4>1. ~(runner[j].at < Len(Program(j)))
        BY <1>5, <1>16
      <4> QED
        BY <2>6, <4>1 DEF Goes
    <3> QED
      BY <1>7, <1>8, <2>5, <2>6, <3>1 DEF Continues
  <2>7. CASE TurnsBack(j) /\ UNCHANGED honest
    BY <1>7, <1>10, <2>2, <2>5, <2>7
  <2>8. CASE ~Working(j)' /\ honest' = FALSE
    BY <1>7, <1>9, <2>5, <2>8
  <2>9. (cmd = "rename") = FALSE /\ (cmd = "create") = FALSE
    BY <2>1
  <2> QED
    BY <1>7, <2>6, <2>7, <2>8, <2>9
<1> QED
  BY <1>5, <1>12, <1>13, <1>14, <1>15, <1>16

\* The roll-back of a restore.
LEMMA RestoreUndoes ==
  ASSUME PresetInv, NEW j \in Jobs, job[j].kind = "restore", runner[j].pc = "undo", DockerCommand(j)
  PROVE  /\ OnlyRunner(j) /\ LockFollows(j) /\ Continues(j)
         /\ runner'[j].pc # "restored"
<1>0. Working(j)
  BY DEF Working
<1>1. /\ PresetShapes /\ ShopOK(shop) /\ runner[j].was \in 1..Len(shop.box) /\ runner[j].was # Nobody
      /\ runner[j].policy \in BOOLEAN /\ runner[j].power \in BOOLEAN /\ runner[j].at \in 1..7
      /\ runner[j].renamed \in BOOLEAN /\ runner[j].made \in BOOLEAN /\ Len(shop.box) \in Nat
      /\ honest => NotesTrue(shop) /\ HonestPhase("restore", shop, runner[j])
  BY <1>0, AtWork
<1>2. RestorePhase(shop, runner[j])
  BY <1>0 DEF PresetInv, RunnersInv
<1>3. Program(j) = <<"giveBack", "unrename", "policy", "start">>
  BY RestoreProgram
<1>4. PICK cmd : cmd = Program(j)[runner[j].at]
  OBVIOUS
<1>5. runner[j].at \in 1..4 /\ Len(Program(j)) = 4
  BY <1>2, <1>3 DEF RestorePhase
<1>6. cmd \in {"giveBack", "unrename", "policy", "start"}
  BY <1>3, <1>4, <1>5
<1>7. /\ OnlyRunner(j) /\ LockFollows(j)
      /\ \/ ~Needed(j, cmd) /\ shop' = shop
         \/ Needed(j, cmd) /\ Possible(j, cmd) /\ shop' = Effect(j, cmd)
         \/ shop' = shop /\ ~Working(j)' /\ honest' = FALSE
      /\ \/ ~Working(j)' /\ runner'[j].pc = "broken" /\ honest' = FALSE
         \/ /\ UNCHANGED honest /\ Remembers(j, FALSE, FALSE)
            /\ ~Needed(j, cmd) \/ (Possible(j, cmd) /\ shop' = Effect(j, cmd))
            /\ runner[j].at \in 1..3 => runner'[j].pc = "undo" /\ runner'[j].at = runner[j].at + 1
            /\ runner[j].at = 4 => ~Working(j)' /\ (runner'[j].pc = "restored" => job[j].kind = "upgrade")
  <2>1. cmd # "rename" /\ cmd # "create"
    BY <1>6
  <2> QED
    BY <1>4, <1>5, <2>1, UndoOutcome
<1>8. runner'[j].pc # "restored"
  <2>1. CASE runner[j].at \in 1..3
    BY <1>7, <2>1
  <2>2. CASE runner[j].at = 4
    BY <1>7, <2>2
  <2>3. runner[j].at \in 1..3 \/ runner[j].at = 4
    BY <1>5
  <2> QED
    BY <2>1, <2>2, <2>3
<1>9. Goal(j) = [policy |-> runner[j].policy, power |-> runner[j].power]
  BY DEF Goal
<1>10. ASSUME SameNotes(shop, shop')
       PROVE  /\ ShopOK(shop') /\ runner[j].was \in 1..Len(shop'.box)
              /\ honest => NotesTrue(shop') /\ runner[j].policy /\ shop'.box[runner[j].was].rollback # Nobody
  BY <1>1, <1>10, NotesKept DEF SameNotes, HonestPhase
<1>11. ASSUME ~Working(j)', honest' = FALSE, SameNotes(shop, shop')
       PROVE  Continues(j)
  BY <1>10, <1>11 DEF Continues
<1>12. ASSUME runner'[j].pc = "undo", Remembers(j, FALSE, FALSE), UNCHANGED honest, SameNotes(shop, shop'),
              RestorePhase(shop', runner'[j]), honest /\ runner'[j].at = 4 => shop'.box[shop'.named].restarts
       PROVE  Continues(j)
  <2>1. Working(j)' /\ (honest' => HonestPhase("restore", shop', runner'[j]))
    BY <1>10, <1>12 DEF HonestPhase, Working, Remembers
  <2> QED
    BY <1>10, <1>12, <2>1 DEF Continues
<1>13. CASE runner[j].at = 1
  <2>1. cmd = "giveBack" /\ (Needed(j, cmd) <=> shop.named # Nobody)
    BY <1>3, <1>4, <1>13, NeededFacts
  <2>2. ASSUME Needed(j, cmd), shop' = Effect(j, cmd)
        PROVE  SameNotes(shop, shop') /\ shop'.named = Nobody /\ shop'.backup # Nobody
    <3>1. shop.named \in 1..Len(shop.box) /\ shop.named # Nobody /\ shop.backup = Nobody
      BY <1>1, <1>2, <1>13, <2>1, <2>2 DEF RestorePhase, ShopOK
    <3>2. shop' = [shop EXCEPT !.named = Nobody, !.backup = shop.named]
      BY <2>1, <2>2, <3>1, Effects
    <3> QED
      BY <1>1, <3>1, <3>2, NamesSet
  <2>3. SameNotes(shop, shop')
    BY <1>1, <1>7, <2>2, SameShop
  <2>4. CASE ~Working(j)' /\ honest' = FALSE
    BY <1>7, <1>8, <1>11, <2>3, <2>4
  <2>5. CASE /\ UNCHANGED honest /\ Remembers(j, FALSE, FALSE)
             /\ ~Needed(j, cmd) \/ (Possible(j, cmd) /\ shop' = Effect(j, cmd))
             /\ runner'[j].pc = "undo" /\ runner'[j].at = 2
    <3>1. shop'.named = Nobody /\ shop'.backup # Nobody
      <4>1. CASE ~Needed(j, cmd)
        BY <1>2, <1>7, <1>13, <2>1, <2>5, <4>1 DEF RestorePhase, Working
      <4>2. CASE Needed(j, cmd)
        BY <2>2, <2>5, <4>2
      <4> QED
        BY <4>1, <4>2
    <3>2. RestorePhase(shop', runner'[j])
      BY <2>5, <3>1 DEF RestorePhase
    <3> QED
      BY <1>7, <1>8, <1>12, <2>3, <2>5, <3>2
  <2>6. runner[j].at \in 1..3 /\ runner[j].at + 1 = 2
    BY <1>13
  <2> QED
    BY <1>7, <2>4, <2>5, <2>6
<1>14. CASE runner[j].at = 2
  <2>1. cmd = "unrename" /\ Needed(j, cmd)
    BY <1>3, <1>4, <1>14, NeededFacts
  <2>2. shop.named = Nobody /\ shop.backup # Nobody /\ shop.backup \in 1..Len(shop.box)
    BY <1>1, <1>2, <1>14 DEF RestorePhase, ShopOK
  <2>3. ASSUME shop' = Effect(j, cmd)
        PROVE  SameNotes(shop, shop') /\ shop'.named = runner[j].was /\ shop'.backup # Nobody
    <3>1. shop' = [shop EXCEPT !.named = runner[j].was, !.backup = shop.backup]
      BY <2>1, <2>3, Effects
    <3> QED
      BY <1>1, <2>2, <3>1, NamesSet
  <2>4. SameNotes(shop, shop')
    BY <1>1, <1>7, <2>3, SameShop
  <2>5. CASE ~Working(j)' /\ honest' = FALSE
    BY <1>7, <1>8, <1>11, <2>4, <2>5
  <2>6. CASE /\ UNCHANGED honest /\ Remembers(j, FALSE, FALSE) /\ shop' = Effect(j, cmd)
             /\ runner'[j].pc = "undo" /\ runner'[j].at = 3
    <3>1. RestorePhase(shop', runner'[j])
      BY <2>3, <2>6 DEF RestorePhase, Remembers
    <3> QED
      BY <1>7, <1>8, <1>12, <2>4, <2>6, <3>1
  <2>7. runner[j].at \in 1..3 /\ runner[j].at + 1 = 3
    BY <1>14
  <2> QED
    BY <1>7, <2>1, <2>5, <2>6, <2>7
<1>15. CASE runner[j].at = 3
  <2>1. cmd = "policy" /\ Needed(j, cmd)
    BY <1>3, <1>4, <1>15, NeededFacts
  <2>2. shop.named = runner[j].was /\ shop.backup # Nobody
    BY <1>2, <1>15 DEF RestorePhase
  <2>3. ASSUME shop' = Effect(j, cmd)
        PROVE  /\ SameNotes(shop, shop') /\ shop'.named = runner[j].was /\ shop'.backup # Nobody
               /\ honest => shop'.box[shop'.named].restarts
    <3>1. shop' = [shop EXCEPT !.box[shop.named].restarts = runner[j].policy]
      <4>1. Goal(j).policy = runner[j].policy
        BY <1>9
      <4> QED
        BY <2>1, <2>3, <4>1, Effects
    <3>2. honest => runner[j].policy
      BY <1>1 DEF HonestPhase
    <3>3. /\ SameNotes(shop, shop') /\ shop'.named = shop.named /\ shop'.backup = shop.backup
          /\ shop'.box[shop.named].restarts = runner[j].policy
      BY <1>1, <2>2, <3>1, RestartsSet
    <3> QED
      BY <2>2, <3>2, <3>3
  <2>4. SameNotes(shop, shop')
    BY <1>1, <1>7, <2>3, SameShop
  <2>5. CASE ~Working(j)' /\ honest' = FALSE
    BY <1>7, <1>8, <1>11, <2>4, <2>5
  <2>6. CASE /\ UNCHANGED honest /\ Remembers(j, FALSE, FALSE) /\ shop' = Effect(j, cmd)
             /\ runner'[j].pc = "undo" /\ runner'[j].at = 4
    <3>1. RestorePhase(shop', runner'[j])
      BY <2>3, <2>6 DEF RestorePhase, Remembers
    <3> QED
      BY <1>7, <1>8, <1>12, <2>3, <2>6, <3>1
  <2>7. runner[j].at \in 1..3 /\ runner[j].at + 1 = 4
    BY <1>15
  <2> QED
    BY <1>7, <2>1, <2>5, <2>6, <2>7
<1>16. CASE runner[j].at = 4
  <2>1. cmd = "start"
    BY <1>3, <1>4, <1>16
  <2>2. /\ shop.named = runner[j].was /\ shop.backup # Nobody
        /\ honest => shop.box[shop.named].restarts
    BY <1>1, <1>2, <1>16 DEF RestorePhase, HonestPhase
  <2>3. ASSUME shop' = Effect(j, cmd)
        PROVE  /\ SameNotes(shop, shop') /\ shop'.named = shop.named
               /\ \A b \in 1..Len(shop.box) : shop'.box[b].restarts = shop.box[b].restarts
    <3>1. shop' = [shop EXCEPT !.box[shop.named].running = TRUE]
      BY <2>1, <2>3, Effects
    <3> QED
      BY <1>1, <2>2, <3>1, RunningSet
  <2>4. /\ SameNotes(shop, shop') /\ shop'.named = shop.named
        /\ honest => shop'.box[shop.named].restarts
    BY <1>1, <1>7, <2>2, <2>3, SameShop
  <2>5. CASE ~Working(j)' /\ honest' = FALSE
    BY <1>7, <1>8, <1>11, <2>4, <2>5
  <2>6. CASE UNCHANGED honest /\ ~Working(j)'
    <3>1. honest => HandedOn(shop')
      BY <1>10, <2>2, <2>4 DEF HandedOn
    <3> QED
      BY <1>7, <1>8, <1>10, <2>4, <2>6, <3>1 DEF Continues
  <2> QED
    BY <1>7, <1>16, <2>5, <2>6
<1> QED
  BY <1>5, <1>13, <1>14, <1>15, <1>16

-----------------------------------------------------------------------------
\* A step of the one runner at work, that leaves behind what it has to.
LEMMA RunnerStep ==
  ASSUME PresetInv, NEW j \in Jobs, Working(j), OnlyRunner(j), LockFollows(j), Continues(j),
         honest' \in BOOLEAN, honest' => honest, UNCHANGED <<registered, ledger, operating, job>>
  PROVE  PresetInv'
<1>1. PresetShapes /\ JobsInv /\ RunnersInv
  BY DEF PresetInv
<1>2. flock = j /\ registered
  BY <1>1 DEF RunnersInv
<1>3. PresetShapes'
  BY <1>1 DEF PresetShapes, OnlyRunner, LockFollows, Continues, JobRecord, Jobs
<1>4. JobsInv'
  <2>1. runner[j].pc # "idle" /\ job[j].at # 0
    BY <1>1 DEF Working, JobsInv
  <2> QED
    BY <1>1, <1>2, <2>1 DEF JobsInv, OnlyRunner, Stages
<1>5. ASSUME NEW i \in Jobs, Working(i)' PROVE i = j
  <2>1. SUFFICES ASSUME i # j PROVE FALSE
    OBVIOUS
  <2>2. Working(i)
    BY <1>5, <2>1 DEF OnlyRunner, Working
  <2> QED
    BY <1>1, <1>2, <2>1, <2>2 DEF RunnersInv
<1>6. Working(j)' => flock' = j /\ runner'[j].was = runner[j].was
  BY <1>2 DEF LockFollows
<1>7. RunnersInv'
  BY <1>2, <1>5, <1>6 DEF RunnersInv, Continues, Working
<1>8. HonestInv'
  BY <1>5 DEF HonestInv, Continues, Working
<1> QED
  BY <1>3, <1>4, <1>7, <1>8 DEF PresetInv

LEMMA DockerStep ==
  ASSUME PresetInv, NEW j \in Jobs, DockerCommand(j)
  PROVE  PresetInv' /\ (runner[j].pc = "undo" /\ runner'[j].pc = "restored" => IsRestored(j))
<1>1. Working(j) /\ UNCHANGED <<registered, ledger, operating, job>>
  BY DEF DockerCommand, Working
<1>2. job[j].kind \in {"upgrade", "restore"}
  BY <1>1 DEF PresetInv, RunnersInv
<1>3. honest' \in BOOLEAN /\ (honest' => honest)
  <2>1. honest \in BOOLEAN
    BY DEF PresetInv, PresetShapes
  <2> QED
    BY <2>1 DEF DockerCommand, Fails, Proceed
<1>4. /\ OnlyRunner(j) /\ LockFollows(j) /\ Continues(j)
      /\ runner[j].pc = "undo" /\ runner'[j].pc = "restored" => IsRestored(j)
  <2>1. CASE job[j].kind = "upgrade" /\ runner[j].pc = "do"
    BY <2>1, UpgradeDoes
  <2>2. CASE job[j].kind = "upgrade" /\ runner[j].pc = "undo"
    BY <2>2, UpgradeUndoes
  <2>3. CASE job[j].kind = "restore" /\ runner[j].pc = "do"
    BY <2>3, RestoreDoes
  <2>4. CASE job[j].kind = "restore" /\ runner[j].pc = "undo"
    BY <2>4, RestoreUndoes
  <2> QED
    BY <1>1, <1>2, <2>1, <2>2, <2>3, <2>4 DEF Working
<1>5. PresetInv'
  BY <1>1, <1>3, <1>4, RunnerStep
<1> QED
  BY <1>4, <1>5

\* What a step may do to one operation: its place in its stages, and a runner that is not
\* at work before or after, with the lock if it holds it or nobody does.
OnlyJob(j) ==
  /\ job' \in [Jobs -> JobRecord]
  /\ \A i \in Jobs : i # j => job'[i] = job[i]
  /\ job'[j].at \in 1..(Len(Stages(job'[j].kind)) + 1)
  /\ job'[j].kind = "upgrade" => registered
  /\ Working(j) => job'[j].kind = job[j].kind

QuietRunner(j) ==
  /\ OnlyRunner(j)
  /\ runner'[j] = runner[j] \/ (~Working(j) /\ ~Working(j)')

LockPasses(j) ==
  \/ flock' = flock
  \/ flock = j /\ flock' = Nobody /\ ~Working(j)
  \/ flock = Nobody /\ flock' = j

LEMMA StagesLength == \A kind \in Plans : Len(Stages(kind)) \in {10, 5, 3}
BY DEF Plans, Stages, CreateStages, UpgradeStages, RestoreStages

LEMMA QuietStep ==
  ASSUME PresetInv, NEW j \in Jobs, OnlyJob(j), QuietRunner(j), LockPasses(j),
         UNCHANGED <<shop, registered>>, honest' \in BOOLEAN, honest' => honest,
         ledger' \subseteq Jobs, operating' \in Jobs \cup {Nobody}
  PROVE  PresetInv'
<1>1. PresetShapes /\ JobsInv /\ RunnersInv /\ HonestInv
  BY DEF PresetInv
<1>2. PresetShapes'
  BY <1>1 DEF PresetShapes, OnlyJob, QuietRunner, OnlyRunner, LockPasses, ShopOK
<1>3. JobsInv'
  <2>1. ASSUME NEW i \in Jobs
        PROVE  (/\ job[i].at <= Len(Stages(job[i].kind)) + 1
                /\ job[i].at = 0 => runner[i].pc = "idle"
                /\ job[i].kind = "upgrade" /\ job[i].at # 0 => registered)'
    <3>1. CASE i = j
      <4>1. job'[j].kind \in Plans
        BY DEF OnlyJob, JobRecord
      <4>2. Len(Stages(job'[j].kind)) \in Nat
        BY <4>1, StagesLength
      <4>3. job'[j].at # 0 /\ job'[j].at <= Len(Stages(job'[j].kind)) + 1
        BY <4>2 DEF OnlyJob
      <4> QED
        BY <3>1, <4>3 DEF OnlyJob, Stages
    <3>2. CASE i # j
      BY <1>1, <3>2 DEF JobsInv, OnlyJob, QuietRunner, OnlyRunner, Stages
    <3> QED
      BY <3>1, <3>2
  <2> QED
    BY <1>1, <2>1 DEF JobsInv
<1>4. ASSUME NEW i \in Jobs, Working(i)' \/ Working(i)
      PROVE  /\ Working(i) /\ Working(i)' /\ runner'[i] = runner[i] /\ job'[i].kind = job[i].kind
             /\ flock' = i
  <2>1. Working(i) /\ runner'[i] = runner[i] /\ job'[i].kind = job[i].kind /\ Working(i)'
    BY <1>4 DEF QuietRunner, OnlyRunner, Working, OnlyJob
  <2>2. flock = i
    BY <1>1, <2>1 DEF RunnersInv
  <2>3. flock' = i
    BY <2>1, <2>2, PresetAssumption DEF LockPasses, Jobs
  <2> QED
    BY <2>1, <2>2, <2>3
<1>5. RunnersInv'
  BY <1>1, <1>4 DEF RunnersInv, UpgradePhase, RestorePhase
<1>6. HonestInv'
  BY <1>1, <1>4 DEF HonestInv, HonestPhase, NotesTrue, HandedOn
<1> QED
  BY <1>2, <1>3, <1>5, <1>6 DEF PresetInv

\* A stage that is over, or given up, leads to a later one.
LEMMA JobMoves ==
  ASSUME PresetInv, NEW j \in Jobs, StageOf(j) \notin {"none", "over"}, job' \in {Advance(j), Abandon(j)}
  PROVE  OnlyJob(j)
<1>1. job \in [Jobs -> JobRecord] /\ job[j] \in JobRecord
  BY DEF PresetInv, PresetShapes
<1>2. Len(Stages(job[j].kind)) \in {10, 5, 3}
  BY <1>1, StagesLength DEF JobRecord
<1>3. job[j].at # 0 /\ job[j].at <= Len(Stages(job[j].kind)) /\ job[j].at \in 0..11
  <2>1. job[j].at # 0 /\ ~(job[j].at > Len(Stages(job[j].kind))) /\ job[j].at \in 0..11
    BY <1>1 DEF StageOf, JobRecord
  <2> QED
    BY <1>2, <2>1
<1>4. PICK n \in 1..11 : /\ n \in {job[j].at + 1, Len(Stages(job[j].kind))}
                         /\ job' = [job EXCEPT ![j].at = n]
  <2>1. \A at \in 0..11 : \A size \in {10, 5, 3} : at <= size => at + 1 \in 1..11 /\ size \in 1..11
    OBVIOUS
  <2>2. job[j].at + 1 \in 1..11 /\ Len(Stages(job[j].kind)) \in 1..11
    BY <1>2, <1>3, <2>1
  <2> QED
    BY <1>1, <2>2 DEF Advance, Abandon
<1> DEFINE next == [job[j] EXCEPT !.at = n]
<1>5. /\ next \in JobRecord /\ next.at = n /\ next.kind = job[j].kind
  BY <1>1 DEF JobRecord
<1>6. job' = [job EXCEPT ![j] = next]
  BY <1>1, <1>4
<1> HIDE DEF next
<1>7. job' \in [Jobs -> JobRecord] /\ job'[j] = next /\ \A i \in Jobs : i # j => job'[i] = job[i]
  BY <1>1, <1>5, <1>6
<1>8. n \in 1..(Len(Stages(job[j].kind)) + 1)
  BY <1>2, <1>3, <1>4
<1>9. job[j].kind = "upgrade" => registered
  BY <1>3 DEF PresetInv, JobsInv
<1> QED
  BY <1>5, <1>7, <1>8, <1>9 DEF OnlyJob

\* Only an upgrade has the stage of that name, and so on.
LEMMA StageNames ==
  ASSUME NEW kind \in Plans, NEW n \in 1..Len(Stages(kind))
  PROVE  /\ Stages(kind)[n] \notin {"none", "over"}
         /\ \A stage \in {"create", "upgrade", "restore"} : Stages(kind)[n] = stage => kind = stage
<1>1. CASE kind = "create"
  <2>1. Stages(kind) = CreateStages
    BY <1>1 DEF Stages
  <2>2. n \in 1..10
    BY <2>1 DEF CreateStages
  <2>3. CreateStages[n] \in {"prepare", "upload", "build", "seed", "authorize", "stage",
                             "create", "activate", "ready", "cleanup"}
    BY <2>2 DEF CreateStages
  <2> QED
    BY <1>1, <2>1, <2>3
<1>2. CASE kind = "upgrade"
  <2>1. Stages(kind) = UpgradeStages
    BY <1>2 DEF Stages
  <2>2. n \in 1..5
    BY <2>1 DEF UpgradeStages
  <2>3. UpgradeStages[n] \in {"prepare", "upload", "build", "upgrade", "cleanup"}
    BY <2>2 DEF UpgradeStages
  <2> QED
    BY <1>2, <2>1, <2>3
<1>3. CASE kind = "restore"
  <2>1. Stages(kind) = RestoreStages
    BY <1>3 DEF Stages
  <2>2. n \in 1..3
    BY <2>1 DEF RestoreStages
  <2>3. RestoreStages[n] \in {"upload", "restore", "cleanup"}
    BY <2>2 DEF RestoreStages
  <2> QED
    BY <1>3, <2>1, <2>3
<1> QED
  BY <1>1, <1>2, <1>3 DEF Plans

LEMMA StageFacts ==
  ASSUME PresetInv, NEW j \in Jobs
  PROVE  /\ job[j].kind \in Plans /\ job[j].at \in 0..11
         /\ StageOf(j) = "none" <=> job[j].at = 0
         /\ \A stage \in {"create", "upgrade", "restore"} : StageOf(j) = stage => job[j].kind = stage
<1>1. job[j].kind \in Plans /\ job[j].at \in 0..11
  BY DEF PresetInv, PresetShapes, JobRecord
<1>2. CASE job[j].at = 0
  BY <1>1, <1>2 DEF StageOf
<1>3. CASE job[j].at > Len(Stages(job[j].kind)) /\ job[j].at # 0
  BY <1>1, <1>3 DEF StageOf
<1>4. CASE ~(job[j].at > Len(Stages(job[j].kind))) /\ job[j].at # 0
  <2>1. Len(Stages(job[j].kind)) \in Nat
    BY <1>1, StagesLength
  <2>2. job[j].at \in 1..Len(Stages(job[j].kind))
    BY <1>1, <1>4, <2>1
  <2>3. StageOf(j) = Stages(job[j].kind)[job[j].at]
    BY <1>4 DEF StageOf
  <2>4. /\ StageOf(j) \notin {"none", "over"}
        /\ \A stage \in {"create", "upgrade", "restore"} : StageOf(j) = stage => job[j].kind = stage
    BY <1>1, <2>2, <2>3, StageNames
  <2> QED
    BY <1>1, <1>4, <2>4
<1> QED
  BY <1>2, <1>3, <1>4

\* Steps that leave the runner, or the operation's place, as it is.
LEMMA RunnerStays ==
  ASSUME PresetInv, NEW j \in Jobs, UNCHANGED runner
  PROVE  QuietRunner(j)
BY DEF PresetInv, PresetShapes, QuietRunner, OnlyRunner

LEMMA JobStays ==
  ASSUME PresetInv, NEW j \in Jobs, job[j].at # 0, UNCHANGED job
  PROVE  OnlyJob(j)
<1>1. job \in [Jobs -> JobRecord] /\ job[j].kind \in Plans /\ job[j].at \in 0..11
  BY DEF PresetInv, PresetShapes, JobRecord
<1>2. Len(Stages(job[j].kind)) \in Nat
  BY <1>1, StagesLength
<1>3. job[j].at <= Len(Stages(job[j].kind)) + 1 /\ (job[j].kind = "upgrade" => registered)
  BY DEF PresetInv, JobsInv
<1>4. job[j].at \in 1..(Len(Stages(job[j].kind)) + 1)
  BY <1>1, <1>2, <1>3
<1> QED
  BY <1>1, <1>3, <1>4 DEF OnlyJob

LEMMA JobSet ==
  ASSUME NEW r \in JobRecord, NEW kind \in Plans, NEW n \in 0..11
  PROVE  [r EXCEPT !.kind = kind, !.at = n] \in JobRecord
BY DEF JobRecord

LEMMA MarkerSet ==
  ASSUME PresetInv, NEW j \in Jobs, job[j].at # 0, NEW m \in BOOLEAN,
         job' = [job EXCEPT ![j].marker = m] \/ job' = [job EXCEPT ![j].stale = m]
  PROVE  OnlyJob(j)
<1>1. job \in [Jobs -> JobRecord] /\ job[j] \in JobRecord /\ job[j].kind \in Plans /\ job[j].at \in 0..11
  BY DEF PresetInv, PresetShapes, JobRecord
<1>2. Len(Stages(job[j].kind)) \in Nat
  BY <1>1, StagesLength
<1>3. job[j].at <= Len(Stages(job[j].kind)) + 1 /\ (job[j].kind = "upgrade" => registered)
  BY DEF PresetInv, JobsInv
<1>4. job[j].at \in 1..(Len(Stages(job[j].kind)) + 1)
  BY <1>1, <1>2, <1>3
<1>5. PICK next : next \in {[job[j] EXCEPT !.marker = m], [job[j] EXCEPT !.stale = m]} /\ job' = [job EXCEPT ![j] = next]
  BY <1>1
<1>6. next \in JobRecord /\ next.kind = job[j].kind /\ next.at = job[j].at
  BY <1>1, <1>5 DEF JobRecord
<1>7. job' \in [Jobs -> JobRecord] /\ job'[j] = next /\ \A i \in Jobs : i # j => job'[i] = job[i]
  BY <1>1, <1>5, <1>6
<1> QED
  BY <1>3, <1>4, <1>6, <1>7 DEF OnlyJob

LEMMA Answered ==
  ASSUME PresetInv, NEW j \in Jobs, ~Working(j), NEW answer \in RunnerPlaces \ {"do", "undo"}, Answers(j, answer)
  PROVE  QuietRunner(j) /\ runner'[j].pc = answer
<1>1. runner \in [Jobs -> RunnerRecord] /\ runner[j] \in RunnerRecord
  BY DEF PresetInv, PresetShapes
<1> DEFINE next == [runner[j] EXCEPT !.pc = answer]
<1>2. next \in RunnerRecord /\ next.pc = answer
  <2>1. next \in RunnerRecord
    BY <1>1, RunnerSet
  <2> QED
    BY <1>1, <2>1 DEF RunnerRecord
<1>3. runner' = [runner EXCEPT ![j] = next]
  BY <1>1 DEF Answers
<1> HIDE DEF next
<1>4. runner' \in [Jobs -> RunnerRecord] /\ runner'[j] = next /\ \A i \in Jobs : i # j => runner'[i] = runner[i]
  BY <1>1, <1>2, <1>3
<1>5. ~Working(j)'
  BY <1>2, <1>4 DEF Working
<1> QED
  BY <1>2, <1>4, <1>5 DEF QuietRunner, OnlyRunner

-----------------------------------------------------------------------------
\* The desktop's steps.
LEMMA DesktopStep ==
  ASSUME PresetInv, NEW j \in Jobs,
         \/ \E kind \in Plans : BeginJob(j, kind)
         \/ GrantsExpire(j) \/ GiveUp(j) \/ TakeAnswer(j) \/ CleanUp(j)
         \/ Prepare(j) \/ Upload(j) \/ StageGrant(j) \/ WaitReady(j)
  PROVE  PresetInv'
<1>1. PresetShapes /\ honest \in BOOLEAN /\ ledger \subseteq Jobs /\ operating \in Jobs \cup {Nobody}
      /\ job \in [Jobs -> JobRecord] /\ job[j] \in JobRecord /\ runner \in [Jobs -> RunnerRecord]
  BY DEF PresetInv, PresetShapes
<1>2. /\ job[j].kind \in Plans /\ job[j].at \in 0..11
      /\ StageOf(j) = "none" <=> job[j].at = 0
  BY StageFacts
<1>3. ASSUME OnlyJob(j), UNCHANGED <<shop, registered, runner, flock, honest>>,
             ledger' \subseteq Jobs, operating' \in Jobs \cup {Nobody}
      PROVE  PresetInv'
  BY <1>1, <1>3, RunnerStays, QuietStep DEF LockPasses
<1>j. NoJob \in JobRecord
  BY DEF NoJob, JobRecord, Plans
<1>4. CASE \E kind \in Plans : BeginJob(j, kind)
  <2>1. PICK kind \in Plans : BeginJob(j, kind)
    BY <1>4
  <2> DEFINE next == [NoJob EXCEPT !.kind = kind, !.at = 1]
  <2>2. next \in JobRecord /\ next.kind = kind /\ next.at = 1
    <3>1. 1 \in 0..11
      OBVIOUS
    <3>2. next \in JobRecord
      BY <1>j, <2>1, <3>1, JobSet
    <3>3. next.kind = kind
      BY <1>j DEF JobRecord
    <3>4. next.at = 1
      BY <1>j DEF JobRecord
    <3> HIDE DEF next
    <3> QED
      BY <3>2, <3>3, <3>4
  <2>3. job' = [job EXCEPT ![j] = next]
    BY <2>1 DEF BeginJob
  <2> HIDE DEF next
  <2>4. job' \in [Jobs -> JobRecord] /\ job'[j] = next /\ \A i \in Jobs : i # j => job'[i] = job[i]
    BY <1>1, <2>2, <2>3
  <2>5. ~Working(j)
    BY <1>2, <2>1 DEF BeginJob, PresetInv, JobsInv, Working
  <2>6. 1 \in 1..(Len(Stages(kind)) + 1)
    <3>1. Len(Stages(kind)) \in Nat
      BY <2>1, StagesLength
    <3> QED
      BY <3>1
  <2>7. OnlyJob(j)
    BY <2>1, <2>2, <2>4, <2>5, <2>6 DEF OnlyJob, BeginJob, Admissible
  <2> QED
    BY <1>1, <1>3, <2>1, <2>7 DEF BeginJob
<1>5. CASE GrantsExpire(j)
  <2>1. job[j].at # 0
    BY <1>2, <1>5 DEF GrantsExpire
  <2>2. OnlyJob(j)
    BY <1>5, <2>1, MarkerSet DEF GrantsExpire
  <2> QED
    BY <1>1, <1>3, <1>5, <2>2 DEF GrantsExpire
<1>6. CASE GiveUp(j)
  <2>1. OnlyJob(j)
    BY <1>6, JobMoves DEF GiveUp, RunnerStages
  <2> QED
    BY <1>1, <1>3, <1>6, <2>1 DEF GiveUp
<1>7. CASE TakeAnswer(j)
  <2>1. OnlyJob(j)
    BY <1>7, JobMoves DEF TakeAnswer, RunnerStages
  <2>2. NoRunner \in RunnerRecord /\ NoRunner.pc = "idle"
    BY DEF NoRunner, RunnerRecord, RunnerPlaces
  <2>3. runner' \in [Jobs -> RunnerRecord] /\ runner'[j] = NoRunner /\ \A i \in Jobs : i # j => runner'[i] = runner[i]
    BY <1>1, <1>7, <2>2 DEF TakeAnswer
  <2>4. QuietRunner(j)
    BY <1>7, <2>2, <2>3 DEF QuietRunner, OnlyRunner, Working, TakeAnswer
  <2>5. UNCHANGED <<shop, registered, ledger, operating, flock, honest>> /\ LockPasses(j)
    BY <1>7 DEF TakeAnswer, LockPasses
  <2> QED
    BY <1>1, <2>1, <2>4, <2>5, QuietStep
<1>8. CASE CleanUp(j)
  <2>1. StageOf(j) = "cleanup" /\ StageOf(j) \notin {"none", "over"} /\ job[j].at # 0
    BY <1>2, <1>8 DEF CleanUp
  <2>2. Len(Stages(job[j].kind)) \in {10, 5, 3}
    BY <1>2, StagesLength
  <2>3. job[j].at <= Len(Stages(job[j].kind))
    BY <1>2, <2>1, <2>2 DEF StageOf
  <2>4. job[j].at + 1 \in 1..11 /\ job[j].at + 1 \in 1..(Len(Stages(job[j].kind)) + 1)
    <3>1. \A at \in 0..11 : \A size \in {10, 5, 3} : at <= size => at + 1 \in 1..11 /\ at + 1 \in 1..(size + 1)
      OBVIOUS
    <3> QED
      BY <1>2, <2>2, <2>3, <3>1
  <2> DEFINE next == [NoJob EXCEPT !.kind = job[j].kind, !.at = job[j].at + 1]
  <2>5. next \in JobRecord /\ next.kind = job[j].kind /\ next.at = job[j].at + 1
    <3>1. job[j].at + 1 \in 0..11
      BY <2>4
    <3>2. next \in JobRecord
      BY <1>j, <1>2, <3>1, JobSet
    <3>3. next.kind = job[j].kind
      BY <1>j DEF JobRecord
    <3>4. next.at = job[j].at + 1
      BY <1>j DEF JobRecord
    <3> HIDE DEF next
    <3> QED
      BY <3>2, <3>3, <3>4
  <2>6. job' = [job EXCEPT ![j] = next]
    BY <1>8 DEF CleanUp
  <2> HIDE DEF next
  <2>7. job' \in [Jobs -> JobRecord] /\ job'[j] = next /\ \A i \in Jobs : i # j => job'[i] = job[i]
    BY <1>1, <2>5, <2>6
  <2>8. job[j].kind = "upgrade" => registered
    BY <2>1 DEF PresetInv, JobsInv
  <2>9. OnlyJob(j)
    BY <2>4, <2>5, <2>7, <2>8 DEF OnlyJob
  <2> QED
    BY <1>1, <1>3, <1>8, <2>9 DEF CleanUp
<1>9. ASSUME NEW stage, stage \in {"prepare", "upload", "stage", "ready"}, FilesOnly(j, stage)
      PROVE  PresetInv'
  <2>1. OnlyJob(j)
    BY <1>9, JobMoves DEF FilesOnly
  <2> QED
    BY <1>1, <1>3, <1>9, <2>1 DEF FilesOnly
<1>10. CASE Prepare(j) \/ Upload(j) \/ StageGrant(j) \/ WaitReady(j)
  BY <1>9, <1>10 DEF Prepare, Upload, StageGrant, WaitReady
<1> QED
  BY <1>4, <1>5, <1>6, <1>7, <1>8, <1>10

-----------------------------------------------------------------------------
\* What a long program begins with.
LongRunner(w, p, q) == [[NoRunner EXCEPT !.pc = "do", !.was = w] EXCEPT !.policy = p, !.power = q]

LEMMA Begun ==
  ASSUME NEW w \in Boxes \cup {Nobody}, NEW p \in BOOLEAN, NEW q \in BOOLEAN
  PROVE  /\ LongRunner(w, p, q) \in RunnerRecord /\ LongRunner(w, p, q).pc = "do" /\ LongRunner(w, p, q).at = 1
         /\ LongRunner(w, p, q).was = w /\ ~LongRunner(w, p, q).renamed /\ ~LongRunner(w, p, q).made
         /\ LongRunner(w, p, q).policy = p
<1>1. /\ NoRunner \in RunnerRecord /\ NoRunner.at = 1 /\ ~NoRunner.renamed /\ ~NoRunner.made
  BY DEF NoRunner, RunnerRecord, RunnerPlaces
<1>2. PICK b : b = [NoRunner EXCEPT !.pc = "do", !.was = w]
  OBVIOUS
<1>3. b \in RunnerRecord /\ b.pc = "do" /\ b.was = w /\ b.at = 1 /\ ~b.renamed /\ ~b.made
  <2>1. "do" \in RunnerPlaces
    BY DEF RunnerPlaces
  <2>2. b \in RunnerRecord
    BY <1>1, <1>2, <2>1 DEF RunnerRecord
  <2>3. b.pc = "do" /\ b.was = w
    BY <1>1, <1>2 DEF RunnerRecord
  <2>4. b.at = 1 /\ ~b.renamed /\ ~b.made
    BY <1>1, <1>2 DEF RunnerRecord
  <2> QED
    BY <2>2, <2>3, <2>4
<1>4. PICK r : r = [b EXCEPT !.policy = p, !.power = q]
  OBVIOUS
<1>5. r \in RunnerRecord
  BY <1>3, <1>4 DEF RunnerRecord
<1>6. r.pc = "do" /\ r.was = w /\ r.at = 1
  BY <1>3, <1>4 DEF RunnerRecord
<1>7. ~r.renamed /\ ~r.made /\ r.policy = p
  BY <1>3, <1>4 DEF RunnerRecord
<1>8. LongRunner(w, p, q) = r
  BY <1>2, <1>4 DEF LongRunner
<1> QED
  BY <1>5, <1>6, <1>7, <1>8

\* A long program begins where no other runner is at work.
LEMMA LongBegins ==
  ASSUME PresetInv, NEW j \in Jobs, ~Working(j), flock = Nobody, flock' = j, shop.named # Nobody,
         runner' = [runner EXCEPT ![j] = [[NoRunner EXCEPT !.pc = "do", !.was = shop.named] EXCEPT
                      !.policy = shop.box[shop.named].restarts, !.power = shop.box[shop.named].running]],
         \/ StageOf(j) = "upgrade" /\ shop.backup = Nobody
         \/ StageOf(j) = "restore" /\ shop.backup # Nobody,
         UNCHANGED <<shop, registered, ledger, operating, job, honest>>
  PROVE  PresetInv'
<1>1. PresetShapes /\ JobsInv /\ RunnersInv /\ HonestInv
  BY DEF PresetInv
<1>2. runner \in [Jobs -> RunnerRecord] /\ ShopOK(shop)
  BY <1>1 DEF PresetShapes
<1>3. shop.named \in 1..Len(shop.box) /\ shop.box[shop.named] \in Box /\ shop.named \in Boxes \cup {Nobody}
  BY <1>2 DEF ShopOK
<1>4. shop.box[shop.named].restarts \in BOOLEAN /\ shop.box[shop.named].running \in BOOLEAN
  BY <1>3 DEF Box
<1>5. PICK r : r = [[NoRunner EXCEPT !.pc = "do", !.was = shop.named] EXCEPT
                      !.policy = shop.box[shop.named].restarts, !.power = shop.box[shop.named].running]
  OBVIOUS
<1>6. /\ r \in RunnerRecord /\ r.pc = "do" /\ r.at = 1 /\ r.was = shop.named
      /\ ~r.renamed /\ ~r.made /\ r.policy = shop.box[shop.named].restarts
  <2>1. r = LongRunner(shop.named, shop.box[shop.named].restarts, shop.box[shop.named].running)
    BY <1>5 DEF LongRunner
  <2> QED
    BY <1>3, <1>4, <2>1, Begun
<1>7. /\ runner' \in [Jobs -> RunnerRecord] /\ runner'[j] = r
      /\ \A i \in Jobs : i # j => runner'[i] = runner[i]
  <2>1. runner' = [runner EXCEPT ![j] = r]
    BY <1>5
  <2> QED
    BY <1>2, <1>6, <2>1
<1>8. ASSUME NEW i \in Jobs PROVE ~Working(i) /\ (i # j => ~Working(i)')
  <2>1. flock # i
    BY PresetAssumption DEF Jobs
  <2> QED
    BY <1>1, <1>7, <2>1 DEF RunnersInv, Working
<1>9. /\ job[j].at # 0 /\ registered
      /\ \/ job[j].kind = "upgrade" /\ shop.backup = Nobody
         \/ job[j].kind = "restore" /\ shop.backup # Nobody
  <2>1. job[j].at # 0
    BY StageFacts
  <2>2. \/ job[j].kind = "upgrade" /\ shop.backup = Nobody
        \/ job[j].kind = "restore" /\ shop.backup # Nobody
    BY StageFacts
  <2> QED
    BY <1>1, <2>1, <2>2 DEF JobsInv
<1>10. PresetShapes'
  BY <1>1, <1>7 DEF PresetShapes, ShopOK
<1>11. JobsInv'
  BY <1>1, <1>7, <1>9 DEF JobsInv, Stages
<1>12. RunnersInv'
  <2>1. UpgradePhase(shop, r) \/ job[j].kind # "upgrade"
    BY <1>6, <1>9 DEF UpgradePhase
  <2>2. RestorePhase(shop, r) \/ job[j].kind # "restore"
    BY <1>6, <1>9 DEF RestorePhase
  <2>3. (/\ runner[j].was \in 1..Len(shop.box)
         /\ \/ job[j].kind = "upgrade" /\ UpgradePhase(shop, runner[j])
            \/ job[j].kind = "restore" /\ RestorePhase(shop, runner[j]))'
    BY <1>3, <1>6, <1>7, <1>9, <2>1, <2>2 DEF UpgradePhase, RestorePhase
  <2> QED
    BY <1>8, <1>9, <2>3 DEF RunnersInv
<1>13. HonestInv'
  <2>1. honest => NotesTrue(shop) /\ HandedOn(shop)
    BY <1>1, <1>8 DEF HonestInv
  <2>2. honest => HonestPhase(job[j].kind, shop, r)
    BY <1>6, <1>9, <2>1 DEF HonestPhase, HandedOn
  <2>3. honest => HonestPhase(job[j].kind, shop, runner[j])'
    BY <1>7, <2>2 DEF HonestPhase, HandedOn
  <2>4. Working(j)'
    BY <1>6, <1>7 DEF Working
  <2> QED
    BY <1>8, <2>1, <2>3, <2>4 DEF HonestInv, NotesTrue
<1> QED
  BY <1>10, <1>11, <1>12, <1>13 DEF PresetInv

\* Steps that end with an answer, or with a short program, and touch no container.
LEMMA ShortSteps ==
  ASSUME PresetInv, NEW j \in Jobs, ~Working(j), job[j].at # 0,
         UNCHANGED job \/ (\E m \in BOOLEAN : job' = [job EXCEPT ![j].marker = m]),
         NEW answer \in RunnerPlaces \ {"do", "undo"}, Answers(j, answer),
         LockPasses(j), UNCHANGED <<shop, registered, ledger, operating>>,
         honest' \in BOOLEAN, honest' => honest
  PROVE  PresetInv'
<1>1. OnlyJob(j)
  BY JobStays, MarkerSet
<1>2. QuietRunner(j)
  BY Answered
<1>3. ledger' \subseteq Jobs /\ operating' \in Jobs \cup {Nobody}
  BY DEF PresetInv, PresetShapes
<1> QED
  BY <1>1, <1>2, <1>3, QuietStep

LEMMA LaunchStep ==
  ASSUME PresetInv, NEW j \in Jobs, Launch(j)
  PROVE  PresetInv'
<1>1. ~Working(j) /\ StageOf(j) \in RunnerStages /\ UNCHANGED <<shop, registered, ledger, operating, honest>>
  BY DEF Launch, Working
<1>2. job[j].at # 0 /\ honest \in BOOLEAN
  BY <1>1, StageFacts DEF RunnerStages, PresetInv, PresetShapes
<1>3. UNCHANGED job \/ (\E m \in BOOLEAN : job' = [job EXCEPT ![j].marker = m])
  BY DEF Launch
<1>4. ASSUME NEW answer \in {"failed", "short"}, Answers(j, answer),
             flock' = flock \/ (flock = Nobody /\ flock' = j)
      PROVE  PresetInv'
  <2>1. answer \in RunnerPlaces \ {"do", "undo"}
    BY DEF RunnerPlaces
  <2>2. LockPasses(j)
    BY <1>4 DEF LockPasses
  <2> QED
    BY <1>1, <1>2, <1>3, <1>4, <2>1, <2>2, ShortSteps
<1>5. \/ \E answer \in {"failed", "short"} : Answers(j, answer) /\ (flock' = flock \/ (flock = Nobody /\ flock' = j))
      \/ /\ flock = Nobody /\ flock' = j /\ shop.named # Nobody /\ UNCHANGED job
         /\ runner' = [runner EXCEPT ![j] = [[NoRunner EXCEPT !.pc = "do", !.was = shop.named] EXCEPT
                      !.policy = shop.box[shop.named].restarts, !.power = shop.box[shop.named].running]]
         /\ \/ StageOf(j) = "upgrade" /\ shop.backup = Nobody
            \/ StageOf(j) = "restore" /\ shop.backup # Nobody
  BY DEF Launch
<1>6. CASE /\ flock = Nobody /\ flock' = j /\ shop.named # Nobody /\ UNCHANGED job
           /\ runner' = [runner EXCEPT ![j] = [[NoRunner EXCEPT !.pc = "do", !.was = shop.named] EXCEPT
                      !.policy = shop.box[shop.named].restarts, !.power = shop.box[shop.named].running]]
           /\ \/ StageOf(j) = "upgrade" /\ shop.backup = Nobody
              \/ StageOf(j) = "restore" /\ shop.backup # Nobody
  BY <1>1, <1>6, LongBegins
<1> QED
  BY <1>4, <1>5, <1>6

LEMMA ShortProgramStep ==
  ASSUME PresetInv, NEW j \in Jobs, ShortProgram(j)
  PROVE  PresetInv'
<1>1. /\ ~Working(j) /\ runner[j].pc # "idle" /\ UNCHANGED <<shop, registered, ledger, operating, honest>>
      /\ LockPasses(j)
  BY DEF ShortProgram, Working, Unlock, LockPasses
<1>2. job[j].at # 0 /\ honest \in BOOLEAN
  BY <1>1 DEF PresetInv, PresetShapes, JobsInv
<1>3. PICK answer \in {"ok", "failed"} :
        Answers(j, answer) /\ (UNCHANGED job \/ job' = [job EXCEPT ![j].marker = TRUE])
  BY DEF ShortProgram
<1>4. answer \in RunnerPlaces \ {"do", "undo"}
  BY DEF RunnerPlaces
<1> QED
  BY <1>1, <1>2, <1>3, <1>4, ShortSteps

\* A runner that dies leaves the containers as they are, and is not honest.
LEMMA RunnerDiesStep ==
  ASSUME PresetInv, NEW j \in Jobs, RunnerDies(j)
  PROVE  PresetInv'
<1>1. /\ runner[j].pc # "idle" /\ UNCHANGED <<shop, registered, ledger, operating, job>> /\ honest' = FALSE
      /\ Answers(j, "broken") /\ Unlock(j)
  BY DEF RunnerDies
<1>2. CASE ~Working(j)
  <2>1. job[j].at # 0
    BY <1>1 DEF PresetInv, JobsInv
  <2>2. "broken" \in RunnerPlaces \ {"do", "undo"}
    BY DEF RunnerPlaces
  <2>3. LockPasses(j)
    BY <1>1, <1>2 DEF Unlock, LockPasses
  <2> QED
    BY <1>1, <1>2, <2>1, <2>2, <2>3, ShortSteps
<1>3. CASE Working(j)
  <2>1. runner \in [Jobs -> RunnerRecord] /\ runner[j] \in RunnerRecord /\ ShopOK(shop)
    BY DEF PresetInv, PresetShapes
  <2>2. PICK r : r = [runner[j] EXCEPT !.pc = "broken"]
    OBVIOUS
  <2>3. r \in RunnerRecord /\ r.pc = "broken"
    <3>1. "broken" \in RunnerPlaces
      BY DEF RunnerPlaces
    <3>2. r \in RunnerRecord
      BY <2>1, <2>2, <3>1, RunnerSet
    <3> QED
      BY <2>1, <2>2, <3>2 DEF RunnerRecord
  <2>4. runner' = [runner EXCEPT ![j] = r]
    BY <1>1, <2>1, <2>2 DEF Answers
  <2>5. OnlyRunner(j) /\ ~Working(j)'
    BY <2>1, <2>3, <2>4 DEF OnlyRunner, Working
  <2>6. LockFollows(j)
    BY <1>1, <2>5 DEF LockFollows, Unlock
  <2>7. Continues(j)
    BY <1>1, <1>3, <2>1, <2>5 DEF Continues, PresetInv, RunnersInv
  <2> QED
    BY <1>1, <1>3, <2>5, <2>6, <2>7, RunnerStep
<1> QED
  BY <1>2, <1>3

\* A container is made where the instance is not: no runner is at work on it.
LEMMA CreateStep ==
  ASSUME PresetInv, NEW j \in Jobs, CreateBox(j)
  PROVE  PresetInv'
<1>1. PresetShapes /\ JobsInv /\ RunnersInv /\ HonestInv
  BY DEF PresetInv
<1>2. StageOf(j) \notin {"none", "over"} /\ UNCHANGED <<operating, runner, flock, honest>>
      /\ job' \in {Advance(j), Abandon(j)}
  BY DEF CreateBox
<1>3. OnlyJob(j)
  BY <1>2, JobMoves
<1>4. ledger' \subseteq Jobs /\ operating \in Jobs \cup {Nobody} /\ honest \in BOOLEAN
  BY <1>1 DEF CreateBox, PresetShapes
<1>5. CASE UNCHANGED <<shop, registered>>
  BY <1>2, <1>3, <1>4, <1>5, RunnerStays, QuietStep DEF LockPasses
<1>6. CASE /\ ~registered /\ FreshBox \in Boxes /\ registered' \in BOOLEAN
           /\ \/ shop' = WithNew(NewBox(TRUE, Nobody))
              \/ shop' = WithNew([NewBox(TRUE, Nobody) EXCEPT !.running = TRUE])
  <2>1. /\ NewBox(TRUE, Nobody) \in Box /\ NewBox(TRUE, Nobody).restarts
        /\ NewBox(TRUE, Nobody).rollback = Nobody
    BY DEF NewBox, Box
  <2>2. PICK b \in Box : b.restarts /\ b.rollback = Nobody /\ shop' = WithNew(b)
    <3>1. [NewBox(TRUE, Nobody) EXCEPT !.running = TRUE] \in Box
      BY <2>1 DEF Box
    <3>2. /\ [NewBox(TRUE, Nobody) EXCEPT !.running = TRUE].restarts
          /\ [NewBox(TRUE, Nobody) EXCEPT !.running = TRUE].rollback = Nobody
      BY <2>1 DEF Box
    <3> QED
      BY <1>6, <2>1, <3>1, <3>2
  <2>3. ShopOK(shop) /\ Len(shop.box) \in Nat
    BY <1>1 DEF PresetShapes, ShopOK
  <2>4. /\ ShopOK(shop') /\ Len(shop'.box) = Len(shop.box) + 1 /\ shop'.backup = shop.backup
        /\ shop'.named = Len(shop.box) + 1 /\ shop'.box[shop'.named] = b
        /\ \A a \in 1..Len(shop.box) : shop'.box[a] = shop.box[a]
    BY <1>6, <2>2, <2>3, BoxMade
  <2>5. shop.backup = Nobody /\ \A i \in Jobs : ~Working(i) /\ ~Working(i)'
    BY <1>1, <1>2, <1>6 DEF JobsInv, RunnersInv, Working
  <2>6. PresetShapes'
    BY <1>1, <1>2, <1>3, <1>4, <1>6, <2>4 DEF PresetShapes, OnlyJob
  <2>7. JobsInv'
    <3>1. ASSUME NEW i \in Jobs
          PROVE  (/\ job[i].at <= Len(Stages(job[i].kind)) + 1
                  /\ job[i].at = 0 => runner[i].pc = "idle"
                  /\ job[i].kind = "upgrade" /\ job[i].at # 0 => registered)'
      <4>1. CASE i = j
        <5>1. job'[j].kind \in Plans
          BY <1>3 DEF OnlyJob, JobRecord
        <5>2. Len(Stages(job'[j].kind)) \in Nat
          BY <5>1, StagesLength
        <5>3. job'[j].at # 0 /\ job'[j].at <= Len(Stages(job'[j].kind)) + 1
          BY <1>3, <5>2 DEF OnlyJob
        <5> QED
          BY <1>3, <1>6, <4>1, <5>3 DEF OnlyJob, Stages
      <4>2. CASE i # j
        BY <1>1, <1>2, <1>3, <1>6, <4>2 DEF JobsInv, OnlyJob, Stages
      <4> QED
        BY <4>1, <4>2
    <3> QED
      BY <2>4, <2>5, <3>1 DEF JobsInv
  <2>8. RunnersInv'
    BY <2>5 DEF RunnersInv
  <2>9. HonestInv'
    <3>1. honest => NotesTrue(shop)
      BY <1>1 DEF HonestInv
    <3>2. ASSUME honest, NEW a \in 1..Len(shop'.box), shop'.box[a].rollback # Nobody
          PROVE  shop'.box[a].rollback.policy
      <4>1. a \in 1..Len(shop.box) \/ a = Len(shop.box) + 1
        BY <2>3, <2>4
      <4>2. a # Len(shop.box) + 1
        BY <2>2, <2>4, <3>2
      <4> QED
        BY <2>4, <3>1, <3>2, <4>1, <4>2 DEF NotesTrue
    <3>3. honest => NotesTrue(shop')
      BY <3>2 DEF NotesTrue
    <3>4. HandedOn(shop')
      BY <2>2, <2>4, <2>5 DEF HandedOn
    <3> QED
      BY <1>2, <2>5, <3>3, <3>4 DEF HonestInv, NotesTrue, HandedOn
  <2> QED
    BY <2>6, <2>7, <2>8, <2>9 DEF PresetInv
<1>7. registered \in BOOLEAN
  BY <1>1 DEF PresetShapes
<1> QED
  BY <1>5, <1>6, <1>7 DEF CreateBox

\* Starting and stopping the instance meanwhile is no one's business.
LEMMA LifecycleStep ==
  ASSUME PresetInv, NEW on \in BOOLEAN, Lifecycle(on)
  PROVE  PresetInv'
<1>1. PresetShapes /\ JobsInv /\ RunnersInv /\ HonestInv
  BY DEF PresetInv
<1>2. ShopOK(shop) /\ shop.named \in 1..Len(shop.box)
  BY <1>1 DEF PresetShapes, ShopOK, Lifecycle
<1>3. UNCHANGED <<registered, ledger, operating, job, runner, flock, honest>>
  BY DEF Lifecycle
<1>4. /\ SameNotes(shop, shop') /\ shop'.named = shop.named /\ shop'.backup = shop.backup
      /\ \A b \in 1..Len(shop.box) : shop'.box[b].restarts = shop.box[b].restarts
  BY <1>2, RunningSet DEF Lifecycle
<1>5. ShopOK(shop') /\ Len(shop'.box) = Len(shop.box)
      /\ \A b \in 1..Len(shop.box) : shop'.box[b].rollback = shop.box[b].rollback
  BY <1>4 DEF SameNotes
<1>6. PresetShapes' /\ JobsInv'
  BY <1>1, <1>3, <1>4, <1>5 DEF PresetShapes, JobsInv, Stages
<1>7. RunnersInv'
  BY <1>1, <1>3, <1>4, <1>5 DEF RunnersInv, UpgradePhase, RestorePhase, Working
<1>8. HandedOn(shop) => HandedOn(shop')
  BY <1>2, <1>4, <1>5 DEF HandedOn
<1>9. NotesTrue(shop) => NotesTrue(shop')
  BY <1>4, NotesKept
<1>10. ASSUME NEW j \in Jobs, Working(j), HonestPhase(job[j].kind, shop, runner[j])
       PROVE  HonestPhase(job[j].kind, shop', runner[j])
  <2>1. runner[j].was \in 1..Len(shop.box)
    BY <1>1, <1>10 DEF RunnersInv
  <2> QED
    BY <1>2, <1>4, <1>5, <1>8, <1>10, <2>1 DEF HonestPhase
<1>11. HonestInv'
  <2>1. \A j \in Jobs : Working(j)' <=> Working(j)
    BY <1>3 DEF Working
  <2>2. ASSUME NEW j \in Jobs, honest, Working(j) PROVE HonestPhase(job'[j].kind, shop', runner'[j])
    BY <1>1, <1>3, <1>10, <2>2 DEF HonestInv
  <2> QED
    BY <1>1, <1>3, <1>8, <1>9, <2>1, <2>2 DEF HonestInv
<1> QED
  BY <1>6, <1>7, <1>11 DEF PresetInv

-----------------------------------------------------------------------------
LEMMA PresetInit_Inv == PresetInit => PresetInv
<1> SUFFICES ASSUME PresetInit PROVE PresetInv
  OBVIOUS
<1>1. NoJob \in JobRecord /\ NoJob.at = 0 /\ NoRunner \in RunnerRecord /\ NoRunner.pc = "idle"
  BY DEF NoJob, JobRecord, Plans, NoRunner, RunnerRecord, RunnerPlaces
<1>2. /\ job \in [Jobs -> JobRecord] /\ runner \in [Jobs -> RunnerRecord]
      /\ \A j \in Jobs : job[j].at = 0 /\ runner[j].pc = "idle"
  BY <1>1 DEF PresetInit
<1>3. ShopOK(shop) /\ NotesTrue(shop) /\ HandedOn(shop) /\ shop.backup = Nobody
  <2>1. CASE shop = [named |-> Nobody, backup |-> Nobody, box |-> <<>>]
    BY <2>1, PresetAssumption DEF ShopOK, NotesTrue, HandedOn
  <2>2. CASE shop = [named |-> 1, backup |-> Nobody, box |-> <<Original>>]
    <3>1. /\ Original \in Box /\ Original.restarts /\ Original.rollback = Nobody
      BY DEF Original, Box
    <3>2. PICK boxes : boxes = <<Original>>
      OBVIOUS
    <3>3. boxes \in Seq(Box) /\ Len(boxes) = 1 /\ boxes[1] = Original
      BY <3>1, <3>2
    <3>4. shop = [named |-> 1, backup |-> Nobody, box |-> boxes]
      BY <2>2, <3>2
    <3>5. 1 \in Boxes /\ 1 <= MaxBoxes
      BY PresetAssumption DEF Boxes
    <3>6. shop.named = 1 /\ shop.backup = Nobody /\ shop.box = boxes /\ shop.box[1] = Original
      BY <3>3, <3>4
    <3>7. shop \in [named : Boxes \cup {Nobody}, backup : Boxes \cup {Nobody}, box : Seq(Box)]
      BY <3>3, <3>4, <3>5
    <3>8. ShopOK(shop)
      <4>0. Len(shop.box) = 1
        BY <3>3, <3>6
      <4>1. 1 \in 1..Len(shop.box) /\ Len(shop.box) <= MaxBoxes
        <5>1. \A n \in {1} : 1 \in 1..n
          OBVIOUS
        <5> QED
          BY <3>5, <4>0, <5>1
      <4>2. {shop.named, shop.backup} \subseteq (1..Len(shop.box)) \cup {Nobody}
        BY <3>6, <4>1
      <4> QED
        BY <3>7, <4>1, <4>2 DEF ShopOK
    <3>9. \A b \in 1..Len(shop.box) : shop.box[b] = Original
      BY <3>3, <3>6
    <3> QED
      BY <3>1, <3>6, <3>8, <3>9 DEF NotesTrue, HandedOn
  <2> QED
    BY <2>1, <2>2 DEF PresetInit
<1>4. PresetShapes
  BY <1>2, <1>3 DEF PresetShapes, PresetInit
<1>5. \A j \in Jobs : Len(Stages(job[j].kind)) \in Nat
  BY <1>2, StagesLength DEF JobRecord
<1> QED
  BY <1>2, <1>3, <1>4, <1>5 DEF PresetInv, JobsInv, RunnersInv, HonestInv, Working

\* The only step that says "restored" is the last of a roll-back.
RestoredTruly ==
  \A j \in Jobs : runner[j].pc = "undo" /\ runner'[j].pc = "restored" =>
    LET b == runner[j].was IN
    /\ shop'.named = b /\ shop'.backup = Nobody
    /\ shop'.box[b].restarts = runner[j].policy
    /\ runner[j].power => shop'.box[b].running

LEMMA PresetStep ==
  ASSUME PresetInv, PresetNext
  PROVE  PresetInv' /\ RestoredTruly
<1>1. runner \in [Jobs -> RunnerRecord]
  BY DEF PresetInv, PresetShapes
<1>2. ASSUME NEW j \in Jobs, OnlyRunner(j), runner[j].pc = "undo" /\ runner'[j].pc = "restored" => IsRestored(j)
      PROVE  RestoredTruly
  BY <1>2 DEF OnlyRunner, RestoredTruly, IsRestored
<1>3. ASSUME \A j \in Jobs : runner'[j] = runner[j] \/ runner'[j].pc # "restored" \/ runner[j].pc # "undo"
      PROVE  RestoredTruly
  BY <1>3 DEF RestoredTruly
<1>4. CASE \E on \in BOOLEAN : Lifecycle(on)
  BY <1>3, <1>4, LifecycleStep DEF Lifecycle
<1>5. ASSUME NEW j \in Jobs,
             \/ \E kind \in Plans : BeginJob(j, kind)
             \/ GrantsExpire(j) \/ GiveUp(j) \/ TakeAnswer(j) \/ CleanUp(j)
             \/ Prepare(j) \/ Upload(j) \/ StageGrant(j) \/ WaitReady(j)
      PROVE  PresetInv' /\ RestoredTruly
  <2>1. UNCHANGED runner \/ TakeAnswer(j)
    BY <1>5 DEF BeginJob, GrantsExpire, GiveUp, CleanUp, Prepare, Upload, StageGrant, WaitReady, FilesOnly
  <2>2. \A i \in Jobs : runner'[i] = runner[i] \/ runner'[i].pc # "restored"
    BY <1>1, <2>1 DEF TakeAnswer, NoRunner
  <2> QED
    BY <1>3, <1>5, <2>2, DesktopStep
<1>6. ASSUME NEW j \in Jobs, CreateBox(j) PROVE PresetInv' /\ RestoredTruly
  BY <1>3, <1>6, CreateStep DEF CreateBox
<1>7. ASSUME NEW j \in Jobs, Launch(j) PROVE PresetInv' /\ RestoredTruly
  <2>1. \A i \in Jobs : runner'[i] = runner[i] \/ runner[i].pc # "undo"
    BY <1>1, <1>7 DEF Launch, Answers
  <2> QED
    BY <1>3, <1>7, <2>1, LaunchStep
<1>8. ASSUME NEW j \in Jobs, ShortProgram(j) PROVE PresetInv' /\ RestoredTruly
  <2>1. \A i \in Jobs : runner'[i] = runner[i] \/ runner[i].pc # "undo"
    BY <1>1, <1>8 DEF ShortProgram, Answers
  <2> QED
    BY <1>3, <1>8, <2>1, ShortProgramStep
<1>9. ASSUME NEW j \in Jobs, RunnerDies(j) PROVE PresetInv' /\ RestoredTruly
  <2>1. \A i \in Jobs : runner'[i] = runner[i] \/ runner'[i].pc # "restored"
    <3>1. runner' = [runner EXCEPT ![j] = [runner[j] EXCEPT !.pc = "broken"]]
      BY <1>1, <1>9 DEF RunnerDies, Answers
    <3>2. runner[j] \in RunnerRecord
      BY <1>1
    <3>3. [runner[j] EXCEPT !.pc = "broken"].pc = "broken"
      BY <3>2 DEF RunnerRecord
    <3> QED
      BY <1>1, <3>1, <3>3
  <2> QED
    BY <1>3, <1>9, <2>1, RunnerDiesStep
<1>10. ASSUME NEW j \in Jobs, DockerCommand(j) PROVE PresetInv' /\ RestoredTruly
  <2>1. PresetInv' /\ (runner[j].pc = "undo" /\ runner'[j].pc = "restored" => IsRestored(j))
    BY <1>10, DockerStep
  <2>2. \A i \in Jobs : i # j => runner'[i] = runner[i]
    BY <1>1, <1>10 DEF DockerCommand, Proceed, Fails, Answers
  <2> QED
    BY <2>1, <2>2 DEF RestoredTruly, IsRestored
<1> QED
  BY <1>4, <1>5, <1>6, <1>7, <1>8, <1>9, <1>10 DEF PresetNext

LEMMA PresetStutters == PresetInv /\ UNCHANGED presetVars => PresetInv' /\ RestoredTruly
<1> SUFFICES ASSUME PresetInv, UNCHANGED presetVars PROVE PresetInv' /\ RestoredTruly
  OBVIOUS
<1>1. UNCHANGED <<shop, registered, ledger, operating, job, runner, flock, honest>>
  BY DEF presetVars
<1>2. PresetInv'
  BY <1>1 DEF PresetInv, PresetShapes, JobsInv, RunnersInv, HonestInv, Working, Stages
<1>3. RestoredTruly
  BY <1>1 DEF RestoredTruly
<1> QED
  BY <1>2, <1>3

\* A failed upgrade's "original instance restored" is the truth, and presets hand the
\* instance on with the restart policy it was created with (restart_policy and the
\* roll-back of upgrade and restore in the runner).
THEOREM UpgradesReversible == PresetSpec => UpgradesAreReversible
<1>1. PresetInit => PresetInv
  BY PresetInit_Inv
<1>2. PresetInv /\ [PresetNext]_presetVars => PresetInv' /\ RestoredTruly
  BY PresetStep, PresetStutters
<1>3. PresetInv => PolicyFollowsTheInstance
  BY DEF PresetInv, HonestInv, PolicyFollowsTheInstance, HandedOn, Working
<1>4. RestoredTruly =>
        [\A j \in Jobs : runner[j].pc = "undo" /\ runner'[j].pc = "restored" =>
           LET b == runner[j].was IN
           /\ shop'.named = b /\ shop'.backup = Nobody
           /\ shop'.box[b].restarts = runner[j].policy
           /\ runner[j].power => shop'.box[b].running]_presetVars
  BY DEF RestoredTruly
<1> QED
  BY <1>1, <1>2, <1>3, <1>4, PTL DEF PresetSpec, UpgradesAreReversible, FailedUpgradeIsUndone

\* The types of what the preset operations keep (devices_cmds.rs, qemu.rs).
THEOREM PresetTypes == PresetSpec => []PresetTypeOK
<1>1. PresetInit => PresetInv
  BY PresetInit_Inv
<1>2. PresetInv /\ [PresetNext]_presetVars => PresetInv'
  BY PresetStep, PresetStutters
<1>3. PresetInv => PresetTypeOK
  <2> SUFFICES ASSUME PresetInv PROVE PresetTypeOK
    OBVIOUS
  <2>1. PresetShapes /\ ShopOK(shop)
    BY DEF PresetInv, PresetShapes
  <2>2. DOMAIN shop.box \subseteq Boxes /\ \A b \in DOMAIN shop.box : shop.box[b] \in Box
    <3>1. shop.box \in Seq(Box) /\ Len(shop.box) \in Nat /\ Len(shop.box) <= MaxBoxes /\ MaxBoxes \in Nat
      BY <2>1, PresetAssumption DEF ShopOK
    <3> QED
      BY <3>1 DEF Boxes
  <2>3. {shop.named, shop.backup} \subseteq Boxes \cup {Nobody}
    BY <2>1 DEF ShopOK
  <2> QED
    BY <2>1, <2>2, <2>3 DEF PresetShapes, PresetTypeOK, JobRecord, RunnerRecord, RunnerPlaces
<1> QED
  BY <1>1, <1>2, <1>3, PTL DEF PresetSpec

-----------------------------------------------------------------------------
(* The kernel of WSL: what the editors do to a file, line by line. *)

Modes == {"custom", "default"}
Editing == [out : Seq(Lines), inside : BOOLEAN, seen : BOOLEAN, written : BOOLEAN]

\* What UserPart has kept after each line.
LEMMA UserPartFolds ==
  ASSUME NEW file \in Seq(Lines)
  PROVE  \E p \in [0..Len(file) -> Seq(UserLines)] :
           /\ p[0] = << >> /\ UserPart(file) = p[Len(file)]
           /\ \A k \in 1..Len(file) : p[k] = Keep(p[k - 1], file[k])
<1> DEFINE n == Len(file)
           A == Seq(UserLines)
           Step(f, t) == Keep(f[t \ {Max(t)}], file[Max(t)])
           g == [x \in A \X Lines |-> Keep(x[1], x[2])]
           Eq(f) == f = [t \in SUBSET DOMAIN file |-> IF t = {} THEN << >> ELSE Keep(f[t \ {Max(t)}], file[Max(t)])]
           it == CHOOSE f : Eq(f)
<1>1. UserPart(file) = it[DOMAIN file]
  BY DEF UserPart, FoldLeft, MapThenFoldSet
<1>2. n \in Nat /\ DOMAIN file = 1..n /\ file \in [1..n -> Lines]
  OBVIOUS
<1>3. (\A x \in A, l \in Lines : Keep(x, l) \in A) /\ << >> \in A
  BY DEF Keep
<1> HIDE DEF A
<1>4. g \in [A \X Lines -> A]
  BY <1>3
<1>5. PICK f \in [SUBSET (1..n) -> A] : LeftFold(f, g, << >>, file, n)
  <2> HIDE DEF g, n
  <2> QED  BY <1>2, <1>3, <1>4, LeftFoldsExist
<1>6. \A t \in SUBSET (1..n) : t # {} => Max(t) \in 1..n
  <2> HIDE DEF n
  <2> SUFFICES ASSUME NEW t \in SUBSET (1..n), t # {} PROVE Max(t) \in 1..n
    OBVIOUS
  <2>1. Max(t) \in t
    BY <1>2, MaxIsIn
  <2> QED
    BY <2>1
<1>7. Eq(f)
  <2>1. ASSUME NEW t \in SUBSET (1..n), t # {} PROVE f[t] = Step(f, t)
    <3>1. f[t \ {Max(t)}] \in A /\ file[Max(t)] \in Lines
      BY <1>2, <1>6, <2>1
    <3>2. f[t] = g[<<f[t \ {Max(t)}], file[Max(t)]>>]
      <4> HIDE DEF g, n
      <4> QED  BY <1>5, <2>1 DEF LeftFold
    <3> HIDE DEF n
    <3> QED
      BY <3>1, <3>2
  <2>2. f[{}] = << >> /\ f = [t \in SUBSET (1..n) |-> f[t]]
    BY <1>5 DEF LeftFold
  <2> HIDE DEF n
  <2>3. \A t \in SUBSET (1..n) : f[t] = IF t = {} THEN << >> ELSE Keep(f[t \ {Max(t)}], file[Max(t)])
    BY <2>1, <2>2
  <2> QED
    BY <1>2, <2>2, <2>3
<1>8. Eq(it)
  <2> HIDE DEF Eq
  <2> QED  BY <1>7
<1> HIDE DEF it
<1>9. it[{}] = << >> /\ \A k \in 1..n : it[1..k] = Keep(it[1..(k - 1)], file[k])
  <2>1. \A t \in SUBSET (1..n) : it[t] = IF t = {} THEN << >> ELSE Keep(it[t \ {Max(t)}], file[Max(t)])
    <3> HIDE DEF n
    <3> QED  BY <1>2, <1>8
  <2> SUFFICES ASSUME NEW k \in 1..n PROVE it[1..k] = Keep(it[1..(k - 1)], file[k])
    BY <2>1
  <2>2. 1..k \in SUBSET (1..n) /\ 1..k # {} /\ Max(1..k) = k /\ (1..k) \ {k} = 1..(k - 1)
    BY <1>2, LeftFoldPrefix
  <2> HIDE DEF n
  <2> QED
    BY <2>1, <2>2
<1> DEFINE p == [k \in 0..n |-> it[1..k]]
<1>10. p[0] = << >> /\ p[n] = it[DOMAIN file]
  BY <1>2, <1>9
<1>11. \A k \in 1..n : p[k] = Keep(p[k - 1], file[k])
  BY <1>9
<1>12. p = [k \in 0..n |-> p[k]]
  OBVIOUS
<1> HIDE DEF p
<1>13. ASSUME NEW m \in 0..n PROVE p[m] \in A
  <2> DEFINE Bad == {k \in Nat : k <= n /\ p[k] \notin A}
  <2>1. Bad = {}
    <3> SUFFICES ASSUME Bad # {} PROVE FALSE
      OBVIOUS
    <3>1. PICK k \in Bad : \A j \in Bad : k <= j
      BY LeastElement
    <3>2. k # 0
      BY <1>3, <1>10, <3>1
    <3>3. k \in 1..n /\ k - 1 \in Nat /\ k - 1 <= n
      BY <1>2, <3>1, <3>2
    <3>4. k - 1 \notin Bad
      BY <3>1, <3>3
    <3>5. p[k - 1] \in A /\ file[k] \in Lines
      BY <1>2, <3>3, <3>4
    <3>6. p[k] = Keep(p[k - 1], file[k])
      BY <1>11, <3>3
    <3>7. p[k] \in A
      BY <1>3, <3>5, <3>6
    <3> QED
      BY <3>1, <3>7
  <2> QED
    BY <2>1
<1> QED
  <2>1. p \in [0..n -> A]
    BY <1>12, <1>13
  <2> HIDE DEF n
  <2> QED
    BY <1>1, <1>10, <1>11, <2>1 DEF A, n

LEMMA EnsureType ==
  ASSUME NEW out \in Seq(Lines), NEW l \in Lines
  PROVE  Ensure(out, l) \in Seq(Lines)
<1>1. CASE l = "[wsl2]"
  <2>1. Ensure(out, l) = out \o <<l, "ensured">> /\ "ensured" \in Lines
    BY <1>1 DEF Ensure, Lines
  <2>2. <<l, "ensured">> \in Seq(Lines)
    BY <2>1
  <2> HIDE DEF Ensure
  <2> QED
    BY <2>1, <2>2, ConcatProperties
<1>2. CASE l # "[wsl2]"
  <2>1. Ensure(out, l) = out \o <<l>>
    BY <1>2 DEF Ensure
  <2> QED
    BY <2>1
<1> QED
  BY <1>1, <1>2

\* What has been written after each line, where the defaults are ensured.
LEMMA EnsureFolds ==
  ASSUME NEW file \in Seq(Lines)
  PROVE  \E p \in [0..Len(file) -> Seq(Lines)] :
           /\ p[0] = << >> /\ FoldLeft(Ensure, << >>, file) = p[Len(file)]
           /\ \A k \in 1..Len(file) : p[k] = Ensure(p[k - 1], file[k])
<1> DEFINE n == Len(file)
           A == Seq(Lines)
           Step(f, t) == Ensure(f[t \ {Max(t)}], file[Max(t)])
           g == [x \in A \X Lines |-> Ensure(x[1], x[2])]
           Eq(f) == f = [t \in SUBSET DOMAIN file |-> IF t = {} THEN << >> ELSE Ensure(f[t \ {Max(t)}], file[Max(t)])]
           it == CHOOSE f : Eq(f)
<1>1. FoldLeft(Ensure, << >>, file) = it[DOMAIN file]
  BY DEF FoldLeft, MapThenFoldSet
<1>2. n \in Nat /\ DOMAIN file = 1..n /\ file \in [1..n -> Lines]
  OBVIOUS
<1>3. (\A x \in A, l \in Lines : Ensure(x, l) \in A) /\ << >> \in A
  BY EnsureType DEF A
<1> HIDE DEF A
<1>4. g \in [A \X Lines -> A]
  BY <1>3
<1>5. PICK f \in [SUBSET (1..n) -> A] : LeftFold(f, g, << >>, file, n)
  <2> HIDE DEF g, n
  <2> QED  BY <1>2, <1>3, <1>4, LeftFoldsExist
<1>6. \A t \in SUBSET (1..n) : t # {} => Max(t) \in 1..n
  <2> HIDE DEF n
  <2> SUFFICES ASSUME NEW t \in SUBSET (1..n), t # {} PROVE Max(t) \in 1..n
    OBVIOUS
  <2>1. Max(t) \in t
    BY <1>2, MaxIsIn
  <2> QED
    BY <2>1
<1>7. Eq(f)
  <2>1. ASSUME NEW t \in SUBSET (1..n), t # {} PROVE f[t] = Step(f, t)
    <3>1. f[t \ {Max(t)}] \in A /\ file[Max(t)] \in Lines
      BY <1>2, <1>6, <2>1
    <3>2. f[t] = g[<<f[t \ {Max(t)}], file[Max(t)]>>]
      <4> HIDE DEF g, n
      <4> QED  BY <1>5, <2>1 DEF LeftFold
    <3> HIDE DEF n
    <3> QED
      BY <3>1, <3>2
  <2>2. f[{}] = << >> /\ f = [t \in SUBSET (1..n) |-> f[t]]
    BY <1>5 DEF LeftFold
  <2> HIDE DEF n
  <2>3. \A t \in SUBSET (1..n) : f[t] = IF t = {} THEN << >> ELSE Ensure(f[t \ {Max(t)}], file[Max(t)])
    BY <2>1, <2>2
  <2> QED
    BY <1>2, <2>2, <2>3
<1>8. Eq(it)
  <2> HIDE DEF Eq
  <2> QED  BY <1>7
<1> HIDE DEF it
<1>9. it[{}] = << >> /\ \A k \in 1..n : it[1..k] = Ensure(it[1..(k - 1)], file[k])
  <2>1. \A t \in SUBSET (1..n) : it[t] = IF t = {} THEN << >> ELSE Ensure(it[t \ {Max(t)}], file[Max(t)])
    <3> HIDE DEF n
    <3> QED  BY <1>2, <1>8
  <2> SUFFICES ASSUME NEW k \in 1..n PROVE it[1..k] = Ensure(it[1..(k - 1)], file[k])
    BY <2>1
  <2>2. 1..k \in SUBSET (1..n) /\ 1..k # {} /\ Max(1..k) = k /\ (1..k) \ {k} = 1..(k - 1)
    BY <1>2, LeftFoldPrefix
  <2> HIDE DEF n
  <2> QED
    BY <2>1, <2>2
<1> DEFINE p == [k \in 0..n |-> it[1..k]]
<1>10. p[0] = << >> /\ p[n] = it[DOMAIN file]
  BY <1>2, <1>9
<1>11. \A k \in 1..n : p[k] = Ensure(p[k - 1], file[k])
  BY <1>9
<1>12. p = [k \in 0..n |-> p[k]]
  OBVIOUS
<1> HIDE DEF p
<1>13. ASSUME NEW m \in 0..n PROVE p[m] \in A
  <2> DEFINE Bad == {k \in Nat : k <= n /\ p[k] \notin A}
  <2>1. Bad = {}
    <3> SUFFICES ASSUME Bad # {} PROVE FALSE
      OBVIOUS
    <3>1. PICK k \in Bad : \A j \in Bad : k <= j
      BY LeastElement
    <3>2. k # 0
      BY <1>3, <1>10, <3>1
    <3>3. k \in 1..n /\ k - 1 \in Nat /\ k - 1 <= n
      BY <1>2, <3>1, <3>2
    <3>4. k - 1 \notin Bad
      BY <3>1, <3>3
    <3>5. p[k - 1] \in A /\ file[k] \in Lines
      BY <1>2, <3>3, <3>4
    <3>6. p[k] = Ensure(p[k - 1], file[k])
      BY <1>11, <3>3
    <3>7. p[k] \in A
      BY <1>3, <3>5, <3>6
    <3> QED
      BY <3>1, <3>7
  <2> QED
    BY <2>1
<1> QED
  <2>1. p \in [0..n -> A]
    BY <1>12, <1>13
  <2> HIDE DEF n
  <2> QED
    BY <1>1, <1>10, <1>11, <2>1 DEF A, n

\* A line that is edited.
LEMMA EditLineType ==
  ASSUME NEW mode, NEW acc \in Editing, NEW l \in Lines
  PROVE  EditLine(mode, acc, l) \in Editing
<1> DEFINE late == mode = "custom" /\ acc.inside /\ ~acc.written
           ours == acc.inside /\ l \in KernelLines
<1>1. acc.out \in Seq(Lines) /\ {acc.inside, acc.seen, acc.written} \subseteq BOOLEAN
  BY DEF Editing
<1>2. CASE l \in {"[wsl2]", "[other]"}
  <2>1. EditLine(mode, acc, l) =
          [out     |-> acc.out \o (IF late THEN <<"kernel=custom", l>> ELSE <<l>>),
           inside  |-> l = "[wsl2]",
           seen    |-> acc.seen \/ l = "[wsl2]",
           written |-> acc.written \/ late]
    BY <1>2 DEF EditLine
  <2>2. "kernel=custom" \in Lines
    BY DEF Lines, KernelLines
  <2>3. <<"kernel=custom", l>> \in Seq(Lines) /\ <<l>> \in Seq(Lines)
    BY <2>2
  <2>4. acc.out \o (IF late THEN <<"kernel=custom", l>> ELSE <<l>>) \in Seq(Lines)
    <3> HIDE DEF late
    <3> QED  BY <1>1, <2>3, ConcatProperties
  <2> QED
    BY <1>1, <2>1, <2>4 DEF Editing
<1>3. CASE l \notin {"[wsl2]", "[other]"}
  <2>1. PICK line : line = IF ~ours THEN l ELSE IF mode = "custom" THEN "kernel=custom" ELSE Commented(l)
    OBVIOUS
  <2>2. line \in Lines
    BY <2>1 DEF Commented, Lines, KernelLines
  <2>3. EditLine(mode, acc, l) =
          [acc EXCEPT !.out = Append(acc.out, line), !.written = acc.written \/ (ours /\ mode = "custom")]
    BY <1>3, <2>1 DEF EditLine
  <2>4. Append(acc.out, line) \in Seq(Lines)
    BY <1>1, <2>2
  <2> QED
    BY <1>1, <2>3, <2>4 DEF Editing
<1> QED
  BY <1>2, <1>3

\* What has been edited after each line.
LEMMA EditFolds ==
  ASSUME NEW file \in Seq(Lines), NEW mode
  PROVE  \E p \in [0..Len(file) -> Editing] :
           /\ p[0] = NothingYet /\ FoldLeft(LAMBDA acc, l : EditLine(mode, acc, l), NothingYet, file) = p[Len(file)]
           /\ \A k \in 1..Len(file) : p[k] = EditLine(mode, p[k - 1], file[k])
<1> DEFINE n == Len(file)
           A == Editing
           Step(f, t) == EditLine(mode, f[t \ {Max(t)}], file[Max(t)])
           g == [x \in A \X Lines |-> EditLine(mode, x[1], x[2])]
           Eq(f) == f = [t \in SUBSET DOMAIN file |-> IF t = {} THEN NothingYet ELSE EditLine(mode, f[t \ {Max(t)}], file[Max(t)])]
           it == CHOOSE f : Eq(f)
<1>1. FoldLeft(LAMBDA acc, l : EditLine(mode, acc, l), NothingYet, file) = it[DOMAIN file]
  BY DEF FoldLeft, MapThenFoldSet
<1>2. n \in Nat /\ DOMAIN file = 1..n /\ file \in [1..n -> Lines]
  OBVIOUS
<1>3. (\A x \in A, l \in Lines : EditLine(mode, x, l) \in A) /\ NothingYet \in A
  BY EditLineType DEF NothingYet, Editing
<1> HIDE DEF A
<1>4. g \in [A \X Lines -> A]
  BY <1>3
<1>5. PICK f \in [SUBSET (1..n) -> A] : LeftFold(f, g, NothingYet, file, n)
  <2> HIDE DEF g, n
  <2> QED  BY <1>2, <1>3, <1>4, LeftFoldsExist
<1>6. \A t \in SUBSET (1..n) : t # {} => Max(t) \in 1..n
  <2> HIDE DEF n
  <2> SUFFICES ASSUME NEW t \in SUBSET (1..n), t # {} PROVE Max(t) \in 1..n
    OBVIOUS
  <2>1. Max(t) \in t
    BY <1>2, MaxIsIn
  <2> QED
    BY <2>1
<1>7. Eq(f)
  <2>1. ASSUME NEW t \in SUBSET (1..n), t # {} PROVE f[t] = Step(f, t)
    <3>1. f[t \ {Max(t)}] \in A /\ file[Max(t)] \in Lines
      BY <1>2, <1>6, <2>1
    <3>2. f[t] = g[<<f[t \ {Max(t)}], file[Max(t)]>>]
      <4> HIDE DEF g, n
      <4> QED  BY <1>5, <2>1 DEF LeftFold
    <3> HIDE DEF n
    <3> QED
      BY <3>1, <3>2
  <2>2. f[{}] = NothingYet /\ f = [t \in SUBSET (1..n) |-> f[t]]
    BY <1>5 DEF LeftFold
  <2> HIDE DEF n
  <2>3. \A t \in SUBSET (1..n) : f[t] = IF t = {} THEN NothingYet ELSE EditLine(mode, f[t \ {Max(t)}], file[Max(t)])
    BY <2>1, <2>2
  <2> QED
    BY <1>2, <2>2, <2>3
<1>8. Eq(it)
  <2> HIDE DEF Eq
  <2> QED  BY <1>7
<1> HIDE DEF it
<1>9. it[{}] = NothingYet /\ \A k \in 1..n : it[1..k] = EditLine(mode, it[1..(k - 1)], file[k])
  <2>1. \A t \in SUBSET (1..n) : it[t] = IF t = {} THEN NothingYet ELSE EditLine(mode, it[t \ {Max(t)}], file[Max(t)])
    <3> HIDE DEF n
    <3> QED  BY <1>2, <1>8
  <2> SUFFICES ASSUME NEW k \in 1..n PROVE it[1..k] = EditLine(mode, it[1..(k - 1)], file[k])
    BY <2>1
  <2>2. 1..k \in SUBSET (1..n) /\ 1..k # {} /\ Max(1..k) = k /\ (1..k) \ {k} = 1..(k - 1)
    BY <1>2, LeftFoldPrefix
  <2> HIDE DEF n
  <2> QED
    BY <2>1, <2>2
<1> DEFINE p == [k \in 0..n |-> it[1..k]]
<1>10. p[0] = NothingYet /\ p[n] = it[DOMAIN file]
  BY <1>2, <1>9
<1>11. \A k \in 1..n : p[k] = EditLine(mode, p[k - 1], file[k])
  BY <1>9
<1>12. p = [k \in 0..n |-> p[k]]
  OBVIOUS
<1> HIDE DEF p
<1>13. ASSUME NEW m \in 0..n PROVE p[m] \in A
  <2> DEFINE Bad == {k \in Nat : k <= n /\ p[k] \notin A}
  <2>1. Bad = {}
    <3> SUFFICES ASSUME Bad # {} PROVE FALSE
      OBVIOUS
    <3>1. PICK k \in Bad : \A j \in Bad : k <= j
      BY LeastElement
    <3>2. k # 0
      BY <1>3, <1>10, <3>1
    <3>3. k \in 1..n /\ k - 1 \in Nat /\ k - 1 <= n
      BY <1>2, <3>1, <3>2
    <3>4. k - 1 \notin Bad
      BY <3>1, <3>3
    <3>5. p[k - 1] \in A /\ file[k] \in Lines
      BY <1>2, <3>3, <3>4
    <3>6. p[k] = EditLine(mode, p[k - 1], file[k])
      BY <1>11, <3>3
    <3>7. p[k] \in A
      BY <1>3, <3>5, <3>6
    <3> QED
      BY <3>1, <3>7
  <2> QED
    BY <2>1
<1> QED
  <2>1. p \in [0..n -> A]
    BY <1>12, <1>13
  <2> HIDE DEF n
  <2> QED
    BY <1>1, <1>10, <1>11, <2>1 DEF A, n

-----------------------------------------------------------------------------
(* Sections.                                                                   *)

Headers == {"[wsl2]", "[other]"}

\* A position in a section [wsl2]; a kernel line that is read.
Under(s, i) == \E h \in 1..i : s[h] = "[wsl2]" /\ \A j \in (h + 1)..i : s[j] \notin Headers
ActiveAt(s, i) == i \in 1..Len(s) /\ s[i] \in {"kernel=own", "kernel=custom"} /\ Under(s, i)
EndsInWsl2(s) == Under(s, Len(s))

\* Every kernel line that is read is the custom one, if that was chosen.
Tidy(mode, s) == \A i : ActiveAt(s, i) => mode = "custom" /\ s[i] = "kernel=custom"
Chosen(s) == \E i : ActiveAt(s, i)

\* What a file says that is tidy.
LEMMA TidyIsConfigured ==
  ASSUME NEW mode \in Modes, NEW s \in Seq(Lines), Tidy(mode, s), mode = "custom" => Chosen(s)
  PROVE  Configured(s) = mode
<1> DEFINE set == {i \in DOMAIN s : ActiveAt(s, i)}
           firstSet == CHOOSE i \in set : \A j \in set : i <= j
<1>1. Configured(s) = IF set = {} THEN "default" ELSE IF s[firstSet] = "kernel=own" THEN "own" ELSE "custom"
  <2> DEFINE header(i) == {h \in 1..i : s[h] \in Headers /\ \A j \in h+1..i : s[j] \notin Headers}
             there == {i \in DOMAIN s : s[i] \in {"kernel=own", "kernel=custom"} /\ \E h \in header(i) : s[h] = "[wsl2]"}
             first == CHOOSE i \in there : \A j \in there : i <= j
  <2>1. Configured(s) = IF there = {} THEN "default" ELSE IF s[first] = "kernel=own" THEN "own" ELSE "custom"
    BY DEF Configured, Headers
  <2>2. there = set
    <3>1. ASSUME NEW i \in DOMAIN s PROVE (\E h \in header(i) : s[h] = "[wsl2]") <=> Under(s, i)
      BY DEF Under, Headers
    <3> HIDE DEF header
    <3> QED
      BY <3>1 DEF ActiveAt
  <2> HIDE DEF there, set
  <2> QED
    BY <2>1, <2>2
<1>2. set = {} => mode = "default"
  BY DEF Chosen, ActiveAt, Modes
<1>3. CASE set # {}
  <2>1. set \in SUBSET Nat
    OBVIOUS
  <2>2. \E i \in set : \A j \in set : i <= j
    <3> HIDE DEF set
    <3> QED  BY <1>3, <2>1, LeastElement
  <2>3. firstSet \in set
    <3> HIDE DEF set
    <3> QED  BY <2>2
  <2>4. mode = "custom" /\ s[firstSet] = "kernel=custom"
    <3> HIDE DEF firstSet
    <3> QED  BY <2>3 DEF Tidy
  <2> HIDE DEF set, firstSet
  <2> QED
    BY <1>1, <1>3, <2>4
<1> QED
  BY <1>1, <1>2, <1>3

LEMMA UnderSteps ==
  ASSUME NEW s, NEW k \in Nat \ {0}
  PROVE  Under(s, k) <=> s[k] = "[wsl2]" \/ (s[k] \notin Headers /\ Under(s, k - 1))
<1>1. ASSUME Under(s, k), s[k] # "[wsl2]" PROVE s[k] \notin Headers /\ Under(s, k - 1)
  <2>1. PICK h \in 1..k : s[h] = "[wsl2]" /\ \A j \in (h + 1)..k : s[j] \notin Headers
    BY <1>1 DEF Under
  <2>2. h # k
    BY <1>1, <2>1
  <2>3. h \in 1..(k - 1) /\ k \in (h + 1)..k /\ \A j \in (h + 1)..(k - 1) : j \in (h + 1)..k
    BY <2>2
  <2> QED
    BY <2>1, <2>3 DEF Under
<1>2. ASSUME s[k] = "[wsl2]" PROVE Under(s, k)
  <2>1. k \in 1..k /\ (k + 1)..k = {}
    OBVIOUS
  <2> QED
    BY <1>2, <2>1 DEF Under
<1>3. ASSUME s[k] \notin Headers, Under(s, k - 1) PROVE Under(s, k)
  <2>1. PICK h \in 1..(k - 1) : s[h] = "[wsl2]" /\ \A j \in (h + 1)..(k - 1) : s[j] \notin Headers
    BY <1>3 DEF Under
  <2>2. h \in 1..k /\ \A j \in (h + 1)..k : j = k \/ j \in (h + 1)..(k - 1)
    OBVIOUS
  <2>3. \A j \in (h + 1)..k : s[j] \notin Headers
    BY <1>3, <2>1, <2>2
  <2> QED
    BY <2>1, <2>2, <2>3 DEF Under
<1> QED
  BY <1>1, <1>2, <1>3

\* A line more.
LEMMA SectionsAppend ==
  ASSUME NEW s \in Seq(Lines), NEW x \in Lines, NEW t, t = Append(s, x)
  PROVE  /\ t \in Seq(Lines) /\ Len(t) = Len(s) + 1
         /\ EndsInWsl2(t) <=> x = "[wsl2]" \/ (x \notin Headers /\ EndsInWsl2(s))
         /\ \A i : ActiveAt(s, i) => ActiveAt(t, i) /\ t[i] = s[i]
         /\ \A i : ActiveAt(t, i) =>
              (ActiveAt(s, i) /\ t[i] = s[i]) \/ (t[i] = x /\ x \in {"kernel=own", "kernel=custom"} /\ EndsInWsl2(s))
         /\ x = "kernel=custom" /\ EndsInWsl2(s) => Chosen(t)
<1>1. /\ t \in Seq(Lines) /\ Len(t) = Len(s) + 1 /\ t[Len(s) + 1] = x /\ Len(s) \in Nat
      /\ \A i \in 1..Len(s) : t[i] = s[i]
  OBVIOUS
<1>2. ASSUME NEW i \in 0..Len(s) PROVE Under(t, i) <=> Under(s, i)
  <2>1. \A h \in 1..i : t[h] = s[h]
    BY <1>1
  <2>2. \A h \in 1..i : \A j \in (h + 1)..i : t[j] = s[j]
    BY <1>1
  <2> QED
    BY <2>1, <2>2 DEF Under
<1>3. EndsInWsl2(t) <=> x = "[wsl2]" \/ (x \notin Headers /\ EndsInWsl2(s))
  <2>1. Under(t, Len(s) + 1) <=> t[Len(s) + 1] = "[wsl2]" \/ (t[Len(s) + 1] \notin Headers /\ Under(t, (Len(s) + 1) - 1))
    <3>1. Len(s) + 1 \in Nat \ {0}
      BY <1>1
    <3> QED
      BY <3>1, UnderSteps
  <2>2. Under(t, (Len(s) + 1) - 1) <=> Under(s, Len(s))
    BY <1>1, <1>2
  <2> QED
    BY <1>1, <2>1, <2>2 DEF EndsInWsl2
<1>4. ASSUME NEW i, ActiveAt(s, i) PROVE ActiveAt(t, i) /\ t[i] = s[i]
  BY <1>1, <1>2, <1>4 DEF ActiveAt
<1>5. ASSUME NEW i, ActiveAt(t, i)
      PROVE  (ActiveAt(s, i) /\ t[i] = s[i]) \/ (t[i] = x /\ x \in {"kernel=own", "kernel=custom"} /\ EndsInWsl2(s))
  <2>1. i \in 1..(Len(s) + 1) /\ t[i] \in {"kernel=own", "kernel=custom"} /\ Under(t, i)
    BY <1>1, <1>5 DEF ActiveAt
  <2>2. CASE i \in 1..Len(s)
    BY <1>1, <1>2, <2>1, <2>2 DEF ActiveAt
  <2>3. CASE i = Len(s) + 1
    <3>1. EndsInWsl2(t) /\ x \in {"kernel=own", "kernel=custom"}
      BY <1>1, <2>1, <2>3 DEF EndsInWsl2
    <3> QED
      BY <1>1, <1>3, <2>3, <3>1
  <2> QED
    BY <1>1, <2>1, <2>2, <2>3
<1>6. ASSUME x = "kernel=custom", EndsInWsl2(s) PROVE Chosen(t)
  <2>1. EndsInWsl2(t)
    BY <1>3, <1>6 DEF Headers
  <2>2. ActiveAt(t, Len(s) + 1)
    BY <1>1, <1>6, <2>1 DEF ActiveAt, EndsInWsl2
  <2> QED
    BY <2>2 DEF Chosen
<1> QED
  BY <1>1, <1>3, <1>4, <1>5, <1>6

\* The part of the user's grows line by line, too.
LEMMA UserPartAppend ==
  ASSUME NEW s \in Seq(Lines), NEW x \in Lines
  PROVE  UserPart(Append(s, x)) = Keep(UserPart(s), x)
<1> DEFINE t == Append(s, x)
           n == Len(s)
<1>1. t \in Seq(Lines) /\ Len(t) = n + 1 /\ t[n + 1] = x /\ n \in Nat /\ \A i \in 1..n : t[i] = s[i]
  OBVIOUS
<1>2. PICK p \in [0..n -> Seq(UserLines)] :
        p[0] = << >> /\ UserPart(s) = p[n] /\ \A k \in 1..n : p[k] = Keep(p[k - 1], s[k])
  BY UserPartFolds
<1> HIDE DEF t, n
<1>3. PICK q \in [0..Len(t) -> Seq(UserLines)] :
        q[0] = << >> /\ UserPart(t) = q[Len(t)] /\ \A k \in 1..Len(t) : q[k] = Keep(q[k - 1], t[k])
  BY <1>1, UserPartFolds
<1> DEFINE Bad == {k \in Nat : k <= n /\ p[k] # q[k]}
<1>4. Bad = {}
  <2> SUFFICES ASSUME Bad # {} PROVE FALSE
    OBVIOUS
  <2>1. PICK k \in Bad : \A j \in Bad : k <= j
    BY LeastElement
  <2>2. k # 0
    BY <1>2, <1>3, <2>1
  <2>3. k \in 1..n /\ k - 1 \in Nat /\ k - 1 <= n /\ k \in 1..Len(t)
    BY <1>1, <2>1, <2>2
  <2>4. k - 1 \notin Bad
    BY <2>1, <2>3
  <2>5. p[k - 1] = q[k - 1] /\ t[k] = s[k]
    BY <1>1, <2>3, <2>4
  <2>6. p[k] = Keep(p[k - 1], s[k]) /\ q[k] = Keep(q[k - 1], t[k])
    BY <1>2, <1>3, <2>3
  <2> QED
    BY <2>1, <2>5, <2>6
<1>5. p[n] = q[n]
  BY <1>1, <1>4
<1>6. q[n + 1] = Keep(q[n], x)
  <2>1. n + 1 \in 1..Len(t) /\ (n + 1) - 1 = n
    BY <1>1
  <2> QED
    BY <1>1, <1>3, <2>1
<1> QED
  BY <1>1, <1>2, <1>3, <1>5, <1>6 DEF t

LEMMA EmptyFile == /\ UserPart(<< >>) = << >> /\ ~EndsInWsl2(<< >>) /\ \A i : ~ActiveAt(<< >>, i)
<1>1. UserPart(<< >>) = << >>
  <2>1. << >> \in Seq(Lines) /\ Len(<< >>) = 0
    OBVIOUS
  <2>2. PICK p : p[0] = << >> /\ UserPart(<< >>) = p[Len(<< >>)]
    BY <2>1, UserPartFolds
  <2> QED
    BY <2>1, <2>2
<1> QED
  BY <1>1 DEF EndsInWsl2, ActiveAt, Under

-----------------------------------------------------------------------------
(* Editing.                                                                    *)

\* A file being written: tidy, and with what is kept of the user's.
Written(mode, s, kept) == s \in Seq(Lines) /\ Tidy(mode, s) /\ UserPart(s) = kept

LEMMA WrittenAppend ==
  ASSUME NEW mode \in Modes, NEW s, NEW kept, Written(mode, s, kept), NEW x \in Lines,
         x \in {"kernel=own", "kernel=custom"} /\ EndsInWsl2(s) => mode = "custom" /\ x = "kernel=custom"
  PROVE  /\ Written(mode, Append(s, x), Keep(kept, x))
         /\ EndsInWsl2(Append(s, x)) <=> x = "[wsl2]" \/ (x \notin Headers /\ EndsInWsl2(s))
         /\ Chosen(s) => Chosen(Append(s, x))
         /\ x = "kernel=custom" /\ EndsInWsl2(s) => Chosen(Append(s, x))
<1> DEFINE t == Append(s, x)
<1>1. s \in Seq(Lines) /\ Tidy(mode, s) /\ UserPart(s) = kept
  BY DEF Written
<1>2. /\ t \in Seq(Lines)
      /\ EndsInWsl2(t) <=> x = "[wsl2]" \/ (x \notin Headers /\ EndsInWsl2(s))
      /\ \A i : ActiveAt(s, i) => ActiveAt(t, i) /\ t[i] = s[i]
      /\ \A i : ActiveAt(t, i) =>
           (ActiveAt(s, i) /\ t[i] = s[i]) \/ (t[i] = x /\ x \in {"kernel=own", "kernel=custom"} /\ EndsInWsl2(s))
      /\ x = "kernel=custom" /\ EndsInWsl2(s) => Chosen(t)
  BY <1>1, SectionsAppend
<1>3. UserPart(t) = Keep(kept, x)
  BY <1>1, UserPartAppend
<1> HIDE DEF t
<1>4. Tidy(mode, t)
  BY <1>1, <1>2 DEF Tidy
<1>5. Chosen(s) => Chosen(t)
  BY <1>2 DEF Chosen
<1> QED
  BY <1>2, <1>3, <1>4, <1>5 DEF Written, t

\* How far the editor is: which section it is in, whether the kernel is chosen.
Edits(mode, acc, kept) ==
  /\ acc \in Editing /\ Written(mode, acc.out, kept)
  /\ acc.inside <=> EndsInWsl2(acc.out)
  /\ acc.written => Chosen(acc.out)
  /\ mode = "custom" /\ acc.seen => acc.inside \/ acc.written

LEMMA EditSteps ==
  ASSUME NEW mode \in Modes, NEW acc, NEW kept, Edits(mode, acc, kept), NEW l \in Lines
  PROVE  Edits(mode, EditLine(mode, acc, l), Keep(kept, l))
<1> DEFINE late == mode = "custom" /\ acc.inside /\ ~acc.written
           ours == acc.inside /\ l \in KernelLines
<1>1. /\ acc \in Editing /\ Written(mode, acc.out, kept) /\ (acc.inside <=> EndsInWsl2(acc.out))
      /\ (acc.written => Chosen(acc.out)) /\ (mode = "custom" /\ acc.seen => acc.inside \/ acc.written)
  BY DEF Edits
<1>2. acc.out \in Seq(Lines) /\ {acc.inside, acc.seen, acc.written} \subseteq BOOLEAN
  BY <1>1 DEF Editing
<1>3. EditLine(mode, acc, l) \in Editing
  BY <1>1, EditLineType
<1>4. CASE l \in {"[wsl2]", "[other]"}
  <2>1. EditLine(mode, acc, l) =
          [out     |-> acc.out \o (IF late THEN <<"kernel=custom", l>> ELSE <<l>>),
           inside  |-> l = "[wsl2]",
           seen    |-> acc.seen \/ l = "[wsl2]",
           written |-> acc.written \/ late]
    BY <1>4 DEF EditLine
  <2>2. PICK e : e = EditLine(mode, acc, l)
    OBVIOUS
  <2>3. /\ e.out = acc.out \o (IF late THEN <<"kernel=custom", l>> ELSE <<l>>)
        /\ (e.inside <=> l = "[wsl2]") /\ (e.seen <=> acc.seen \/ l = "[wsl2]") /\ (e.written <=> acc.written \/ late)
    <3>1. PICK o : o = acc.out \o (IF late THEN <<"kernel=custom", l>> ELSE <<l>>)
      OBVIOUS
    <3>2. e = [out |-> o, inside |-> l = "[wsl2]", seen |-> acc.seen \/ l = "[wsl2]", written |-> acc.written \/ late]
      BY <2>1, <2>2, <3>1, Zenon
    <3> HIDE DEF late
    <3>3. e.out = o /\ (e.inside <=> l = "[wsl2]") /\ (e.seen <=> acc.seen \/ l = "[wsl2]")
          /\ (e.written <=> acc.written \/ late)
      BY <3>2
    <3> QED
      BY <3>1, <3>3
  <2>4. CASE late
    <3> DEFINE mid == Append(acc.out, "kernel=custom")
    <3>1. "kernel=custom" \in Lines /\ "kernel=custom" \notin Headers /\ "kernel=custom" # "[wsl2]"
      BY DEF Lines, KernelLines, Headers
    <3>2. /\ Written(mode, mid, Keep(kept, "kernel=custom"))
          /\ EndsInWsl2(mid) <=> "kernel=custom" = "[wsl2]" \/ ("kernel=custom" \notin Headers /\ EndsInWsl2(acc.out))
          /\ "kernel=custom" = "kernel=custom" /\ EndsInWsl2(acc.out) => Chosen(mid)
      BY <1>1, <2>4, <3>1, WrittenAppend
    <3>3. Keep(kept, "kernel=custom") = kept
      BY DEF Keep, UserLines
    <3>4. EndsInWsl2(mid) /\ Chosen(mid)
      BY <1>1, <2>4, <3>1, <3>2
    <3>5. acc.out \o <<"kernel=custom", l>> = Append(mid, l)
      <4>1. <<"kernel=custom", l>> \in Seq(Lines) /\ "kernel=custom" \in Lines
        BY <3>1
      <4> QED
        BY <1>2, <4>1
    <3> HIDE DEF mid
    <3>6. /\ Written(mode, Append(mid, l), Keep(kept, l))
          /\ EndsInWsl2(Append(mid, l)) <=> l = "[wsl2]" \/ (l \notin Headers /\ EndsInWsl2(mid))
          /\ Chosen(mid) => Chosen(Append(mid, l))
      BY <1>4, <3>2, <3>3, WrittenAppend
    <3>7. e.out = Append(mid, l)
      BY <2>3, <2>4, <3>5
    <3> HIDE DEF late
    <3> QED
      BY <1>3, <1>4, <2>2, <2>3, <2>4, <3>4, <3>6, <3>7 DEF Edits, Headers
  <2>5. CASE ~late
    <3>1. acc.out \o <<l>> = Append(acc.out, l)
      BY <1>2
    <3>2. /\ Written(mode, Append(acc.out, l), Keep(kept, l))
          /\ EndsInWsl2(Append(acc.out, l)) <=> l = "[wsl2]" \/ (l \notin Headers /\ EndsInWsl2(acc.out))
          /\ Chosen(acc.out) => Chosen(Append(acc.out, l))
      BY <1>1, <1>4, WrittenAppend
    <3>3. e.out = Append(acc.out, l)
      BY <2>3, <2>5, <3>1
    <3>4. (e.inside <=> EndsInWsl2(e.out)) /\ (e.written => Chosen(e.out))
      BY <1>1, <1>4, <2>3, <2>5, <3>2, <3>3 DEF Headers
    <3>5. mode = "custom" /\ e.seen => e.inside \/ e.written
      BY <1>1, <2>3, <2>5
    <3> QED
      BY <1>3, <2>2, <3>2, <3>3, <3>4, <3>5 DEF Edits
  <2> QED
    BY <2>4, <2>5
<1>5. CASE l \notin {"[wsl2]", "[other]"}
  <2>1. PICK line : line = IF ~ours THEN l ELSE IF mode = "custom" THEN "kernel=custom" ELSE Commented(l)
    OBVIOUS
  <2>2. /\ line \in Lines /\ line \notin Headers
        /\ line \in {"kernel=own", "kernel=custom"} /\ acc.inside => mode = "custom" /\ line = "kernel=custom"
        /\ ours /\ mode = "custom" => line = "kernel=custom"
        /\ line # "[wsl2]"
    BY <1>5, <2>1 DEF Commented, Lines, KernelLines, Headers
  <2>3. Keep(kept, line) = Keep(kept, l)
    <3>1. line = l \/ (line \notin UserLines /\ l \notin UserLines)
      BY <2>1 DEF Commented, KernelLines, UserLines
    <3> QED
      BY <3>1 DEF Keep
  <2>4. EditLine(mode, acc, l) =
          [acc EXCEPT !.out = Append(acc.out, line), !.written = acc.written \/ (ours /\ mode = "custom")]
    BY <1>5, <2>1 DEF EditLine
  <2>5. PICK e : e = EditLine(mode, acc, l)
    OBVIOUS
  <2>6. /\ e.out = Append(acc.out, line) /\ e.inside = acc.inside /\ e.seen = acc.seen
        /\ e.written <=> acc.written \/ (ours /\ mode = "custom")
    BY <1>1, <2>4, <2>5 DEF Editing
  <2>7. /\ Written(mode, Append(acc.out, line), Keep(kept, line))
        /\ EndsInWsl2(Append(acc.out, line)) <=> line = "[wsl2]" \/ (line \notin Headers /\ EndsInWsl2(acc.out))
        /\ Chosen(acc.out) => Chosen(Append(acc.out, line))
        /\ line = "kernel=custom" /\ EndsInWsl2(acc.out) => Chosen(Append(acc.out, line))
    BY <1>1, <2>2, WrittenAppend
  <2>8. (e.inside <=> EndsInWsl2(e.out)) /\ (e.written => Chosen(e.out))
    BY <1>1, <2>2, <2>6, <2>7
  <2>9. mode = "custom" /\ e.seen => e.inside \/ e.written
    BY <1>1, <2>6
  <2> QED
    BY <1>3, <2>3, <2>5, <2>6, <2>7, <2>8, <2>9 DEF Edits
<1> QED
  BY <1>4, <1>5

\* After the last line.
LEMMA EditsAll ==
  ASSUME NEW mode \in Modes, NEW file \in Seq(Lines)
  PROVE  Edits(mode, FoldLeft(LAMBDA acc, l : EditLine(mode, acc, l), NothingYet, file), UserPart(file))
<1> DEFINE n == Len(file)
<1>1. PICK p \in [0..Len(file) -> Editing] :
        /\ p[0] = NothingYet
        /\ FoldLeft(LAMBDA acc, l : EditLine(mode, acc, l), NothingYet, file) = p[Len(file)]
        /\ \A k \in 1..Len(file) : p[k] = EditLine(mode, p[k - 1], file[k])
  BY EditFolds
<1>2. PICK u \in [0..Len(file) -> Seq(UserLines)] :
        u[0] = << >> /\ UserPart(file) = u[Len(file)] /\ \A k \in 1..Len(file) : u[k] = Keep(u[k - 1], file[k])
  BY UserPartFolds
<1>3. n \in Nat /\ \A k \in 1..n : file[k] \in Lines
  OBVIOUS
<1> DEFINE Bad == {k \in Nat : k <= n /\ ~Edits(mode, p[k], u[k])}
<1>4. Edits(mode, p[0], u[0])
  <2>1. NothingYet.out = << >> /\ ~NothingYet.inside /\ ~NothingYet.seen /\ ~NothingYet.written
    BY DEF NothingYet
  <2>2. NothingYet \in Editing
    BY DEF NothingYet, Editing
  <2>3. Written(mode, << >>, << >>)
    BY EmptyFile DEF Written, Tidy
  <2> QED
    BY <1>1, <1>2, <2>1, <2>2, <2>3, EmptyFile DEF Edits
<1>5. Bad = {}
  <2> SUFFICES ASSUME Bad # {} PROVE FALSE
    OBVIOUS
  <2>1. PICK k \in Bad : \A j \in Bad : k <= j
    BY LeastElement
  <2>2. k # 0
    BY <1>4, <2>1
  <2> HIDE DEF n
  <2>3. k \in 1..n /\ k - 1 \in Nat /\ k - 1 <= n
    BY <1>3, <2>1, <2>2
  <2>4. k - 1 \notin Bad
    BY <2>1, <2>3
  <2>5. Edits(mode, p[k - 1], u[k - 1]) /\ file[k] \in Lines
    BY <1>3, <2>3, <2>4
  <2>6. p[k] = EditLine(mode, p[k - 1], file[k]) /\ u[k] = Keep(u[k - 1], file[k])
    BY <1>1, <1>2, <2>3 DEF n
  <2>7. Edits(mode, p[k], u[k])
    BY <2>5, <2>6, EditSteps
  <2> QED
    BY <2>1, <2>7
<1>6. Edits(mode, p[n], u[n])
  <2> HIDE DEF n
  <2>1. n \notin Bad /\ n <= n
    BY <1>3, <1>5
  <2> QED
    BY <1>3, <2>1
<1> QED
  BY <1>1, <1>2, <1>6

\* What is written is read as what was chosen, and has the user's lines.
LEMMA RewrittenFacts ==
  ASSUME NEW mode \in Modes, NEW file \in Seq(Lines)
  PROVE  /\ Written(mode, Rewritten(mode, file), UserPart(file))
         /\ mode = "custom" => Chosen(Rewritten(mode, file))
<1>1. PICK end : end = FoldLeft(LAMBDA acc, l : EditLine(mode, acc, l), NothingYet, file)
  OBVIOUS
<1>2. Edits(mode, end, UserPart(file))
  BY <1>1, EditsAll
<1> DEFINE kept == UserPart(file)
           body == IF mode = "custom" /\ end.inside /\ ~end.written THEN Append(end.out, "kernel=custom") ELSE end.out
           gap  == IF body # << >> /\ Last(body) # "" THEN <<"">> ELSE << >>
           choice == IF mode = "custom" THEN "kernel=custom" ELSE "# kernel="
<1>3. Rewritten(mode, file) = IF end.seen THEN body ELSE body \o gap \o <<"[wsl2]", choice>>
  BY <1>1 DEF Rewritten
<1>4. {"", "[wsl2]", "kernel=custom", "# kernel="} \subseteq Lines
      /\ {"", "[wsl2]", "kernel=custom", "# kernel="} \cap UserLines = {}
      /\ {"kernel=custom", "# kernel=", ""} \cap Headers = {}
  BY DEF Lines, KernelLines, UserLines, Headers
<1>5. \A x \in {"", "[wsl2]", "kernel=custom", "# kernel="} : Keep(kept, x) = kept
  BY <1>4 DEF Keep
<1>6. /\ Written(mode, end.out, kept) /\ (end.inside <=> EndsInWsl2(end.out))
      /\ (end.written => Chosen(end.out)) /\ (mode = "custom" /\ end.seen => end.inside \/ end.written)
  BY <1>2 DEF Edits
<1> HIDE DEF kept
<1>7. Written(mode, body, kept) /\ (mode = "custom" /\ end.seen => Chosen(body))
  <2>1. CASE mode = "custom" /\ end.inside /\ ~end.written
    <3>1. body = Append(end.out, "kernel=custom")
      BY <2>1
    <3>2. "kernel=custom" \in Lines /\ Keep(kept, "kernel=custom") = kept
      BY <1>4, <1>5
    <3>3. /\ Written(mode, Append(end.out, "kernel=custom"), Keep(kept, "kernel=custom"))
          /\ "kernel=custom" = "kernel=custom" /\ EndsInWsl2(end.out) => Chosen(Append(end.out, "kernel=custom"))
      BY <1>6, <2>1, <3>2, WrittenAppend
    <3> HIDE DEF body
    <3> QED
      BY <1>6, <2>1, <3>1, <3>2, <3>3
  <2>2. CASE ~(mode = "custom" /\ end.inside /\ ~end.written)
    BY <1>6, <2>2
  <2> QED
    BY <2>1, <2>2
<1> HIDE DEF body
<1>8. Written(mode, body \o gap \o <<"[wsl2]", choice>>, kept)
      /\ (mode = "custom" => Chosen(body \o gap \o <<"[wsl2]", choice>>))
  <2>1. PICK spaced : spaced = body \o gap
    OBVIOUS
  <2>2. body \in Seq(Lines)
    BY <1>7 DEF Written
  <2>3. Written(mode, spaced, kept)
    <3>1. CASE gap = <<"">>
      <4>1. "" \in Lines /\ "" \notin {"kernel=own", "kernel=custom"} /\ Keep(kept, "") = kept
        BY <1>4, <1>5
      <4>2. Written(mode, Append(body, ""), Keep(kept, ""))
        BY <1>7, <4>1, WrittenAppend
      <4>3. body \o <<"">> = Append(body, "")
        <5>1. ASSUME NEW b \in Seq(Lines), NEW c \in Lines PROVE b \o <<c>> = Append(b, c)
          OBVIOUS
        <5> QED
          BY <2>2, <4>1, <5>1
      <4>4. spaced = Append(body, "")
        BY <2>1, <3>1, <4>3, Zenon
      <4> QED
        BY <4>1, <4>2, <4>4
    <3>2. CASE gap = << >>
      <4>1. body \o << >> = body
        BY <2>2, ConcatEmptySeq
      <4>2. spaced = body
        BY <2>1, <3>2, <4>1, Zenon
      <4> QED
        BY <1>7, <4>2
    <3> QED
      BY <3>1, <3>2
  <2> DEFINE mid == Append(spaced, "[wsl2]")
  <2>4. Written(mode, mid, kept) /\ EndsInWsl2(mid)
    <3>1. "[wsl2]" \in Lines /\ Keep(kept, "[wsl2]") = kept
      BY <1>4, <1>5
    <3>2. /\ Written(mode, mid, Keep(kept, "[wsl2]"))
          /\ EndsInWsl2(mid) <=> "[wsl2]" = "[wsl2]" \/ ("[wsl2]" \notin Headers /\ EndsInWsl2(spaced))
      BY <2>3, <3>1, WrittenAppend
    <3> QED
      BY <3>1, <3>2
  <2>5. choice \in Lines /\ Keep(kept, choice) = kept /\ (mode = "custom" => choice = "kernel=custom")
        /\ (choice \in {"kernel=own", "kernel=custom"} => mode = "custom" /\ choice = "kernel=custom")
    BY <1>4, <1>5
  <2> HIDE DEF choice
  <2>6. (body \o gap) \o <<"[wsl2]", choice>> = Append(mid, choice)
    <3>1. spaced \in Seq(Lines) /\ "[wsl2]" \in Lines /\ choice \in Lines
      BY <1>4, <2>3, <2>5 DEF Written
    <3>2. spaced \o <<"[wsl2]", choice>> = Append(Append(spaced, "[wsl2]"), choice)
      BY <3>1
    <3> QED
      BY <2>1, <3>2
  <2> HIDE DEF mid, gap
  <2>7. /\ Written(mode, Append(mid, choice), Keep(kept, choice))
        /\ choice = "kernel=custom" /\ EndsInWsl2(mid) => Chosen(Append(mid, choice))
    BY <2>4, <2>5, WrittenAppend
  <2> QED
    BY <2>4, <2>5, <2>6, <2>7
<1> HIDE DEF gap, choice
<1> QED
  BY <1>3, <1>7, <1>8 DEF kept

\* The script's defaults change neither.
LEMMA EnsuredFacts ==
  ASSUME NEW mode \in Modes, NEW e, NEW kept, Written(mode, e, kept)
  PROVE  /\ Written(mode, FoldLeft(Ensure, << >>, e), kept)
         /\ Chosen(e) => Chosen(FoldLeft(Ensure, << >>, e))
<1> DEFINE n == Len(e)
<1>1. e \in Seq(Lines) /\ Tidy(mode, e) /\ UserPart(e) = kept
  BY DEF Written
<1>2. PICK p \in [0..Len(e) -> Seq(Lines)] :
        /\ p[0] = << >> /\ FoldLeft(Ensure, << >>, e) = p[Len(e)]
        /\ \A k \in 1..Len(e) : p[k] = Ensure(p[k - 1], e[k])
  BY <1>1, EnsureFolds
<1>3. PICK u \in [0..Len(e) -> Seq(UserLines)] :
        u[0] = << >> /\ UserPart(e) = u[Len(e)] /\ \A k \in 1..Len(e) : u[k] = Keep(u[k - 1], e[k])
  BY <1>1, UserPartFolds
<1>4. n \in Nat /\ \A k \in 1..n : e[k] \in Lines
  BY <1>1
<1> HIDE DEF n
<1> DEFINE Good(k) == /\ Written(mode, p[k], u[k]) /\ (EndsInWsl2(p[k]) <=> Under(e, k))
                      /\ \A i \in 1..k : ActiveAt(e, i) => Chosen(p[k])
           Bad == {k \in Nat : k <= n /\ ~Good(k)}
<1>5. Good(0)
  <2>1. ~Under(e, 0)
    BY DEF Under
  <2>2. Written(mode, << >>, << >>)
    BY EmptyFile DEF Written, Tidy
  <2> QED
    BY <1>2, <1>3, <2>1, <2>2, EmptyFile
<1>6. ASSUME NEW k \in 1..n, Good(k - 1) PROVE Good(k)
  <2> DEFINE l == e[k]
             q == p[k - 1]
  <2>1. /\ Written(mode, q, u[k - 1]) /\ (EndsInWsl2(q) <=> Under(e, k - 1))
        /\ \A i \in 1..(k - 1) : ActiveAt(e, i) => Chosen(q)
    BY <1>6
  <2>2. l \in Lines /\ p[k] = Ensure(q, l) /\ u[k] = Keep(u[k - 1], l)
    BY <1>2, <1>3, <1>4 DEF n
  <2>3. Under(e, k) <=> l = "[wsl2]" \/ (l \notin Headers /\ Under(e, k - 1))
    BY <1>1, UnderSteps DEF n
  <2>4. l \in {"kernel=own", "kernel=custom"} /\ EndsInWsl2(q) => ActiveAt(e, k)
    BY <2>1, <2>3 DEF ActiveAt, Headers, n
  <2>5. l \in {"kernel=own", "kernel=custom"} /\ EndsInWsl2(q) => mode = "custom" /\ l = "kernel=custom"
    BY <1>1, <2>4 DEF Tidy
  <2>6. ActiveAt(e, k) => l = "kernel=custom" /\ EndsInWsl2(q)
    BY <1>1, <2>1, <2>3 DEF ActiveAt, Tidy, Headers
  <2> DEFINE r == Append(q, l)
  <2>7. q \in Seq(Lines)
    BY <2>1 DEF Written
  <2> HIDE DEF q, l
  <2>8. /\ Written(mode, r, Keep(u[k - 1], l))
        /\ EndsInWsl2(r) <=> l = "[wsl2]" \/ (l \notin Headers /\ EndsInWsl2(q))
        /\ Chosen(q) => Chosen(r)
        /\ l = "kernel=custom" /\ EndsInWsl2(q) => Chosen(r)
    BY <2>1, <2>2, <2>5, WrittenAppend
  <2>9. (EndsInWsl2(r) <=> Under(e, k)) /\ \A i \in 1..k : ActiveAt(e, i) => Chosen(r)
    <3>1. ASSUME NEW i \in 1..k, ActiveAt(e, i) PROVE Chosen(r)
      <4>1. CASE i = k
        BY <2>6, <2>8, <3>1, <4>1
      <4>2. CASE i # k
        <5>1. i \in 1..(k - 1)
          BY <1>4, <4>2
        <5> QED
          BY <2>1, <2>8, <3>1, <5>1
      <4> QED
        BY <4>1, <4>2
    <3> QED
      BY <2>1, <2>3, <2>8, <3>1
  <2>10. CASE l # "[wsl2]"
    <3>1. q \o <<l>> = Append(q, l)
      BY <2>2, <2>7
    <3>2. p[k] = r
      BY <2>2, <2>10, <3>1 DEF Ensure
    <3> QED
      BY <2>2, <2>8, <2>9, <3>2
  <2>11. CASE l = "[wsl2]"
    <3>1. "ensured" \in Lines /\ "ensured" \notin Headers /\ "ensured" # "[wsl2]" /\ Keep(u[k], "ensured") = u[k]
      BY DEF Lines, Headers, Keep, UserLines
    <3>2. q \o <<l, "ensured">> = Append(r, "ensured")
      BY <2>2, <2>7, <3>1
    <3>3. p[k] = Append(r, "ensured")
      BY <2>2, <2>11, <3>2 DEF Ensure
    <3> HIDE DEF r
    <3>4. /\ Written(mode, Append(r, "ensured"), Keep(u[k], "ensured"))
          /\ EndsInWsl2(Append(r, "ensured")) <=> "ensured" = "[wsl2]" \/ ("ensured" \notin Headers /\ EndsInWsl2(r))
          /\ Chosen(r) => Chosen(Append(r, "ensured"))
      BY <2>2, <2>8, <3>1, WrittenAppend
    <3> QED
      BY <2>9, <3>1, <3>3, <3>4
  <2> QED
    BY <2>10, <2>11
<1>7. Bad = {}
  <2> SUFFICES ASSUME Bad # {} PROVE FALSE
    OBVIOUS
  <2> HIDE DEF Good
  <2>1. PICK k \in Bad : \A j \in Bad : k <= j
    BY LeastElement
  <2>2. k # 0
    BY <1>5, <2>1
  <2>3. k \in 1..n /\ k - 1 \in Nat /\ k - 1 <= n
    BY <1>4, <2>1, <2>2
  <2>4. k - 1 \notin Bad
    BY <2>1, <2>3
  <2> QED
    BY <1>6, <2>1, <2>3, <2>4
<1>8. Good(n)
  <2> HIDE DEF Good
  <2>1. n \notin Bad /\ n <= n
    BY <1>4, <1>7
  <2> QED
    BY <1>4, <2>1
<1>9. Chosen(e) => Chosen(p[n])
  <2> SUFFICES ASSUME NEW i, ActiveAt(e, i) PROVE Chosen(p[n])
    BY DEF Chosen
  <2>1. i \in 1..n
    BY DEF ActiveAt, n
  <2> QED
    BY <1>8, <2>1
<1> QED
  BY <1>1, <1>2, <1>3, <1>8, <1>9 DEF n

\* The file a switch writes.
LEMMA WrittenFile ==
  ASSUME NEW mode \in Modes, NEW file \in Seq(Lines), NEW script \in BOOLEAN, NEW new,
         new = IF script THEN WithDefaults(file, Rewritten(mode, file)) ELSE Rewritten(mode, file)
  PROVE  new \in Seq(Lines) /\ Configured(new) = mode /\ UserPart(new) = UserPart(file)
<1>1. PICK e : e = Rewritten(mode, file)
  OBVIOUS
<1>2. Written(mode, e, UserPart(file)) /\ (mode = "custom" => Chosen(e))
  BY <1>1, RewrittenFacts
<1>3. PICK d : d = FoldLeft(Ensure, << >>, e)
  OBVIOUS
<1>4. Written(mode, d, UserPart(file)) /\ (Chosen(e) => Chosen(d))
  BY <1>2, <1>3, EnsuredFacts
<1>5. new = e \/ new = d
  BY <1>1, <1>3 DEF WithDefaults
<1>6. Written(mode, new, UserPart(file)) /\ (mode = "custom" => Chosen(new))
  BY <1>2, <1>4, <1>5
<1>7. new \in Seq(Lines) /\ Tidy(mode, new) /\ UserPart(new) = UserPart(file)
  BY <1>6 DEF Written
<1> QED
  BY <1>6, <1>7, TidyIsConfigured

-----------------------------------------------------------------------------
(* The state.                                                                *)

\* A file being written will be read as what was chosen and has the user's lines; so has
\* one that was written; and the user's own is there, or saved, or had nothing in it.
WslInv ==
  /\ host \in [kind : Hosts, script : BOOLEAN, image : BOOLEAN]
  /\ config \in Seq(Lines) /\ second \in 0..LastSecond /\ backups \in [0..LastSecond -> Seq(Lines)]
  /\ writing = NotWriting \/ writing \in [mode : Modes, apply : BOOLEAN, file : Seq(Lines)]
  /\ live \in {"own", "custom", "default"}
  /\ past \in [own : Seq(Lines), chosen : {"user"} \cup Modes, torn : BOOLEAN, collided : BOOLEAN]
  /\ writing # NotWriting =>
       Configured(writing.file) = writing.mode /\ (~past.torn => UserPart(writing.file) = UserPart(past.own))
  /\ writing = NotWriting /\ past.chosen # "user" => Configured(config) = past.chosen
  /\ writing = NotWriting /\ ~past.torn => UserPart(config) = UserPart(past.own)
  /\ ~past.collided => \/ past.own = << >>
                       \/ writing = NotWriting /\ config = past.own
                       \/ \E s \in 0..LastSecond : backups[s] = past.own

LEMMA ConfiguredType == \A file : Configured(file) \in {"own", "custom", "default"}
BY DEF Configured

LEMMA WslInvInit == WslInit => WslInv
<1> SUFFICES ASSUME WslInit PROVE WslInv
  OBVIOUS
<1>1. config \in Seq(Lines) /\ LastSecond \in Nat
  BY WslAssumption DEF WslInit
<1>2. << >> \in Seq(Lines) /\ 0 \in 0..LastSecond
  BY <1>1
<1>3. past = [own |-> config, chosen |-> "user", torn |-> FALSE, collided |-> FALSE]
  BY DEF WslInit
<1>4. past \in [own : Seq(Lines), chosen : {"user"} \cup Modes, torn : BOOLEAN, collided : BOOLEAN]
      /\ past.own = config /\ past.chosen = "user"
  BY <1>1, <1>3
<1> QED
  BY <1>1, <1>2, <1>4, ConfiguredType DEF WslInit, WslInv

LEMMA WslInvSwitch ==
  ASSUME WslInv, NEW mode \in Modes, NEW apply \in BOOLEAN, SwitchKernel(mode, apply)
  PROVE  WslInv'
<1>1. /\ host \in [kind : Hosts, script : BOOLEAN, image : BOOLEAN]
      /\ config \in Seq(Lines) /\ second \in 0..LastSecond /\ backups \in [0..LastSecond -> Seq(Lines)]
      /\ live \in {"own", "custom", "default"}
      /\ past \in [own : Seq(Lines), chosen : {"user"} \cup Modes, torn : BOOLEAN, collided : BOOLEAN]
      /\ writing = NotWriting
      /\ ~past.torn => UserPart(config) = UserPart(past.own)
      /\ ~past.collided => \/ past.own = << >> \/ config = past.own
                           \/ \E s \in 0..LastSecond : backups[s] = past.own
  BY DEF WslInv, SwitchKernel
<1>2. PICK new : new = IF host.script THEN WithDefaults(config, Rewritten(mode, config)) ELSE Rewritten(mode, config)
  OBVIOUS
<1>3. new \in Seq(Lines) /\ Configured(new) = mode /\ UserPart(new) = UserPart(config)
  BY <1>1, <1>2, WrittenFile
<1>4. writing' = [mode |-> mode, apply |-> apply, file |-> new]
  BY <1>2 DEF SwitchKernel
<1>5. writing' \in [mode : Modes, apply : BOOLEAN, file : Seq(Lines)]
      /\ writing'.mode = mode /\ writing'.file = new /\ writing' # NotWriting
  <2>1. mode # "none"
    BY DEF Modes
  <2> QED
    BY <1>3, <1>4, <2>1 DEF NotWriting
<1>6. backups' = IF config = << >> THEN backups ELSE [backups EXCEPT ![second] = config]
  BY DEF SwitchKernel, BackUp
<1>7. /\ backups' \in [0..LastSecond -> Seq(Lines)]
      /\ config # << >> => backups'[second] = config
      /\ \A s \in 0..LastSecond : backups'[s] = backups[s] \/ (s = second /\ config # << >>)
  BY <1>1, <1>6
<1>8. /\ past' \in [own : Seq(Lines), chosen : {"user"} \cup Modes, torn : BOOLEAN, collided : BOOLEAN]
      /\ past'.own = past.own /\ past'.chosen = past.chosen /\ past'.torn = past.torn
      /\ past'.collided <=> past.collided \/ (config # << >> /\ backups[second] # << >>)
  <2>1. PICK late : late = (past.collided \/ (config # << >> /\ backups[second] # << >>))
    OBVIOUS
  <2>2. past' = [past EXCEPT !.collided = late] /\ late \in BOOLEAN
    BY <1>1, <2>1 DEF SwitchKernel
  <2>3. /\ past' \in [own : Seq(Lines), chosen : {"user"} \cup Modes, torn : BOOLEAN, collided : BOOLEAN]
        /\ past'.own = past.own /\ past'.chosen = past.chosen /\ past'.torn = past.torn
        /\ past'.collided = late
    BY <1>1, <2>2
  <2> QED
    BY <2>1, <2>3
<1>9. config' = << >> /\ host' = host /\ second' = second /\ live' = live
  BY DEF SwitchKernel
<1>10. ~past'.collided => past'.own = << >> \/ \E s \in 0..LastSecond : backups'[s] = past'.own
  <2> SUFFICES ASSUME ~past'.collided, past.own # << >> PROVE \E s \in 0..LastSecond : backups'[s] = past.own
    BY <1>8
  <2>1. CASE config = past.own
    BY <1>1, <1>7, <2>1
  <2>2. CASE config # past.own
    <3>1. PICK s \in 0..LastSecond : backups[s] = past.own
      BY <1>1, <1>8, <2>2
    <3>2. backups'[s] = backups[s]
      BY <1>7, <1>8, <3>1
    <3> QED
      BY <3>1, <3>2
  <2> QED
    BY <2>1, <2>2
<1>11. ~past'.torn => UserPart(writing'.file) = UserPart(past'.own)
  BY <1>1, <1>3, <1>5, <1>8
<1>12. config' \in Seq(Lines)
  BY <1>9
<1> QED
  BY <1>1, <1>3, <1>5, <1>7, <1>8, <1>9, <1>10, <1>11, <1>12 DEF WslInv

LEMMA WslInvFinish == ASSUME WslInv, FinishWrite PROVE WslInv'
<1>1. /\ second \in 0..LastSecond /\ backups \in [0..LastSecond -> Seq(Lines)]
      /\ writing \in [mode : Modes, apply : BOOLEAN, file : Seq(Lines)]
      /\ past \in [own : Seq(Lines), chosen : {"user"} \cup Modes, torn : BOOLEAN, collided : BOOLEAN]
      /\ Configured(writing.file) = writing.mode
      /\ ~past.torn => UserPart(writing.file) = UserPart(past.own)
      /\ ~past.collided => past.own = << >> \/ \E s \in 0..LastSecond : backups[s] = past.own
  BY DEF WslInv, FinishWrite
<1>2. /\ past' \in [own : Seq(Lines), chosen : {"user"} \cup Modes, torn : BOOLEAN, collided : BOOLEAN]
      /\ past'.own = past.own /\ past'.chosen = writing.mode /\ past'.torn = past.torn
      /\ past'.collided = past.collided
  BY <1>1 DEF FinishWrite
<1>3. live' \in {"own", "custom", "default"}
  BY ConfiguredType DEF WslInv, FinishWrite
<1>4. config' = writing.file /\ writing' = NotWriting /\ host' = host /\ backups' = backups /\ second' = second
  BY DEF FinishWrite
<1>5. host \in [kind : Hosts, script : BOOLEAN, image : BOOLEAN]
  BY DEF WslInv
<1> QED
  BY <1>1, <1>2, <1>3, <1>4, <1>5 DEF WslInv

LEMMA WslInvDies == ASSUME WslInv, EditorDies PROVE WslInv'
<1>1. /\ past \in [own : Seq(Lines), chosen : {"user"} \cup Modes, torn : BOOLEAN, collided : BOOLEAN]
      /\ ~past.collided => past.own = << >> \/ \E s \in 0..LastSecond : backups[s] = past.own
  BY DEF WslInv, EditorDies
<1>2. past' = [past EXCEPT !.chosen = "user", !.torn = TRUE] /\ "user" \in {"user"} \cup Modes
  BY DEF EditorDies
<1>3. /\ past' \in [own : Seq(Lines), chosen : {"user"} \cup Modes, torn : BOOLEAN, collided : BOOLEAN]
      /\ past'.own = past.own /\ past'.chosen = "user" /\ past'.torn /\ past'.collided = past.collided
  BY <1>1, <1>2
<1> QED
  BY <1>1, <1>3 DEF WslInv, EditorDies

LEMMA WslInvStep == WslInv /\ [WslNext]_wslVars => WslInv'
<1> SUFFICES ASSUME WslInv, [WslNext]_wslVars PROVE WslInv'
  OBVIOUS
<1>1. CASE \E mode \in {"custom", "default"}, apply \in BOOLEAN : SwitchKernel(mode, apply)
  BY <1>1, WslInvSwitch DEF Modes
<1>2. CASE FinishWrite
  BY <1>2, WslInvFinish
<1>3. CASE EditorDies
  BY <1>3, WslInvDies
<1>4. CASE RestartWsl
  BY <1>4, ConfiguredType DEF WslInv, RestartWsl
<1>5. CASE NextSecond
  BY <1>5, WslAssumption DEF WslInv, NextSecond
<1>6. CASE UNCHANGED wslVars
  BY <1>6 DEF WslInv, wslVars
<1> QED
  BY <1>1, <1>2, <1>3, <1>4, <1>5, <1>6 DEF WslNext

LEMMA WslInvHolds == WslSpec => []WslInv
BY WslInvInit, WslInvStep, PTL DEF WslSpec

\* A choice that was made is the one the status tells of.
LEMMA WslInvKeeps == WslInv => KernelChoiceIsKept
<1> SUFFICES ASSUME WslInv PROVE KernelChoiceIsKept
  OBVIOUS
<1>1. ASSUME writing = NotWriting, past.chosen # "user", host.kind = "windows", live = past.chosen
      PROVE  StatusMessage = IF live = "custom" THEN "in effect" ELSE "default kernel"
  <2>1. Configured(config) = live /\ live \in {"custom", "default"}
    BY <1>1 DEF WslInv, Modes
  <2>2. {"binder", "tun", "bridge"} \subseteq Features(live) <=> live = "custom"
    BY <2>1 DEF Features
  <2>3. CASE live = "custom"
    BY <1>1, <2>2, <2>3 DEF StatusMessage
  <2>4. CASE live = "default"
    <3>1. ~({"binder", "tun", "bridge"} \subseteq Features(live)) /\ Configured(config) = "default"
      BY <2>1, <2>2, <2>4
    <3> HIDE DEF Features
    <3> QED
      BY <1>1, <2>4, <3>1 DEF StatusMessage
  <2> QED
    BY <2>1, <2>3, <2>4
<1>2. ASSUME ~past.collided
      PROVE  ToSet(past.own) \subseteq ToSet(config) \cup UNION {ToSet(backups[s]) : s \in 0..LastSecond}
  <2>1. CASE past.own = << >>
    BY <2>1 DEF ToSet
  <2>2. CASE config = past.own
    BY <2>2
  <2>3. CASE \E s \in 0..LastSecond : backups[s] = past.own
    BY <2>3
  <2> QED
    BY <1>2, <2>1, <2>2, <2>3 DEF WslInv
<1> QED
  BY <1>1, <1>2 DEF WslInv, KernelChoiceIsKept

\* KernelChoiceIsKept, for every set of users' files made of the lines the editors tell
\* apart and for every number of seconds: `set` writes a file that is read as the choice,
\* keeps the user's lines in order, and backs the user's file up (wsl_kernel.rs and its script).
THEOREM KernelKept == WslSpec => []KernelChoiceIsKept
BY WslInvHolds, WslInvKeeps, PTL

\* WslTypeOK: the file stays one of the lines the editors know, the backups one for each second.
THEOREM WslTypes == WslSpec => []WslTypeOK
<1>1. WslInv => WslTypeOK
  BY DEF WslInv, WslTypeOK, NotWriting, Modes
<1> QED
  BY <1>1, WslInvHolds, PTL

-----------------------------------------------------------------------------
\* Division that rounds up.
LEMMA CeilDivFacts ==
  ASSUME NEW a \in Nat, NEW b \in Nat \ {0}
  PROVE  /\ CeilDiv(a, b) \in Nat /\ (CeilDiv(a, b) = 0 <=> a = 0)
         /\ a <= CeilDiv(a, b) * b
         /\ a > 0 => CeilDiv(a, b) * b - b < a
<1> DEFINE q == (a + b - 1) \div b
           r == (a + b - 1) % b
<1>1. q \in Nat /\ r \in 0..(b - 1) /\ a + b - 1 = b * q + r
  OBVIOUS
<1> HIDE DEF q, r
<1>2. q * b = b * q
  BY <1>1
<1>3. a <= b * q /\ (a > 0 => b * q - b < a)
  <2>1. b * q \in Nat
    BY <1>1
  <2> QED
    BY <1>1, <2>1
<1>4. q = 0 => a = 0
  BY <1>1
<1>5. a = 0 => q = 0
  <2> SUFFICES ASSUME a = 0, q >= 1 PROVE FALSE
    BY <1>1
  <2>1. b * q >= b
    BY <1>1
  <2> QED
    BY <1>1, <2>1
<1> QED
  BY <1>1, <1>2, <1>3, <1>4, <1>5 DEF CeilDiv, q

-----------------------------------------------------------------------------
(* The ISO image.                                                            *)

LEMMA SectorFacts ==
  ASSUME NEW a \in Nat
  PROVE  SectorsFor(a) \in Nat /\ (SectorsFor(a) = 0 <=> a = 0)
BY CeilDivFacts DEF SectorsFor, Sector

\* The files in the order of the records.
LEMMA SetToSeqFacts ==
  ASSUME NEW S, IsFiniteSet(S)
  PROVE  SetToSeq(S) \in Bijection(1..Cardinality(S), S) /\ Cardinality(S) \in Nat
<1> DEFINE n == Cardinality(S)
<1>1. n \in Nat /\ ExistsBijection(1..n, S)
  BY FS_CardinalityType
<1>2. \E f \in [1..n -> S] : IsInjective(f)
  BY <1>1 DEF ExistsBijection, Bijection, Injection
<1>3. SetToSeq(S) \in [1..n -> S] /\ IsInjective(SetToSeq(S))
  BY <1>2 DEF SetToSeq
<1>4. SetToSeq(S) \in Injection(1..n, S)
  BY <1>3 DEF Injection
<1>5. Cardinality(1..n) = n
  <2>1. 1 \in Int /\ n \in Int /\ (1 > n => n = 0) /\ n - 1 + 1 = n
    BY <1>1
  <2> HIDE DEF n
  <2> QED
    BY <2>1, FS_Interval
<1>6. SetToSeq(S) \in Surjection(1..n, S)
  BY <1>4, <1>5, FS_Injection
<1> QED
  BY <1>1, <1>4, <1>6 DEF Bijection

LEMMA RootBytesType == ASSUME NEW files \in IsoFiles PROVE RootBytes(files) \in Nat /\ RootBytes(files) > 0
<1>1. DOMAIN files \subseteq LongNames /\ IsFiniteSet(DOMAIN files)
  BY DEF IsoFiles
<1> DEFINE w == [n \in DOMAIN files |-> RecordLength(n.units + 3)]
<1>2. \A k \in Nat : RecordLength(k) \in Nat
  BY DEF RecordLength
<1>3. w \in [DOMAIN files -> Nat]
  <2>1. \A n \in DOMAIN files : n.units + 3 \in Nat
    BY <1>1, SeedAssumption
  <2> QED
    BY <1>2, <2>1
<1>4. SumFunction(w) \in Nat
  <2> HIDE DEF w
  <2> QED  BY <1>1, <1>3, SumFacts
<1>5. RecordLength(1) = 34
  BY DEF RecordLength
<1> QED
  BY <1>4, <1>5 DEF RootBytes

\* How the files lie: each begins where the one before it ends.
Laid(files, names, n, start, b) ==
  /\ n \in Nat /\ names \in [1..n -> DOMAIN files] /\ \A x \in DOMAIN files : \E i \in 1..n : names[i] = x
  /\ start \in Nat /\ start > RootDirLba /\ b \in [1..(n + 1) -> Nat]
  /\ \A i \in 1..n : b[i + 1] = b[i] + SectorsFor(files[names[i]])
  /\ start + b[n + 1] = IsoSize(files)
  /\ b[n + 1] = 0 <=> \A x \in DOMAIN files : files[x] = 0

LEMMA FilesAreLaid ==
  ASSUME NEW files \in IsoFiles, NEW names, names = SetToSeq(DOMAIN files), NEW n, n = Cardinality(DOMAIN files)
  PROVE  \E b : /\ Laid(files, names, n, RootDirLba + SectorsFor(RootBytes(files)), b)
                /\ \A i \in 1..(n + 1) : b[i] = SumFunction([j \in 1..(i - 1) |-> SectorsFor(files[names[j]])])
<1> DEFINE D == DOMAIN files
           size == [x \in D |-> SectorsFor(files[x])]
           w == [j \in 1..n |-> size[names[j]]]
           b == [i \in 1..(n + 1) |-> SumFunction([j \in 1..(i - 1) |-> w[j]])]
           start == RootDirLba + SectorsFor(RootBytes(files))
<1>1. IsFiniteSet(D) /\ \A x \in D : files[x] \in Nat
  BY SeedAssumption DEF IsoFiles
<1>2. names \in Bijection(1..n, D) /\ n \in Nat
  BY <1>1, SetToSeqFacts
<1>3. names \in [1..n -> D] /\ \A x \in D : \E i \in 1..n : names[i] = x
  <2>1. names \in Injection(1..n, D) /\ names \in Surjection(1..n, D)
    BY <1>2 DEF Bijection
  <2> QED
    BY <2>1, Zenon DEF Injection, Surjection
<1>4. size \in [D -> Nat] /\ \A x \in D : size[x] = SectorsFor(files[x]) /\ (size[x] = 0 <=> files[x] = 0)
  BY <1>1, SectorFacts
<1>5. w \in [1..n -> Nat] /\ \A j \in 1..n : w[j] = SectorsFor(files[names[j]])
  <2> HIDE DEF size, D
  <2> QED  BY <1>3, <1>4
<1>6. SumFunction(w) = SumFunction(size) /\ SumFunction(size) \in Nat
      /\ (SumFunction(size) = 0 <=> \A x \in D : files[x] = 0)
  <2> HIDE DEF size, D
  <2>1. SumFunction([j \in 1..n |-> size[names[j]]]) = SumFunction(size)
    BY <1>1, <1>2, <1>4, SumInOrder
  <2>2. /\ SumFunction(size) \in Nat /\ \A x \in D : size[x] <= SumFunction(size)
        /\ (\A x \in D : size[x] = 0) => SumFunction(size) = 0
    BY <1>1, <1>4, SumFacts
  <2>3. ASSUME SumFunction(size) = 0, NEW x \in D PROVE size[x] = 0
    <3>1. size[x] \in Nat /\ size[x] <= 0
      BY <1>4, <2>2, <2>3
    <3> QED
      BY <3>1
  <2> QED
    BY <1>4, <2>1, <2>2, <2>3
<1>7. start \in Nat /\ start > RootDirLba
  <2>1. SectorsFor(RootBytes(files)) \in Nat /\ SectorsFor(RootBytes(files)) # 0
    BY RootBytesType, SectorFacts
  <2> QED
    BY <2>1 DEF RootDirLba
<1>8. IsoSize(files) = start + SumFunction(size)
  BY DEF IsoSize
<1> HIDE DEF start, size
<1>9. ASSUME NEW i \in 1..(n + 1)
      PROVE  /\ b[i] \in Nat
             /\ i <= n => b[i + 1] = b[i] + w[i]
             /\ b[i] = SumFunction([j \in 1..(i - 1) |-> SectorsFor(files[names[j]])])
  <2> HIDE DEF w
  <2>1. /\ SumFunction([j \in 1..(i - 1) |-> w[j]]) \in Nat
        /\ i <= n => SumFunction([j \in 1..i |-> w[j]]) = SumFunction([j \in 1..(i - 1) |-> w[j]]) + w[i]
    BY <1>2, <1>5, SumsOfPrefixes
  <2>2. i <= n => i + 1 \in 1..(n + 1) /\ (i + 1) - 1 = i
    BY <1>2
  <2>3. i <= n => b[i + 1] = SumFunction([j \in 1..i |-> w[j]])
    BY <2>2
  <2>4. [j \in 1..(i - 1) |-> w[j]] = [j \in 1..(i - 1) |-> SectorsFor(files[names[j]])]
    <3>1. \A j \in 1..(i - 1) : j \in 1..n
      BY <1>2
    <3> QED
      BY <1>5, <3>1
  <2> QED
    BY <2>1, <2>3, <2>4
<1>10. b \in [1..(n + 1) -> Nat]
  BY <1>9
<1>11. b[n + 1] = SumFunction(w)
  <2>1. n + 1 \in 1..(n + 1) /\ (n + 1) - 1 = n
    BY <1>2
  <2>2. w = [j \in 1..n |-> w[j]]
    OBVIOUS
  <2> HIDE DEF w
  <2>3. b[n + 1] = SumFunction([j \in 1..((n + 1) - 1) |-> w[j]])
    BY <2>1
  <2> QED
    BY <2>1, <2>2, <2>3
<1>12. \A i \in 1..n : b[i + 1] = b[i] + SectorsFor(files[names[i]])
  <2> HIDE DEF b, w
  <2> SUFFICES ASSUME NEW i \in 1..n PROVE b[i + 1] = b[i] + SectorsFor(files[names[i]])
    OBVIOUS
  <2>1. i \in 1..(n + 1) /\ i <= n
    BY <1>2
  <2> QED
    BY <1>5, <1>9, <2>1
<1>13. Laid(files, names, n, start, b)
  <2> HIDE DEF b, w
  <2> QED
    BY <1>2, <1>3, <1>6, <1>7, <1>8, <1>10, <1>11, <1>12 DEF Laid
<1>14. \A i \in 1..(n + 1) : b[i] = SumFunction([j \in 1..(i - 1) |-> SectorsFor(files[names[j]])])
  <2> HIDE DEF b, w
  <2> QED  BY <1>9
<1> HIDE DEF b
<1> QED
  BY <1>13, <1>14 DEF start

\* What the property says of an image that was built.
IsoOK ==
  iso # NoIso =>
    /\ ParseIso = {<<n.text, iso.given[n]>> : n \in DOMAIN iso.given}
    /\ iso.sectors = IsoSize(iso.given) + (IF \A n \in DOMAIN iso.given : iso.given[n] = 0 THEN 1 ELSE 0)
    /\ \A i, j \in DOMAIN iso.records :
         LET r == iso.records[i] t == iso.records[j] IN
         /\ r.extent > RootDirLba
         /\ i # j /\ r.size > 0 /\ t.size > 0 =>
              r.extent + SectorsFor(r.size) <= t.extent \/ t.extent + SectorsFor(t.size) <= r.extent

LEMMA IsoIsRead == ASSUME NEW files \in IsoFiles, BuildIso(files) PROVE IsoOK' /\ iso'.sectors \in Nat
<1>1. PICK names : names = SetToSeq(DOMAIN files)
  OBVIOUS
<1>2. PICK n : n = Cardinality(DOMAIN files)
  OBVIOUS
<1>3. PICK start : start = RootDirLba + SectorsFor(RootBytes(files))
  OBVIOUS
<1>4. PICK b : /\ Laid(files, names, n, start, b)
               /\ \A i \in 1..(n + 1) : b[i] = SumFunction([j \in 1..(i - 1) |-> SectorsFor(files[names[j]])])
  <2>1. \E c : /\ Laid(files, names, n, RootDirLba + SectorsFor(RootBytes(files)), c)
               /\ \A i \in 1..(n + 1) : c[i] = SumFunction([j \in 1..(i - 1) |-> SectorsFor(files[names[j]])])
    <3>1. files \in IsoFiles
      OBVIOUS
    <3> QED
      BY ONLY <1>1, <1>2, <3>1, FilesAreLaid
  <2> QED
    BY <1>3, <2>1, Zenon
<1>5. /\ n \in Nat /\ names \in [1..n -> DOMAIN files] /\ \A x \in DOMAIN files : \E i \in 1..n : names[i] = x
      /\ start \in Nat /\ start > RootDirLba /\ b \in [1..(n + 1) -> Nat]
      /\ \A i \in 1..n : b[i + 1] = b[i] + SectorsFor(files[names[i]])
      /\ start + b[n + 1] = IsoSize(files)
      /\ b[n + 1] = 0 <=> \A x \in DOMAIN files : files[x] = 0
  BY <1>4 DEF Laid
<1>30. n \in Nat /\ start \in Nat /\ start > RootDirLba /\ start + b[n + 1] = IsoSize(files)
  BY <1>5
<1>31. \A x \in DOMAIN files : files[x] \in Nat
  BY SeedAssumption DEF IsoFiles
<1>32. DOMAIN names = 1..n /\ Len(names) = n /\ \A i \in 1..n : names[i] \in DOMAIN files
  BY <1>5
<1>6. /\ DOMAIN names = 1..n /\ Len(names) = n /\ \A i \in 1..n : names[i] \in DOMAIN files
      /\ \A x \in DOMAIN files : files[x] \in Nat
  BY <1>31, <1>32
<1> DEFINE Before(i) == SumFunction([j \in 1..(i - 1) |-> SectorsFor(files[names[j]])])
           last == start + Before(Len(names) + 1)
           R == [i \in DOMAIN names |-> [name |-> names[i].text, extent |-> start + Before(i), size |-> files[names[i]]]]
<1>7. iso' = [records |-> R, sectors |-> IF last > start + 1 THEN last ELSE start + 1, given |-> files]
  BY <1>1, <1>3 DEF BuildIso
<1>8. DOMAIN R = 1..n /\ \A i \in 1..n : R[i].name = names[i].text /\ R[i].extent = start + b[i]
                                          /\ R[i].size = files[names[i]]
  <2>1. ASSUME NEW i \in 1..n PROVE b[i] = Before(i)
    <3>1. i \in 1..(n + 1)
      BY <1>30
    <3> QED
      BY <1>4, <3>1
  <2> HIDE DEF Before
  <2> QED
    BY <1>32, <2>1
<1>9. last = start + b[n + 1]
  <2>1. n + 1 \in 1..(n + 1)
    BY <1>5
  <2>2. b[n + 1] = Before(n + 1)
    BY <1>4, <2>1
  <2> HIDE DEF Before
  <2> QED
    BY <1>6, <2>2
<1> HIDE DEF R, last
<1>10. PICK total : total = IF last > start + 1 THEN last ELSE start + 1
  OBVIOUS
<1>11. iso' = [records |-> R, sectors |-> total, given |-> files]
  BY <1>7, <1>10
<1>12. iso'.records = R /\ iso'.sectors = total /\ iso'.given = files
  BY <1>11
<1>13. b[n + 1] \in Nat /\ \A i \in 1..n : b[i] \in Nat /\ b[i + 1] \in Nat /\ b[i] <= b[i + 1]
                                           /\ SectorsFor(files[names[i]]) \in Nat
  <2>1. \A i \in 1..n : i \in 1..(n + 1) /\ i + 1 \in 1..(n + 1)
    BY <1>5
  <2>2. \A i \in 1..n : SectorsFor(files[names[i]]) \in Nat
    BY <1>6, SectorFacts
  <2>3. \A i \in 1..n : b[i] \in Nat /\ b[i + 1] \in Nat
    BY <1>5, <2>1
  <2>4. n + 1 \in 1..(n + 1)
    BY <1>5
  <2>5. ASSUME NEW i \in 1..n PROVE b[i] <= b[i + 1]
    <3>1. b[i + 1] = b[i] + SectorsFor(files[names[i]])
      BY <1>5
    <3>2. b[i] \in Nat /\ SectorsFor(files[names[i]]) \in Nat
      BY <2>2, <2>3
    <3> QED
      BY <3>1, <3>2
  <2> QED
    BY <1>5, <2>2, <2>3, <2>4, <2>5
<1>14. \A i, j \in 1..(n + 1) : i <= j => b[i] <= b[j]
  <2>1. ASSUME NEW i \in 1..(n + 1), NEW j \in 1..(n + 1), i <= j PROVE b[i] <= b[j]
    BY <1>5, <1>13, <2>1, Growing
  <2> QED
    BY <2>1
<1>15. total \in Nat /\ total >= start + b[n + 1]
       /\ total = IsoSize(files) + (IF \A x \in DOMAIN files : files[x] = 0 THEN 1 ELSE 0)
  <2>1. CASE b[n + 1] = 0
    BY <1>5, <1>9, <1>10, <2>1
  <2>2. CASE b[n + 1] # 0
    <3>2. b[n + 1] \in Nat
      BY <1>13
    <3>1. total = start + b[n + 1]
      BY <1>30, <1>9, <1>10, <3>2, <2>2
    <3>3. ~\A x \in DOMAIN files : files[x] = 0
      BY <1>5, <2>2
    <3>4. total = IsoSize(files) + (IF \A x \in DOMAIN files : files[x] = 0 THEN 1 ELSE 0)
      BY <1>30, <3>1, <3>2, <3>3
    <3> QED
      BY <1>30, <3>1, <3>2, <3>4
  <2> QED
    BY <2>1, <2>2
<1>16. \A i \in 1..n : R[i].extent + SectorsFor(R[i].size) = start + b[i + 1] /\ R[i].extent \in Nat
  <2> SUFFICES ASSUME NEW i \in 1..n
               PROVE  R[i].extent + SectorsFor(R[i].size) = start + b[i + 1] /\ R[i].extent \in Nat
    OBVIOUS
  <2>1. R[i].extent = start + b[i] /\ SectorsFor(R[i].size) = SectorsFor(files[names[i]])
    BY <1>8
  <2>2. b[i + 1] = b[i] + SectorsFor(files[names[i]]) /\ b[i] \in Nat /\ SectorsFor(files[names[i]]) \in Nat
    BY <1>5, <1>13
  <2> QED
    BY <1>30, <2>1, <2>2
<1>17. ~\E i \in DOMAIN iso'.records : iso'.records[i].extent + SectorsFor(iso'.records[i].size) > iso'.sectors
  <2> SUFFICES ASSUME NEW i \in 1..n PROVE ~(R[i].extent + SectorsFor(R[i].size) > total)
    BY <1>8, <1>12
  <2>1. i + 1 \in 1..(n + 1) /\ n + 1 \in 1..(n + 1) /\ i + 1 <= n + 1
    BY <1>5
  <2>2. b[i + 1] <= b[n + 1] /\ b[i + 1] \in Nat
    BY <1>13, <1>14, <2>1
  <2>3. total \in Nat /\ total >= start + b[n + 1] /\ b[n + 1] \in Nat
    BY <1>13, <1>15
  <2>4. R[i].extent + SectorsFor(R[i].size) = start + b[i + 1]
    BY <1>16
  <2> QED
    BY <1>30, <2>2, <2>3, <2>4
<1>18. ParseIso' = {<<R[i].name, R[i].size>> : i \in 1..n}
  BY <1>8, <1>12, <1>17 DEF ParseIso
<1>19. {<<R[i].name, R[i].size>> : i \in 1..n} = {<<x.text, files[x]>> : x \in DOMAIN files}
  <2>1. \A i \in 1..n : names[i] \in DOMAIN files /\ R[i].name = names[i].text /\ R[i].size = files[names[i]]
    BY <1>6, <1>8
  <2>2. ASSUME NEW x \in DOMAIN files
        PROVE  \E i \in 1..n : <<R[i].name, R[i].size>> = <<x.text, files[x]>>
    <3>1. PICK i \in 1..n : names[i] = x
      BY <1>5
    <3> QED
      BY <2>1, <3>1
  <2> QED
    BY <2>1, <2>2
<1>20. ASSUME NEW i \in 1..n, NEW j \in 1..n
       PROVE  /\ R[i].extent > RootDirLba
              /\ i # j /\ R[i].size > 0 /\ R[j].size > 0 =>
                   R[i].extent + SectorsFor(R[i].size) <= R[j].extent
                   \/ R[j].extent + SectorsFor(R[j].size) <= R[i].extent
  <2>1. R[i].extent = start + b[i] /\ R[j].extent = start + b[j] /\ b[i] \in Nat /\ b[j] \in Nat
    BY <1>8, <1>13
  <2>2. R[i].extent > RootDirLba
    BY <1>30, <2>1 DEF RootDirLba
  <2>3. CASE i < j
    <3>1. i + 1 \in 1..(n + 1) /\ j \in 1..(n + 1) /\ i + 1 <= j
      BY <1>5, <2>3
    <3>2. b[i + 1] <= b[j] /\ b[i + 1] \in Nat
      BY <1>13, <1>14, <3>1
    <3> QED
      BY <1>30, <1>16, <2>1, <2>2, <3>2
  <2>4. CASE j < i
    <3>1. j + 1 \in 1..(n + 1) /\ i \in 1..(n + 1) /\ j + 1 <= i
      BY <1>5, <2>4
    <3>2. b[j + 1] <= b[i] /\ b[j + 1] \in Nat
      BY <1>13, <1>14, <3>1
    <3> QED
      BY <1>30, <1>16, <2>1, <2>2, <3>2
  <2>5. CASE i = j
    BY <2>2, <2>5
  <2> QED
    BY <2>3, <2>4, <2>5
<1>21. IsoOK'
  <2>1. ParseIso' = {<<x.text, iso'.given[x]>> : x \in DOMAIN iso'.given}
    BY <1>12, <1>18, <1>19
  <2>2. iso'.sectors = IsoSize(iso'.given) + (IF \A x \in DOMAIN iso'.given : iso'.given[x] = 0 THEN 1 ELSE 0)
    BY <1>12, <1>15
  <2>3. \A i, j \in DOMAIN iso'.records :
          /\ iso'.records[i].extent > RootDirLba
          /\ i # j /\ iso'.records[i].size > 0 /\ iso'.records[j].size > 0 =>
               iso'.records[i].extent + SectorsFor(iso'.records[i].size) <= iso'.records[j].extent
               \/ iso'.records[j].extent + SectorsFor(iso'.records[j].size) <= iso'.records[i].extent
    BY <1>8, <1>12, <1>20
  <2> QED
    BY <2>1, <2>2, <2>3 DEF IsoOK
<1> QED
  BY <1>12, <1>15, <1>21

-----------------------------------------------------------------------------
(* The FAT volume.                                                           *)

Shorts == {n.plain : n \in LongNames} \cup UNION {{<<n.stem, t>> : t \in Nat} : n \in LongNames}
Texts  == {n.text : n \in LongNames}
Slot   == [kind : {"label"}]
            \cup [kind : {"long"}, ordinal : Nat, last : BOOLEAN, text : Texts, sum : Shorts]
            \cup [kind : {"short"}, short : Shorts, first : Nat, size : Sizes]

\* A short name that is given is one that is free.
LEMMA ShortNameFacts ==
  ASSUME NEW n \in LongNames, NEW shorts, IsFiniteSet(shorts)
  PROVE  ShortName(n, shorts) \in Shorts \ shorts
<1> DEFINE c == Cardinality(shorts)
           free == {t \in 1..(c + 1) : <<n.stem, t>> \notin shorts}
           least == CHOOSE t \in free : \A u \in free : t <= u
<1>1. CASE n.plain # Lossy /\ n.plain \notin shorts
  <2>1. ShortName(n, shorts) = n.plain
    BY <1>1 DEF ShortName
  <2> QED
    BY <1>1, <2>1 DEF Shorts
<1>2. CASE ~(n.plain # Lossy /\ n.plain \notin shorts)
  <2>1. ShortName(n, shorts) = <<n.stem, least>>
    BY <1>2 DEF ShortName
  <2>2. c \in Nat
    BY FS_CardinalityType
  <2>3. free # {}
    <3> SUFFICES ASSUME free = {} PROVE FALSE
      OBVIOUS
    <3> DEFINE T == 1..(c + 1)
               f == [t \in T |-> <<n.stem, t>>]
    <3>1. \A t \in T : <<n.stem, t>> \in shorts
      OBVIOUS
    <3>2. f \in [T -> shorts] /\ \A t, u \in T : f[t] = f[u] => t = u
      BY <3>1
    <3>3. f \in Injection(T, shorts)
      BY <3>2 DEF Injection, IsInjective
    <3>4. Cardinality(T) = c + 1
      <4>1. 1 \in Int /\ c + 1 \in Int /\ ~(1 > c + 1) /\ (c + 1) - 1 + 1 = c + 1
        BY <2>2
      <4> HIDE DEF c
      <4> QED
        BY <4>1, FS_Interval
    <3> HIDE DEF f, T
    <3>5. Cardinality(T) <= Cardinality(shorts)
      BY <3>3, FS_Injection
    <3> QED
      BY <2>2, <3>4, <3>5
  <2>4. \E t \in free : \A u \in free : t <= u
    <3>1. free \in SUBSET Nat
      BY <2>2
    <3> HIDE DEF free
    <3> QED
      BY <2>3, <3>1, LeastElement
  <2>5. least \in free
    BY <2>4
  <2> HIDE DEF least
  <2>6. <<n.stem, least>> \notin shorts /\ least \in Nat
    BY <2>2, <2>5
  <2> QED
    BY <2>1, <2>6 DEF Shorts
<1> QED
  BY <1>1, <1>2

LongSlot(k, p, text, short) == [kind |-> "long", ordinal |-> k, last |-> k = p, text |-> text, sum |-> short]

\* The slots of a long name, in the order they are on the disk.
LEMMA LongEntriesFacts ==
  ASSUME NEW n \in LongNames, NEW short \in Shorts
  PROVE  /\ LongEntries(n, short) \in Seq(Slot) /\ Len(LongEntries(n, short)) = Pieces(n) /\ Pieces(n) \in Nat \ {0}
         /\ \A k \in 1..Pieces(n) : /\ (Pieces(n) - k) + 1 \in 1..Pieces(n)
                                    /\ LongEntries(n, short)[(Pieces(n) - k) + 1]
                                       = LongSlot(k, Pieces(n), n.text, short)
<1> DEFINE p == Pieces(n)
           E(k) == [kind |-> "long", ordinal |-> k, last |-> k = p, text |-> n.text, sum |-> short]
           s == [k \in 1..p |-> E(k)]
<1>1. p \in Nat \ {0}
  <2>1. n.units \in Nat \ {0} /\ 13 \in Nat \ {0}
    BY SeedAssumption
  <2> QED
    BY <2>1, CeilDivFacts DEF Pieces
<1>2. \A k \in 1..p : E(k) \in Slot
  <2> SUFFICES ASSUME NEW k \in 1..p PROVE E(k) \in Slot
    OBVIOUS
  <2>1. PICK z : z = (k = p)
    OBVIOUS
  <2>2. z \in BOOLEAN /\ k \in Nat /\ n.text \in Texts
    BY <1>1, <2>1 DEF Texts
  <2>3. [kind |-> "long", ordinal |-> k, last |-> z, text |-> n.text, sum |-> short] \in Slot
    BY <2>2 DEF Slot
  <2> QED
    BY <2>1, <2>3
<1>3. LongEntries(n, short) = Reverse(s)
  BY DEF LongEntries
<1> HIDE DEF p, E
<1>4. s \in [1..p -> Slot] /\ Len(s) = p /\ s \in Seq(Slot) /\ \A k \in 1..p : s[k] = E(k)
  BY <1>1, <1>2
<1> HIDE DEF s
<1>5. Reverse(s) = [i \in 1..p |-> s[(p - i) + 1]]
  BY <1>4 DEF Reverse
<1>6. \A i \in 1..p : (p - i) + 1 \in 1..p
  BY <1>1
<1>7. Reverse(s) \in Seq(Slot) /\ Len(Reverse(s)) = p
  BY <1>1, <1>4, <1>5, <1>6
<1>8. \A k \in 1..p : Reverse(s)[(p - k) + 1] = E(k)
  <2> SUFFICES ASSUME NEW k \in 1..p PROVE Reverse(s)[(p - k) + 1] = E(k)
    OBVIOUS
  <2>1. (p - ((p - k) + 1)) + 1 = k
    BY <1>1
  <2> QED
    BY <1>4, <1>5, <1>6, <2>1
<1> QED
  BY <1>1, <1>3, <1>6, <1>7, <1>8 DEF p, E, LongSlot

\* What LongNameAt reads in a directory.
LongIn(r, s) ==
  LET mine(k) == s - k > 0 /\ r[s - k].kind = "long" /\ r[s - k].ordinal = k /\ r[s - k].sum = r[s].short
      lasts   == {k \in 1..(s - 1) : (\A j \in 1..k : mine(j)) /\ r[s - k].last}
  IN {r[s - k].text : k \in lasts}

\* A slot is read as it was when others have come after it.
LEMMA LongStays ==
  ASSUME NEW r, NEW t, NEW m \in Nat, \A i \in 1..m : t[i] = r[i], NEW s \in 1..m
  PROVE  LongIn(t, s) = LongIn(r, s)
<1> DEFINE mine(x, k) == s - k > 0 /\ x[s - k].kind = "long" /\ x[s - k].ordinal = k /\ x[s - k].sum = x[s].short
           lasts(x) == {k \in 1..(s - 1) : (\A j \in 1..k : mine(x, j)) /\ x[s - k].last}
<1>1. \A k \in 1..(s - 1) : s - k \in 1..m /\ t[s - k] = r[s - k]
  OBVIOUS
<1>2. t[s] = r[s]
  OBVIOUS
<1>3. \A k \in 1..(s - 1) : mine(t, k) <=> mine(r, k)
  BY <1>1, <1>2
<1> HIDE DEF mine
<1>4. \A k \in 1..(s - 1) : \A j \in 1..k : j \in 1..(s - 1)
  OBVIOUS
<1>5. lasts(t) = lasts(r)
  BY <1>1, <1>3, <1>4
<1>6. \A k \in lasts(r) : t[s - k].text = r[s - k].text
  BY <1>1
<1>7. {t[s - k].text : k \in lasts(t)} = {r[s - k].text : k \in lasts(r)}
  <2> HIDE DEF lasts
  <2> QED  BY <1>5, <1>6
<1> QED
  BY <1>7 DEF LongIn, mine

\* That after slot m lie the p pieces of a name.
Named(r, m, p, short, text) == \A k \in 1..p : r[m + (p - k) + 1] = LongSlot(k, p, text, short)

\* A name is read from the slots that were written before its short entry.
LEMMA LongIsRead ==
  ASSUME NEW r \in Seq(Slot), NEW m \in Nat \ {0}, NEW p \in Nat \ {0}, NEW short, NEW text,
         r[m].kind # "long", r[m + p + 1].short = short, Named(r, m, p, short, text)
  PROVE  LongIn(r, m + p + 1) = {text}
<1> DEFINE s == m + p + 1
           mine(k) == s - k > 0 /\ r[s - k].kind = "long" /\ r[s - k].ordinal = k /\ r[s - k].sum = r[s].short
           lasts   == {k \in 1..(s - 1) : (\A j \in 1..k : mine(j)) /\ r[s - k].last}
<1>1. \A k \in 1..p : s - k = m + (p - k) + 1 /\ s - k > 0 /\ k \in 1..(s - 1)
  OBVIOUS
<1>2. \A k \in 1..p : mine(k) /\ (r[s - k].last <=> k = p) /\ r[s - k].text = text
  <2> SUFFICES ASSUME NEW k \in 1..p PROVE mine(k) /\ (r[s - k].last <=> k = p) /\ r[s - k].text = text
    OBVIOUS
  <2>1. PICK z : z = (k = p)
    OBVIOUS
  <2>2. r[s - k] = [kind |-> "long", ordinal |-> k, last |-> z, text |-> text, sum |-> short]
    BY <1>1, <2>1 DEF LongSlot, Named
  <2>3. s - k > 0
    BY <1>1
  <2>4. r[s].short = short
    OBVIOUS
  <2> HIDE DEF s
  <2>5. /\ r[s - k].kind = "long" /\ r[s - k].ordinal = k /\ r[s - k].sum = short
        /\ r[s - k].last = z /\ r[s - k].text = text
    BY <2>2
  <2> QED
    BY <2>1, <2>3, <2>4, <2>5
<1>3. ~mine(p + 1)
  <2>1. s - (p + 1) = m
    OBVIOUS
  <2> QED
    BY <2>1
<1>4. \A k \in 1..(s - 1) : k > p => p + 1 \in 1..k
  OBVIOUS
<1>5. \A k \in 1..(s - 1) : k <= p => k \in 1..p
  OBVIOUS
<1>6. \A j \in 1..p : \A i \in 1..j : i \in 1..p
  OBVIOUS
<1>7. p \in 1..p /\ p \in 1..(s - 1)
  OBVIOUS
<1>8. \A k \in 1..(s - 1) : k \in Nat
  OBVIOUS
<1>9. LongIn(r, s) = {r[s - k].text : k \in lasts}
  BY DEF LongIn
<1> HIDE DEF mine, s
<1>10. lasts = {p}
  <2>1. \A k \in lasts : k = p
    <3> SUFFICES ASSUME NEW k \in lasts PROVE k = p
      OBVIOUS
    <3>1. k \in 1..(s - 1) /\ (\A j \in 1..k : mine(j)) /\ r[s - k].last
      OBVIOUS
    <3>2. ~(k > p)
      BY <1>3, <1>4, <3>1
    <3>3. k \in 1..p
      BY <1>5, <1>8, <3>1, <3>2
    <3> QED
      BY <1>2, <3>1, <3>3
  <2>2. p \in lasts
    BY <1>2, <1>7
  <2> QED
    BY <2>1, <2>2
<1> HIDE DEF lasts
<1> QED
  BY <1>2, <1>7, <1>9, <1>10 DEF s

\* A file's clusters: one after another, each with its range of the bytes.
StoredIn(ft, d, next, first, text, size) ==
  LET b == BlocksOf(size) IN
  IF size = 0 THEN first = 0
  ELSE /\ first \in Nat /\ first >= FirstData /\ first + b <= next
       /\ \A c \in first..(first + b - 1) :
            /\ ft[c] = IF c = first + b - 1 THEN Eoc ELSE c + 1
            /\ d[c].name = text
            /\ d[c].from = (c - first + 1) * ClusterBytes - ClusterBytes
            /\ d[c].to = IF (c - first + 1) * ClusterBytes < size THEN (c - first + 1) * ClusterBytes ELSE size

LEMMA BlocksFacts ==
  ASSUME NEW size \in Nat
  PROVE  /\ BlocksOf(size) \in Nat /\ (BlocksOf(size) = 0 <=> size = 0)
         /\ size <= BlocksOf(size) * ClusterBytes
BY CeilDivFacts, SeedAssumption DEF BlocksOf

\* Walking the chain of a file that is stored meets its clusters.
LEMMA ChainIsWalked ==
  ASSUME NEW first \in Nat, first >= FirstData, NEW b \in Nat \ {0}, first + b <= Clusters + 2,
         \A c \in first..(first + b - 1) : fat[c] = IF c = first + b - 1 THEN Eoc ELSE c + 1
  PROVE  ChainFrom(first) = [j \in 1..b |-> first + j - 1]
<1> DEFINE upto(k) == IF k < b THEN k ELSE b
           part(k) == [j \in 1..upto(k) |-> first + j - 1]
           Then(s) == IF Last(s) \in ClusterIds /\ fat[Last(s)] \in ClusterIds THEN Append(s, fat[Last(s)]) ELSE s
           Eq(f) == f = [k \in 1..Clusters |-> IF k = 1 THEN <<first>> ELSE Then(f[k - 1])]
           it == CHOOSE f : Eq(f)
<1>1. /\ Clusters \in Nat \ {0} /\ b <= Clusters /\ first \in ClusterIds
      /\ \A c \in first..(first + b - 1) : c \in ClusterIds
      /\ Eoc \notin ClusterIds
  BY SeedAssumption DEF ClusterIds, FirstData, Eoc
<1>2. ChainFrom(first) = it[Clusters]
  BY <1>1 DEF ChainFrom
<1>3. \A k \in Nat \ {0} : upto(k) \in Nat \ {0} /\ part(k) \in Seq(Nat) /\ Len(part(k)) = upto(k)
                          /\ Last(part(k)) = first + upto(k) - 1
  <2> SUFFICES ASSUME NEW k \in Nat \ {0}
               PROVE  upto(k) \in Nat \ {0} /\ part(k) \in Seq(Nat) /\ Len(part(k)) = upto(k)
                      /\ Last(part(k)) = first + upto(k) - 1
    OBVIOUS
  <2>1. PICK u : u = upto(k)
    OBVIOUS
  <2>2. u \in Nat \ {0}
    BY <2>1
  <2>3. /\ [j \in 1..u |-> first + j - 1] \in [1..u -> Nat] /\ Len([j \in 1..u |-> first + j - 1]) = u
        /\ [j \in 1..u |-> first + j - 1][u] = first + u - 1
    BY <2>2
  <2>4. [j \in 1..u |-> first + j - 1] \in Seq(Nat)
    BY <2>2, <2>3
  <2> HIDE DEF upto
  <2> QED
    BY <2>1, <2>2, <2>3, <2>4 DEF Last
<1>4. part(1) = <<first>>
  <2>1. upto(1) = 1
    OBVIOUS
  <2>2. [j \in 1..1 |-> first + j - 1] = <<first>>
    OBVIOUS
  <2> HIDE DEF upto
  <2> QED
    BY <2>1, <2>2
<1>5. ASSUME NEW k \in 2..Clusters PROVE Then(part(k - 1)) = part(k)
  <2>1. k - 1 \in Nat \ {0} /\ k \in Nat \ {0}
    OBVIOUS
  <2>2. PICK u : u = upto(k - 1)
    OBVIOUS
  <2>3. u \in Nat \ {0} /\ part(k - 1) \in Seq(Nat) /\ Len(part(k - 1)) = u /\ Last(part(k - 1)) = first + u - 1
    BY <1>3, <2>1, <2>2
  <2>4. CASE k - 1 < b
    <3>1. u = k - 1 /\ upto(k) = u + 1
      BY <2>1, <2>2, <2>4
    <3>2. first + u - 1 \in first..(first + b - 1) /\ first + u \in first..(first + b - 1) /\ first + u - 1 # first + b - 1
      BY <2>3, <2>4, <3>1
    <3>3. fat[first + u - 1] = first + u
      <4>1. fat[first + u - 1] = (first + u - 1) + 1
        BY <3>2
      <4> QED
        BY <2>3, <4>1
    <3>4. first + u - 1 \in ClusterIds /\ first + u \in ClusterIds
      BY <1>1, <3>2
    <3>5. Then(part(k - 1)) = Append(part(k - 1), first + u)
      <4> HIDE DEF part, upto
      <4> QED  BY <2>3, <3>3, <3>4
    <3>6. Append([j \in 1..u |-> first + j - 1], first + u) = [j \in 1..(u + 1) |-> first + j - 1]
      <4> DEFINE g == [j \in 1..u |-> first + j - 1]
                 h == [j \in 1..(u + 1) |-> first + j - 1]
      <4>1. g \in Seq(Nat) /\ Len(g) = u /\ \A j \in 1..u : g[j] = first + j - 1
        BY <2>3
      <4>2. h \in Seq(Nat) /\ Len(h) = u + 1 /\ \A j \in 1..(u + 1) : h[j] = first + j - 1
        BY <2>3
      <4> HIDE DEF g, h
      <4>3. Append(g, first + u) \in Seq(Nat) /\ Len(Append(g, first + u)) = u + 1
            /\ \A j \in 1..(u + 1) : Append(g, first + u)[j] = h[j]
        BY <2>3, <4>1, <4>2
      <4>4. Append(g, first + u) = h
        BY <4>2, <4>3, SeqEqual
      <4> QED
        BY <4>4 DEF g, h
    <3> HIDE DEF upto
    <3> QED
      BY <2>2, <3>1, <3>5, <3>6
  <2>5. CASE ~(k - 1 < b)
    <3>1. u = b /\ upto(k) = b
      BY <2>1, <2>2, <2>5
    <3>2. first + b - 1 \in first..(first + b - 1)
      OBVIOUS
    <3>3. fat[first + u - 1] = Eoc
      BY <3>1, <3>2
    <3>4. Then(part(k - 1)) = part(k - 1)
      <4> HIDE DEF part, upto
      <4> QED  BY <1>1, <2>3, <3>3
    <3> HIDE DEF upto, Then
    <3> QED
      BY <2>2, <3>1, <3>4
  <2> QED
    BY <2>4, <2>5
<1> HIDE DEF Then, part
<1>6. Eq(it)
  <2> DEFINE w == [k \in 1..Clusters |-> part(k)]
  <2>1. ASSUME NEW k \in 1..Clusters PROVE w[k] = IF k = 1 THEN <<first>> ELSE Then(w[k - 1])
    <3>1. CASE k = 1
      BY <1>4, <3>1
    <3>2. CASE k # 1
      <4>1. k \in 2..Clusters /\ k - 1 \in 1..Clusters
        BY <1>1, <3>2
      <4> QED
        BY <1>5, <3>2, <4>1
    <3> QED
      BY <3>1, <3>2
  <2>2. w = [k \in 1..Clusters |-> w[k]]
    OBVIOUS
  <2> HIDE DEF w
  <2>3. Eq(w)
    BY <2>1, <2>2
  <2> HIDE DEF Eq
  <2> QED
    BY <2>3
<1> HIDE DEF it
<1>7. \A k \in 1..Clusters : it[k] = IF k = 1 THEN <<first>> ELSE Then(it[k - 1])
  BY <1>6
<1> DEFINE Bad == {k \in Nat : k \in 1..Clusters /\ it[k] # part(k)}
<1>8. Bad = {}
  <2> SUFFICES ASSUME Bad # {} PROVE FALSE
    OBVIOUS
  <2>1. PICK k \in Bad : \A m \in Bad : k <= m
    BY LeastElement
  <2>2. k # 1
    BY <1>4, <1>7, <2>1
  <2>3. k \in 2..Clusters /\ k \in 1..Clusters /\ k - 1 \in 1..Clusters /\ k - 1 \in Nat
    BY <1>1, <2>1, <2>2
  <2>4. k - 1 \notin Bad
    BY <2>1, <2>3
  <2>5. it[k - 1] = part(k - 1)
    BY <2>3, <2>4
  <2>6. it[k] = Then(it[k - 1])
    BY <1>7, <2>2, <2>3
  <2>7. it[k] = part(k)
    BY <1>5, <2>3, <2>5, <2>6
  <2> QED
    BY <2>1, <2>7
<1>9. it[Clusters] = part(Clusters)
  <2>1. Clusters \in 1..Clusters /\ Clusters \in Nat
    BY <1>1
  <2>2. Clusters \notin Bad
    BY <1>8
  <2> QED
    BY <2>1, <2>2
<1>10. upto(Clusters) = b
  BY <1>1
<1> HIDE DEF upto
<1> QED
  BY <1>2, <1>9, <1>10 DEF part

\* What is stored is read back.
LEMMA StoredIsRead ==
  ASSUME NEW first, NEW text, NEW size \in Nat, volume.next \in Nat, volume.next <= Clusters + 2,
         StoredIn(fat, data, volume.next, first, text, size)
  PROVE  Tiles(ChainFrom(first), text, size)
<1>1. CASE size = 0
  <2>1. first = 0 /\ 0 \notin ClusterIds
    BY <1>1 DEF StoredIn, ClusterIds, FirstData
  <2>2. ChainFrom(first) = << >>
    BY <2>1 DEF ChainFrom
  <2> QED
    BY <1>1, <2>2 DEF Tiles
<1>2. CASE size # 0
  <2> DEFINE b == BlocksOf(size)
  <2>1. b \in Nat \ {0} /\ size <= b * ClusterBytes /\ b * ClusterBytes \in Nat
    BY <1>2, BlocksFacts, SeedAssumption
  <2>2. /\ first \in Nat /\ first >= FirstData /\ first + b <= volume.next
        /\ \A c \in first..(first + b - 1) :
             /\ fat[c] = IF c = first + b - 1 THEN Eoc ELSE c + 1
             /\ data[c].name = text
             /\ data[c].from = (c - first + 1) * ClusterBytes - ClusterBytes
             /\ data[c].to = IF (c - first + 1) * ClusterBytes < size THEN (c - first + 1) * ClusterBytes ELSE size
    BY <1>2 DEF StoredIn
  <2> HIDE DEF b
  <2>3. first + b <= Clusters + 2
    BY <2>1, <2>2, SeedAssumption
  <2>4. ChainFrom(first) = [j \in 1..b |-> first + j - 1]
    BY <2>1, <2>2, <2>3, ChainIsWalked
  <2> DEFINE chain == [j \in 1..b |-> first + j - 1]
  <2>5. DOMAIN chain = 1..b /\ Len(chain) = b /\ chain # << >> /\ \A k \in 1..b : chain[k] = first + k - 1
    BY <2>1
  <2> HIDE DEF chain
  <2>6. ASSUME NEW k \in 1..b
        PROVE  data[chain[k]].name = text /\ data[chain[k]].from = (k - 1) * ClusterBytes
    <3>1. chain[k] \in first..(first + b - 1) /\ chain[k] - first + 1 = k
      BY <2>1, <2>2, <2>5
    <3>2. data[chain[k]].name = text /\ data[chain[k]].from = k * ClusterBytes - ClusterBytes
      BY <2>2, <3>1
    <3>3. k * ClusterBytes - ClusterBytes = (k - 1) * ClusterBytes
      BY <2>1, SeedAssumption
    <3> QED
      BY <3>2, <3>3
  <2>7. data[Last(chain)].to = size
    <3>1. Last(chain) = first + b - 1 /\ first + b - 1 \in first..(first + b - 1) /\ (first + b - 1) - first + 1 = b
      BY <2>1, <2>2, <2>5 DEF Last
    <3>2. data[first + b - 1].to = IF b * ClusterBytes < size THEN b * ClusterBytes ELSE size
      BY <2>2, <3>1
    <3> QED
      BY <2>1, <3>1, <3>2
  <2>8. Tiles(chain, text, size)
    BY <2>5, <2>6, <2>7 DEF Tiles
  <2> QED
    BY <2>4, <2>8 DEF chain
<1> QED
  BY <1>1, <1>2

\* The volume, in parts: what is in the directory, what it is made of, and what is left.
ShortsIn(r) == {s \in DOMAIN r : r[s].kind = "short"}
HoldsIn(r, ft, d, next, s, f) ==
  LongIn(r, s) = {f[1].text} /\ r[s].size = f[2] /\ StoredIn(ft, d, next, r[s].first, f[1].text, f[2])

VolumeOK(a, r, ft, d, v) ==
  /\ a \in Seq(LongNames \X Sizes)
  /\ r \in Seq(Slot) /\ Len(r) \in 1..RootEntries /\ r[Len(r)].kind # "long"
  /\ ft \in [0..(Clusters + 1) -> {Eoc} \cup 0..(Clusters + 1)]
  /\ DOMAIN d = ClusterIds /\ \A c \in ClusterIds : d[c].to - d[c].from <= ClusterBytes
  /\ v \in [next : FirstData..(Clusters + FirstData), shorts : SUBSET Shorts, failed : BOOLEAN]
  /\ IsFiniteSet(v.shorts) /\ Cardinality(v.shorts) = Len(a)
  /\ Cardinality(ShortsIn(r)) = Len(a)
  /\ \A s \in ShortsIn(r) : \E i \in DOMAIN a : HoldsIn(r, ft, d, v.next, s, a[i])
  /\ \A i \in DOMAIN a : \E s \in ShortsIn(r) : HoldsIn(r, ft, d, v.next, s, a[i])

LEMMA VolumeInit == SeedInit => VolumeOK(added, root, fat, data, volume)
<1> SUFFICES ASSUME SeedInit PROVE VolumeOK(added, root, fat, data, volume)
  OBVIOUS
<1>1. Clusters \in Nat \ {0} /\ ClusterBytes \in Nat \ {0} /\ RootEntries \in Nat \ {0}
  BY SeedAssumption
<1>2. root \in Seq(Slot) /\ Len(root) = 1 /\ root[1].kind = "label" /\ DOMAIN root = {1}
  <2>1. [kind |-> "label"] \in Slot
    BY DEF Slot
  <2> QED
    BY <2>1 DEF SeedInit
<1>3. ShortsIn(root) = {}
  BY <1>2 DEF ShortsIn
<1>4. added = << >> /\ DOMAIN added = {} /\ Len(added) = 0 /\ added \in Seq(LongNames \X Sizes)
  BY DEF SeedInit
<1>5. fat \in [0..(Clusters + 1) -> {Eoc} \cup 0..(Clusters + 1)]
  BY <1>1 DEF SeedInit
<1>6. DOMAIN data = ClusterIds /\ \A c \in ClusterIds : data[c].to - data[c].from <= ClusterBytes
  <2>1. data = [c \in ClusterIds |-> Hole]
    BY DEF SeedInit
  <2>2. Hole.to = 0 /\ Hole.from = 0
    BY DEF Hole
  <2> QED
    BY <1>1, <2>1, <2>2
<1>7. /\ volume \in [next : FirstData..(Clusters + FirstData), shorts : SUBSET Shorts, failed : BOOLEAN]
      /\ volume.shorts = {}
  BY <1>1 DEF SeedInit, FirstData
<1> QED
  BY <1>1, <1>2, <1>3, <1>4, <1>5, <1>6, <1>7, FS_EmptySet DEF VolumeOK

\* What is stored stays when other clusters are written.
LEMMA StoredStays ==
  ASSUME NEW ft, NEW d, NEW next \in Nat, NEW ft2, NEW d2, NEW next2 \in Nat, next <= next2,
         \A c \in FirstData..(next - 1) : ft2[c] = ft[c] /\ d2[c] = d[c],
         NEW first, NEW text, NEW size \in Nat, StoredIn(ft, d, next, first, text, size)
  PROVE  StoredIn(ft2, d2, next2, first, text, size)
<1>1. CASE size = 0
  BY <1>1 DEF StoredIn
<1>2. CASE size # 0
  <2>1. PICK b : b = BlocksOf(size)
    OBVIOUS
  <2>2. b \in Nat
    BY <2>1, BlocksFacts
  <2>3. /\ first \in Nat /\ first >= FirstData /\ first + b <= next
        /\ \A c \in first..(first + b - 1) :
             /\ ft[c] = IF c = first + b - 1 THEN Eoc ELSE c + 1
             /\ d[c].name = text
             /\ d[c].from = (c - first + 1) * ClusterBytes - ClusterBytes
             /\ d[c].to = IF (c - first + 1) * ClusterBytes < size THEN (c - first + 1) * ClusterBytes ELSE size
    BY <1>2, <2>1 DEF StoredIn
  <2>4. \A c \in first..(first + b - 1) : c \in FirstData..(next - 1)
    BY <2>2, <2>3 DEF FirstData
  <2>5. \A c \in first..(first + b - 1) : ft2[c] = ft[c] /\ d2[c] = d[c]
    BY <2>4
  <2>6. first + b <= next2
    BY <2>2, <2>3
  <2>7. \A c \in first..(first + b - 1) :
             /\ ft2[c] = IF c = first + b - 1 THEN Eoc ELSE c + 1
             /\ d2[c].name = text
             /\ d2[c].from = (c - first + 1) * ClusterBytes - ClusterBytes
             /\ d2[c].to = IF (c - first + 1) * ClusterBytes < size THEN (c - first + 1) * ClusterBytes ELSE size
    BY <2>3, <2>5
  <2> QED
    BY <1>2, <2>1, <2>3, <2>6, <2>7 DEF StoredIn
<1> QED
  BY <1>1, <1>2

LEMMA RootGrown ==
  ASSUME NEW r \in Seq(Slot), NEW l \in Seq(Slot), NEW x \in Slot, NEW t, t = r \o l \o <<x>>
  PROVE  /\ t \in Seq(Slot) /\ Len(t) = Len(r) + Len(l) + 1
         /\ \A i \in 1..Len(r) : t[i] = r[i]
         /\ \A j \in 1..Len(l) : t[Len(r) + j] = l[j]
         /\ t[Len(r) + Len(l) + 1] = x
<1> DEFINE c == r \o l
<1>1. /\ c \in Seq(Slot) /\ Len(c) = Len(r) + Len(l) /\ Len(r) \in Nat /\ Len(l) \in Nat
      /\ \A i \in 1..Len(r) : c[i] = r[i]
      /\ \A j \in 1..Len(l) : c[Len(r) + j] = l[j]
  OBVIOUS
<1>2. t = c \o <<x>>
  OBVIOUS
<1> HIDE DEF c
<1>3. <<x>> \in Seq(Slot) /\ Len(<<x>>) = 1 /\ <<x>>[1] = x
  OBVIOUS
<1>4. /\ t \in Seq(Slot) /\ Len(t) = Len(c) + 1
      /\ \A i \in 1..Len(c) : t[i] = c[i]
      /\ t[Len(c) + 1] = x
  BY <1>1, <1>2, <1>3
<1>5. \A i \in 1..Len(r) : i \in 1..Len(c)
  BY <1>1
<1>6. \A j \in 1..Len(l) : Len(r) + j \in 1..Len(c)
  BY <1>1
<1> QED
  BY <1>1, <1>4, <1>5, <1>6

\* What AddFile does, of constants.
Adds(r, ft, d, v, n, size, short, first, blocks, x, r2, ft2, d2, v2) ==
  /\ short = ShortName(n, v.shorts) /\ blocks = BlocksOf(size) /\ first = v.next
  /\ ~(Len(r) + 1 + Pieces(n) > RootEntries) /\ ~(size > 0 /\ first + blocks > Clusters + FirstData)
  /\ x = [kind |-> "short", short |-> short, first |-> IF size = 0 THEN 0 ELSE first, size |-> size]
  /\ r2 = r \o LongEntries(n, short) \o <<x>>
  /\ ft2 = [c \in DOMAIN ft |-> IF c \notin first .. (first + blocks - 1) THEN ft[c]
                                ELSE IF c = first + blocks - 1 THEN Eoc ELSE c + 1]
  /\ d2 = [c \in DOMAIN d |->
       IF c \notin first .. (first + blocks - 1) THEN d[c]
       ELSE [name |-> n.text, from |-> (c - first + 1) * ClusterBytes - ClusterBytes,
             to |-> IF (c - first + 1) * ClusterBytes < size THEN (c - first + 1) * ClusterBytes ELSE size]]
  /\ v2 = [v EXCEPT !.next = first + blocks, !.shorts = v.shorts \cup {short}]

\* The file that is added is in the volume, and the others are where they were.
LEMMA FileIsAdded ==
  ASSUME NEW a, NEW r, NEW ft, NEW d, NEW v, VolumeOK(a, r, ft, d, v), NEW n \in LongNames, NEW size \in Sizes,
         NEW short, NEW first, NEW blocks, NEW x, NEW r2, NEW ft2, NEW d2, NEW v2,
         Adds(r, ft, d, v, n, size, short, first, blocks, x, r2, ft2, d2, v2)
  PROVE  VolumeOK(Append(a, <<n, size>>), r2, ft2, d2, v2)
<1>50. PICK a2 : a2 = Append(a, <<n, size>>)
  OBVIOUS
<1>51. PICK chain : chain = first .. (first + blocks - 1)
  OBVIOUS
<1>52. /\ short = ShortName(n, v.shorts) /\ blocks = BlocksOf(size) /\ first = v.next
       /\ ~(Len(r) + 1 + Pieces(n) > RootEntries) /\ ~(size > 0 /\ first + blocks > Clusters + FirstData)
  BY DEF Adds
<1>53. x = [kind |-> "short", short |-> short, first |-> IF size = 0 THEN 0 ELSE first, size |-> size]
  BY DEF Adds
<1>54. r2 = r \o LongEntries(n, short) \o <<x>>
  BY DEF Adds
<1>55. ft2 = [c \in DOMAIN ft |-> IF c \notin chain THEN ft[c] ELSE IF c = first + blocks - 1 THEN Eoc ELSE c + 1]
  BY <1>51, Zenon DEF Adds
<1>56. d2 = [c \in DOMAIN d |->
         IF c \notin chain THEN d[c]
         ELSE [name |-> n.text, from |-> (c - first + 1) * ClusterBytes - ClusterBytes,
               to |-> IF (c - first + 1) * ClusterBytes < size THEN (c - first + 1) * ClusterBytes ELSE size]]
  BY <1>51, Zenon DEF Adds
<1>57. v2 = [v EXCEPT !.next = first + blocks, !.shorts = v.shorts \cup {short}]
  BY DEF Adds
<1>1. /\ a \in Seq(LongNames \X Sizes)
      /\ r \in Seq(Slot) /\ Len(r) \in 1..RootEntries /\ r[Len(r)].kind # "long"
      /\ ft \in [0..(Clusters + 1) -> {Eoc} \cup 0..(Clusters + 1)]
      /\ DOMAIN d = ClusterIds /\ \A c \in ClusterIds : d[c].to - d[c].from <= ClusterBytes
      /\ v \in [next : FirstData..(Clusters + FirstData), shorts : SUBSET Shorts, failed : BOOLEAN]
      /\ IsFiniteSet(v.shorts) /\ Cardinality(v.shorts) = Len(a)
      /\ Cardinality(ShortsIn(r)) = Len(a)
      /\ \A s \in ShortsIn(r) : \E i \in DOMAIN a : HoldsIn(r, ft, d, v.next, s, a[i])
      /\ \A i \in DOMAIN a : \E s \in ShortsIn(r) : HoldsIn(r, ft, d, v.next, s, a[i])
  BY DEF VolumeOK
<1>2. /\ Clusters \in Nat \ {0} /\ ClusterBytes \in Nat \ {0} /\ RootEntries \in Nat \ {0} /\ size \in Nat
  BY SeedAssumption
<1>3. short \in Shorts \ v.shorts
  BY <1>1, <1>52, ShortNameFacts
<1>4. blocks \in Nat /\ (blocks = 0 <=> size = 0)
  BY <1>2, <1>52, BlocksFacts
<1>5. first \in Nat /\ first >= FirstData /\ first + blocks <= Clusters + FirstData
  <2>1. first \in FirstData..(Clusters + FirstData)
    BY <1>1, <1>52
  <2> QED
    BY <1>2, <1>4, <1>52, <2>1 DEF FirstData
<1> DEFINE l == LongEntries(n, short)
           p == Pieces(n)
           m == Len(r)
<1>6. /\ l \in Seq(Slot) /\ Len(l) = p /\ p \in Nat \ {0}
      /\ \A k \in 1..p : (p - k) + 1 \in 1..p
           /\ l[(p - k) + 1] = LongSlot(k, p, n.text, short)
  BY <1>3, LongEntriesFacts
<1>7. x \in Slot /\ x.kind = "short" /\ x.short = short /\ x.size = size /\ x.first = (IF size = 0 THEN 0 ELSE first)
  <2>1. PICK at : at = IF size = 0 THEN 0 ELSE first
    OBVIOUS
  <2>2. at \in Nat
    BY <1>5, <2>1
  <2>3. x = [kind |-> "short", short |-> short, first |-> at, size |-> size]
    BY <1>53, <2>1
  <2> QED
    BY <1>3, <2>1, <2>2, <2>3 DEF Slot
<1> HIDE DEF l, p
<1>8. /\ r2 \in Seq(Slot) /\ Len(r2) = m + p + 1 /\ m \in Nat \ {0}
      /\ \A i \in 1..m : r2[i] = r[i]
      /\ \A j \in 1..p : r2[m + j] = l[j]
      /\ r2[m + p + 1] = x
  <2>1. r2 = r \o l \o <<x>>
    BY <1>54 DEF l
  <2>2. m \in Nat \ {0}
    BY <1>1
  <2>3. l \in Seq(Slot) /\ r \in Seq(Slot) /\ x \in Slot
    BY <1>1, <1>6, <1>7
  <2>4. /\ r2 \in Seq(Slot) /\ Len(r2) = Len(r) + Len(l) + 1
        /\ \A i \in 1..Len(r) : r2[i] = r[i]
        /\ \A j \in 1..Len(l) : r2[Len(r) + j] = l[j]
        /\ r2[Len(r) + Len(l) + 1] = x
    BY <2>1, <2>3, RootGrown
  <2>5. Len(l) = p
    BY <1>6
  <2> QED
    BY <2>2, <2>4, <2>5
<1>40. p \in Nat \ {0} /\ m \in Nat \ {0}
  BY <1>6, <1>8
<1>41. /\ Clusters \in Nat \ {0} /\ first \in Nat /\ first >= 2 /\ blocks \in Nat
       /\ first + blocks <= Clusters + 2
  BY <1>2, <1>4, <1>5 DEF FirstData
<1>9. \A k \in 1..p : r2[m + (p - k) + 1] = LongSlot(k, p, n.text, short)
  <2> SUFFICES ASSUME NEW k \in 1..p
               PROVE  r2[m + (p - k) + 1]
                        = LongSlot(k, p, n.text, short)
    OBVIOUS
  <2>1. (p - k) + 1 \in 1..p /\ m + (p - k) + 1 = m + ((p - k) + 1)
    <3> HIDE DEF m
    <3> QED  BY <1>40
  <2>2. r2[m + ((p - k) + 1)] = l[(p - k) + 1]
    BY <1>8, <2>1
  <2> QED
    BY <1>6, <2>1, <2>2
<1>10. LongIn(r2, m + p + 1) = {n.text}
  <2>1. r2[m].kind # "long" /\ r2[m + p + 1].short = short
    <3>1. m \in 1..m
      BY <1>8
    <3> QED
      BY <1>1, <1>7, <1>8, <3>1
  <2>2. r2 \in Seq(Slot)
    BY <1>8
  <2> HIDE DEF m
  <2>3. Named(r2, m, p, short, n.text)
    BY <1>9 DEF Named
  <2> QED
    BY <1>40, <2>1, <2>2, <2>3, LongIsRead
<1>11. ShortsIn(r2) = ShortsIn(r) \cup {m + p + 1} /\ m + p + 1 \notin ShortsIn(r)
       /\ \A s \in ShortsIn(r) : s \in 1..m
  <2>1. DOMAIN r = 1..m /\ DOMAIN r2 = 1..(m + p + 1)
    BY <1>1, <1>8
  <2>2. \A i \in 1..(m + p + 1) : i \in 1..m \/ i = m + p + 1 \/ (i \in (m + 1)..(m + p))
    <3> HIDE DEF m
    <3> QED  BY <1>40
  <2>3. ASSUME NEW i \in (m + 1)..(m + p) PROVE r2[i].kind = "long"
    <3>1. PICK k : k = m + p + 1 - i
      OBVIOUS
    <3>2. k \in 1..p /\ m + (p - k) + 1 = i
      <4> HIDE DEF m
      <4> QED  BY <1>40, <3>1
    <3>3. r2[i] = LongSlot(k, p, n.text, short)
      BY <1>9, <3>2
    <3>4. PICK z : z = (k = p)
      OBVIOUS
    <3>5. r2[i] = [kind |-> "long", ordinal |-> k, last |-> z, text |-> n.text, sum |-> short]
      BY <3>3, <3>4 DEF LongSlot
    <3> HIDE DEF m
    <3>6. PICK e : e = r2[i]
      OBVIOUS
    <3>7. e = [kind |-> "long", ordinal |-> k, last |-> z, text |-> n.text, sum |-> short]
      BY <3>5, <3>6
    <3>8. e.kind = "long"
      BY <3>7
    <3> QED
      BY <3>6, <3>8
  <2>4. \A i \in 1..m : i \in 1..(m + p + 1) /\ i # m + p + 1 /\ r2[i] = r[i]
    <3>1. \A i \in 1..m : r2[i] = r[i]
      BY <1>8
    <3> HIDE DEF m
    <3> QED  BY <1>40, <3>1
  <2>5. m + p + 1 \in 1..(m + p + 1) /\ r2[m + p + 1].kind = "short"
    <3>1. r2[m + p + 1] = x /\ x.kind = "short"
      BY <1>7, <1>8
    <3> HIDE DEF m
    <3>2. m + p + 1 \in 1..(m + p + 1)
      BY <1>40
    <3> QED
      BY <3>1, <3>2
  <2> HIDE DEF m
  <2> QED
    BY <2>1, <2>2, <2>3, <2>4, <2>5 DEF ShortsIn
<1>12. \A c \in FirstData..(first - 1) : ft2[c] = ft[c] /\ d2[c] = d[c]
  <2> SUFFICES ASSUME NEW c \in FirstData..(first - 1) PROVE ft2[c] = ft[c] /\ d2[c] = d[c]
    OBVIOUS
  <2>1. c \notin chain
    BY <1>41, <1>51 DEF FirstData
  <2>2. c \in ClusterIds /\ c \in 0..(Clusters + 1)
    BY <1>41 DEF ClusterIds, FirstData
  <2> QED
    BY <1>1, <1>55, <1>56, <2>1, <2>2
<1>13. /\ v2.next = first + blocks /\ v2.shorts = v.shorts \cup {short}
       /\ v2 \in [next : FirstData..(Clusters + FirstData), shorts : SUBSET Shorts, failed : BOOLEAN]
  <2>1. first + blocks \in FirstData..(Clusters + FirstData) /\ v.shorts \cup {short} \in SUBSET Shorts
    BY <1>1, <1>2, <1>3, <1>4, <1>5 DEF FirstData
  <2> QED
    BY <1>1, <1>57, <2>1
<1>14. /\ a2 \in Seq(LongNames \X Sizes) /\ Len(a2) = Len(a) + 1 /\ Len(a) \in Nat /\ a2[Len(a) + 1] = <<n, size>>
       /\ DOMAIN a = 1..Len(a) /\ DOMAIN a2 = 1..(Len(a) + 1) /\ \A i \in DOMAIN a : i \in DOMAIN a2 /\ a2[i] = a[i]
       /\ \A i \in DOMAIN a : a[i][2] \in Nat
  <2>1. <<n, size>> \in LongNames \X Sizes
    OBVIOUS
  <2>2. \A i \in DOMAIN a : a[i] \in LongNames \X Sizes
    BY <1>1
  <2>3. \A i \in DOMAIN a : a[i][2] \in Nat
    BY <2>2, SeedAssumption
  <2> QED
    BY <1>1, <1>50, <2>1, <2>3
<1>15. ASSUME NEW s \in ShortsIn(r), NEW i \in DOMAIN a, HoldsIn(r, ft, d, first, s, a[i])
       PROVE  HoldsIn(r2, ft2, d2, first + blocks, s, a[i])
  <2>1. s \in 1..m /\ r2[s] = r[s]
    BY <1>8, <1>11
  <2>2. LongIn(r2, s) = LongIn(r, s)
    <3>1. m \in Nat /\ \A k \in 1..m : r2[k] = r[k]
      BY <1>8
    <3> HIDE DEF m
    <3> QED  BY <2>1, <3>1, LongStays
  <2>3. StoredIn(ft2, d2, first + blocks, r[s].first, a[i][1].text, a[i][2])
    <3>1. StoredIn(ft, d, first, r[s].first, a[i][1].text, a[i][2])
      BY <1>15 DEF HoldsIn
    <3>2. first + blocks \in Nat /\ first <= first + blocks /\ a[i][2] \in Nat
      BY <1>4, <1>5, <1>14
    <3>3. first \in Nat
      BY <1>5
    <3>4. PICK next : next = first + blocks
      OBVIOUS
    <3>5. PICK at, text, length : at = r[s].first /\ text = a[i][1].text /\ length = a[i][2]
      OBVIOUS
    <3>6. StoredIn(ft, d, first, at, text, length) /\ next \in Nat /\ first <= next /\ length \in Nat
      BY <3>1, <3>2, <3>4, <3>5
    <3>7. StoredIn(ft2, d2, next, at, text, length)
      BY <1>12, <3>3, <3>6, StoredStays
    <3> QED
      BY <3>4, <3>5, <3>7
  <2> QED
    BY <1>15, <2>1, <2>2, <2>3 DEF HoldsIn
<1>16. HoldsIn(r2, ft2, d2, first + blocks, m + p + 1, <<n, size>>)
  <2>1. StoredIn(ft2, d2, first + blocks, x.first, n.text, size)
    <3>1. CASE size = 0
      BY <1>7, <3>1 DEF StoredIn
    <3>2. CASE size # 0
      <4>1. x.first = first
        BY <1>7, <3>2
      <4>2. ASSUME NEW c \in first..(first + blocks - 1)
            PROVE  /\ ft2[c] = IF c = first + blocks - 1 THEN Eoc ELSE c + 1
                   /\ d2[c] = [name |-> n.text, from |-> (c - first + 1) * ClusterBytes - ClusterBytes,
                               to |-> IF (c - first + 1) * ClusterBytes < size
                                      THEN (c - first + 1) * ClusterBytes ELSE size]
        <5>1. c \in chain
          BY <1>51
        <5>2. c \in ClusterIds /\ c \in 0..(Clusters + 1)
          BY <1>41 DEF ClusterIds, FirstData
        <5> QED
          BY <1>1, <1>55, <1>56, <5>1, <5>2
      <4>3. ASSUME NEW c \in first..(first + blocks - 1)
            PROVE  /\ d2[c].name = n.text /\ d2[c].from = (c - first + 1) * ClusterBytes - ClusterBytes
                   /\ d2[c].to = IF (c - first + 1) * ClusterBytes < size THEN (c - first + 1) * ClusterBytes ELSE size
        <5>1. PICK from : from = (c - first + 1) * ClusterBytes - ClusterBytes
          OBVIOUS
        <5>2. PICK to : to = IF (c - first + 1) * ClusterBytes < size THEN (c - first + 1) * ClusterBytes ELSE size
          OBVIOUS
        <5>3. d2[c] = [name |-> n.text, from |-> from, to |-> to]
          BY <4>2, <5>1, <5>2
        <5>4. d2[c].name = n.text /\ d2[c].from = from /\ d2[c].to = to
          BY <5>3
        <5> QED
          BY <5>1, <5>2, <5>4
      <4>4. \A c \in first..(first + blocks - 1) :
              /\ ft2[c] = IF c = first + blocks - 1 THEN Eoc ELSE c + 1
              /\ d2[c].name = n.text
              /\ d2[c].from = (c - first + 1) * ClusterBytes - ClusterBytes
              /\ d2[c].to = IF (c - first + 1) * ClusterBytes < size THEN (c - first + 1) * ClusterBytes ELSE size
        BY <4>2, <4>3
      <4>5. first \in Nat /\ first >= FirstData /\ first + blocks <= first + blocks
        BY <1>41, <1>5
      <4> QED
        BY <1>52, <3>2, <4>1, <4>4, <4>5 DEF StoredIn
    <3> QED
      BY <3>1, <3>2
  <2>2. r2[m + p + 1] = x
    BY <1>8
  <2>3. <<n, size>>[1] = n /\ <<n, size>>[2] = size
    OBVIOUS
  <2> HIDE DEF m
  <2> QED
    BY <1>7, <1>10, <2>1, <2>2, <2>3 DEF HoldsIn
<1>17. /\ \A s \in ShortsIn(r2) : \E i \in DOMAIN a2 : HoldsIn(r2, ft2, d2, v2.next, s, a2[i])
       /\ \A i \in DOMAIN a2 : \E s \in ShortsIn(r2) : HoldsIn(r2, ft2, d2, v2.next, s, a2[i])
  <2>1. v.next = first /\ v2.next = first + blocks
    BY <1>13, <1>52
  <2>2. ASSUME NEW s \in ShortsIn(r2) PROVE \E i \in DOMAIN a2 : HoldsIn(r2, ft2, d2, v2.next, s, a2[i])
    <3>1. CASE s \in ShortsIn(r)
      <4>1. PICK i \in DOMAIN a : HoldsIn(r, ft, d, first, s, a[i])
        BY <1>1, <2>1, <3>1
      <4>2. HoldsIn(r2, ft2, d2, first + blocks, s, a[i])
        BY <1>15, <3>1, <4>1
      <4>3. i \in DOMAIN a2 /\ a2[i] = a[i]
        BY <1>14
      <4> QED
        BY <2>1, <4>2, <4>3
    <3>2. CASE s = m + p + 1
      <4>1. Len(a) + 1 \in DOMAIN a2 /\ a2[Len(a) + 1] = <<n, size>>
        BY <1>14
      <4> QED
        BY <1>16, <2>1, <3>2, <4>1
    <3> QED
      BY <1>11, <3>1, <3>2
  <2>3. ASSUME NEW i \in DOMAIN a2 PROVE \E s \in ShortsIn(r2) : HoldsIn(r2, ft2, d2, v2.next, s, a2[i])
    <3>1. CASE i \in DOMAIN a
      <4>1. PICK s \in ShortsIn(r) : HoldsIn(r, ft, d, first, s, a[i])
        BY <1>1, <2>1, <3>1
      <4>2. HoldsIn(r2, ft2, d2, first + blocks, s, a[i])
        BY <1>15, <3>1, <4>1
      <4>3. a2[i] = a[i] /\ s \in ShortsIn(r2)
        BY <1>11, <1>14, <3>1
      <4> QED
        BY <2>1, <4>2, <4>3
    <3>2. CASE i \notin DOMAIN a
      <4>1. i = Len(a) + 1
        BY <1>14, <3>2
      <4>2. a2[i] = <<n, size>>
        BY <1>14, <4>1
      <4>3. m + p + 1 \in ShortsIn(r2)
        BY <1>11
      <4> QED
        BY <1>16, <2>1, <4>2, <4>3
    <3> QED
      BY <3>1, <3>2
  <2> QED
    BY <2>2, <2>3
<1>18. IsFiniteSet(v2.shorts) /\ Cardinality(v2.shorts) = Len(a2)
  <2>1. IsFiniteSet(v.shorts \cup {short}) /\ Cardinality(v.shorts \cup {short}) = Cardinality(v.shorts) + 1
    BY <1>1, <1>3, FS_AddElement
  <2> QED
    BY <1>1, <1>13, <1>14, <2>1
<1>19. Cardinality(ShortsIn(r2)) = Len(a2)
  <2>1. IsFiniteSet(ShortsIn(r))
    <3>1. ShortsIn(r) \subseteq 1..m /\ 1 \in Int /\ m \in Int
      BY <1>8, <1>11
    <3>2. IsFiniteSet(1..m)
      BY <3>1, FS_Interval
    <3> QED
      BY <3>1, <3>2, FS_Subset
  <2>2. Cardinality(ShortsIn(r) \cup {m + p + 1}) = Cardinality(ShortsIn(r)) + 1
    BY <1>11, <2>1, FS_AddElement
  <2> QED
    BY <1>1, <1>11, <1>14, <2>2
<1>20. Len(r2) \in 1..RootEntries /\ r2[Len(r2)].kind # "long"
  <2>1. ~(m + 1 + p > RootEntries)
    BY <1>52 DEF p
  <2>2. Len(r2) \in 1..RootEntries
    BY <1>2, <1>6, <1>8, <2>1
  <2> QED
    BY <1>7, <1>8, <2>2
<1>21. ft2 \in [0..(Clusters + 1) -> {Eoc} \cup 0..(Clusters + 1)]
  <2>1. DOMAIN ft = 0..(Clusters + 1)
    BY <1>1
  <2>2. ASSUME NEW c \in 0..(Clusters + 1) PROVE ft2[c] \in {Eoc} \cup 0..(Clusters + 1)
    <3>1. CASE c \notin chain
      BY <1>1, <1>55, <2>1, <3>1
    <3>2. CASE c \in chain
      <4>1. c \in first..(first + blocks - 1)
        BY <1>51, <3>2
      <4>2. c # first + blocks - 1 => c + 1 \in 0..(Clusters + 1)
        BY <1>41, <4>1
      <4>3. ft2[c] = IF c = first + blocks - 1 THEN Eoc ELSE c + 1
        BY <1>55, <2>1, <3>2
      <4> QED
        BY <4>2, <4>3
    <3> QED
      BY <3>1, <3>2
  <2>3. ft2 = [c \in 0..(Clusters + 1) |-> ft2[c]]
    BY <1>55, <2>1
  <2> QED
    BY <2>2, <2>3
<1>22. DOMAIN d2 = ClusterIds /\ \A c \in ClusterIds : d2[c].to - d2[c].from <= ClusterBytes
  <2>1. ASSUME NEW c \in ClusterIds PROVE d2[c].to - d2[c].from <= ClusterBytes
    <3>1. CASE c \notin chain
      BY <1>1, <1>56, <2>1, <3>1
    <3>2. CASE c \in chain
      <4>1. PICK e : e = (c - first + 1) * ClusterBytes
        OBVIOUS
      <4>2. e \in Int
        <5>1. c \in Int /\ first \in Int
          BY <1>2, <1>5 DEF ClusterIds, FirstData
        <5> QED
          BY <1>2, <4>1, <5>1
      <4>3. PICK to : to = IF e < size THEN e ELSE size
        OBVIOUS
      <4>4. d2[c] = [name |-> n.text, from |-> e - ClusterBytes, to |-> to]
        BY <1>1, <1>56, <3>2, <4>1, <4>3
      <4>5. d2[c].to = to /\ d2[c].from = e - ClusterBytes
        BY <4>4
      <4>6. to <= e /\ to \in Int
        BY <1>2, <4>2, <4>3
      <4> QED
        BY <1>2, <4>2, <4>5, <4>6
    <3> QED
      BY <3>1, <3>2
  <2>2. DOMAIN d2 = ClusterIds
    BY <1>1, <1>56
  <2> QED
    BY <2>1, <2>2
<1> HIDE DEF m
<1>23. VolumeOK(a2, r2, ft2, d2, v2)
  BY <1>8, <1>13, <1>14, <1>17, <1>18, <1>19, <1>20, <1>21, <1>22 DEF VolumeOK
<1> QED
  BY <1>50, <1>23

-----------------------------------------------------------------------------
(* The state.                                                                *)

\* Of the FAT volume what VolumeOK says, of the ISO image what the property says.
SeedInv ==
  /\ VolumeOK(added, root, fat, data, volume)
  /\ IsoOK /\ iso.sectors \in Nat

LEMMA SeedInvStep == SeedInv /\ [SeedNext]_seedVars => SeedInv'
<1> SUFFICES ASSUME SeedInv, [SeedNext]_seedVars PROVE SeedInv'
  OBVIOUS
<1>1. ASSUME NEW n \in LongNames, NEW size \in Sizes, AddFile(n, size) PROVE SeedInv'
  <2>1. PICK short : short = ShortName(n, volume.shorts)
    OBVIOUS
  <2>2. PICK first, blocks : first = volume.next /\ blocks = BlocksOf(size)
    OBVIOUS
  <2>3. PICK x : x = [kind |-> "short", short |-> short, first |-> IF size = 0 THEN 0 ELSE first, size |-> size]
    OBVIOUS
  <2>4. ~(Len(root) + 1 + Pieces(n) > RootEntries) /\ ~(size > 0 /\ first + blocks > Clusters + FirstData)
    BY <1>1, <2>2 DEF AddFile, RootIsFull, DataIsFull
  <2>5. root' = root \o LongEntries(n, short) \o <<x>>
    BY <1>1, <2>1, <2>2, <2>3 DEF AddFile
  <2>6. fat' = [c \in DOMAIN fat |-> IF c \notin first .. (first + blocks - 1) THEN fat[c]
                                     ELSE IF c = first + blocks - 1 THEN Eoc ELSE c + 1]
    BY <1>1, <2>2, Zenon DEF AddFile
  <2>7. data' = [c \in DOMAIN data |->
          IF c \notin first .. (first + blocks - 1) THEN data[c]
          ELSE [name |-> n.text, from |-> (c - first + 1) * ClusterBytes - ClusterBytes,
                to |-> IF (c - first + 1) * ClusterBytes < size THEN (c - first + 1) * ClusterBytes ELSE size]]
    BY <1>1, <2>2, Zenon DEF AddFile
  <2>8. volume' = [volume EXCEPT !.next = first + blocks, !.shorts = volume.shorts \cup {short}]
    BY <1>1, <2>1, <2>2 DEF AddFile
  <2>9. Adds(root, fat, data, volume, n, size, short, first, blocks, x, root', fat', data', volume')
    BY <2>1, <2>2, <2>3, <2>4, <2>5, <2>6, <2>7, <2>8, Zenon DEF Adds
  <2>10. added' = Append(added, <<n, size>>) /\ iso' = iso
    BY <1>1 DEF AddFile
  <2>11. VolumeOK(added, root, fat, data, volume)
    BY DEF SeedInv
  <2>12. VolumeOK(added', root', fat', data', volume')
    <3>1. PICK r2, ft2, d2, v2 : r2 = root' /\ ft2 = fat' /\ d2 = data' /\ v2 = volume'
      OBVIOUS
    <3>2. Adds(root, fat, data, volume, n, size, short, first, blocks, x, r2, ft2, d2, v2)
      BY <2>9, <3>1
    <3>3. VolumeOK(Append(added, <<n, size>>), r2, ft2, d2, v2)
      BY <2>11, <3>2, FileIsAdded
    <3> QED
      BY <2>10, <3>1, <3>3
  <2> QED
    BY <2>10, <2>12 DEF SeedInv, IsoOK, ParseIso
<1>2. ASSUME NEW n \in LongNames, NEW size \in Sizes, RefuseFile(n, size) PROVE SeedInv'
  <2>1. volume' = [volume EXCEPT !.failed = TRUE] /\ UNCHANGED <<added, root, fat, data, iso>>
    BY <1>2 DEF RefuseFile
  <2>2. VolumeOK(added, root, fat, data, volume)
    BY DEF SeedInv
  <2>3. volume \in [next : FirstData..(Clusters + FirstData), shorts : SUBSET Shorts, failed : BOOLEAN]
    BY <2>2 DEF VolumeOK
  <2>4. /\ volume' \in [next : FirstData..(Clusters + FirstData), shorts : SUBSET Shorts, failed : BOOLEAN]
        /\ volume'.next = volume.next /\ volume'.shorts = volume.shorts
    BY <2>1, <2>3
  <2>5. VolumeOK(added', root', fat', data', volume')
    BY <2>1, <2>2, <2>4 DEF VolumeOK
  <2> QED
    BY <2>1, <2>5 DEF SeedInv, IsoOK, ParseIso
<1>3. ASSUME NEW files \in IsoFiles, BuildIso(files) PROVE SeedInv'
  <2>1. IsoOK' /\ iso'.sectors \in Nat
    BY <1>3, IsoIsRead
  <2>2. UNCHANGED <<added, root, fat, data, volume>>
    BY <1>3 DEF BuildIso
  <2> QED
    BY <2>1, <2>2 DEF SeedInv
<1>4. CASE UNCHANGED seedVars
  BY <1>4 DEF SeedInv, IsoOK, ParseIso, seedVars
<1> QED
  BY <1>1, <1>2, <1>3, <1>4 DEF SeedNext

LEMMA SeedInvHolds == SeedSpec => []SeedInv
<1>1. SeedInit => SeedInv
  <2>1. SeedInit => iso = NoIso /\ iso.sectors \in Nat
    BY DEF SeedInit, NoIso
  <2> QED
    BY <2>1, VolumeInit DEF SeedInv, IsoOK
<1> QED
  BY <1>1, SeedInvStep, PTL DEF SeedSpec

LEMMA SeedInvReads == SeedInv => SeedReadsBack
<1> SUFFICES ASSUME SeedInv PROVE SeedReadsBack
  OBVIOUS
<1>1. VolumeOK(added, root, fat, data, volume) /\ IsoOK
  BY DEF SeedInv
<1>2. /\ added \in Seq(LongNames \X Sizes)
      /\ Cardinality(volume.shorts) = Len(added) /\ Cardinality(ShortSlots) = Len(added)
      /\ volume.next \in Nat /\ volume.next <= Clusters + 2
      /\ \A s \in ShortSlots : \E i \in DOMAIN added : HoldsIn(root, fat, data, volume.next, s, added[i])
      /\ \A i \in DOMAIN added : \E s \in ShortSlots : HoldsIn(root, fat, data, volume.next, s, added[i])
  <2>1. ShortSlots = ShortsIn(root)
    BY DEF ShortSlots, ShortsIn
  <2>2. volume.next \in FirstData..(Clusters + FirstData)
    BY <1>1 DEF VolumeOK
  <2>3. volume.next \in Nat /\ volume.next <= Clusters + 2
    BY <2>2, SeedAssumption DEF FirstData
  <2> QED
    BY <1>1, <2>1, <2>3 DEF VolumeOK
<1>3. \A s : LongNameAt(s) = LongIn(root, s)
  BY DEF LongNameAt, LongIn
<1>4. ToSet(added) = {added[i] : i \in DOMAIN added}
  BY DEF ToSet
<1>5. \A s \in ShortSlots : \E f \in ToSet(added) : LongNameAt(s) = {f[1].text} /\ root[s].size = f[2]
  BY <1>2, <1>3, <1>4 DEF HoldsIn
<1>6. ASSUME NEW f \in ToSet(added) PROVE \E s \in ShortSlots : LongNameAt(s) = {f[1].text} /\ root[s].size = f[2]
  <2>1. PICK i \in DOMAIN added : f = added[i]
    BY <1>4
  <2>2. PICK s \in ShortSlots : HoldsIn(root, fat, data, volume.next, s, f)
    BY <1>2, <2>1
  <2>3. LongNameAt(s) = {f[1].text} /\ root[s].size = f[2]
    BY <1>3, <2>2 DEF HoldsIn
  <2> QED
    BY <2>3
<1>7. {<<LongNameAt(s), root[s].size>> : s \in ShortSlots} = {<<{f[1].text}, f[2]>> : f \in ToSet(added)}
  <2> HIDE DEF ShortSlots, LongNameAt, ToSet
  <2> QED  BY <1>5, <1>6
<1>8. ASSUME NEW s \in ShortSlots, NEW text \in LongNameAt(s) PROVE Tiles(ChainFrom(root[s].first), text, root[s].size)
  <2>1. PICK i \in DOMAIN added : HoldsIn(root, fat, data, volume.next, s, added[i])
    BY <1>2
  <2>2. /\ LongNameAt(s) = {added[i][1].text} /\ root[s].size = added[i][2]
        /\ StoredIn(fat, data, volume.next, root[s].first, added[i][1].text, added[i][2])
    BY <1>3, <2>1 DEF HoldsIn
  <2>3. text = added[i][1].text
    BY <1>8, <2>2
  <2>4. added[i][2] \in Nat
    <3>1. added[i] \in LongNames \X Sizes
      BY <1>2
    <3> QED
      BY <3>1, SeedAssumption
  <2>5. PICK first, size : first = root[s].first /\ size = root[s].size
    OBVIOUS
  <2>6. StoredIn(fat, data, volume.next, first, text, size) /\ size \in Nat
    BY <2>2, <2>3, <2>4, <2>5
  <2>7. Tiles(ChainFrom(first), text, size)
    BY <1>2, <2>6, StoredIsRead
  <2> QED
    BY <2>5, <2>7
<1> QED
  BY <1>1, <1>2, <1>7, <1>8 DEF SeedReadsBack, IsoOK

\* SeedReadsBack, for every volume and every set of names and sizes: what build_fat16_image
\* and build_iso write is read as the files they were given (fat.rs, iso.rs).
THEOREM SeedIsReadBack == SeedSpec => []SeedReadsBack
BY SeedInvHolds, SeedInvReads, PTL

\* SeedTypeOK: the directory and the clusters never outgrow the volume.
THEOREM SeedTypes == SeedSpec => []SeedTypeOK
<1>1. SeedInv => SeedTypeOK
  <2> SUFFICES ASSUME SeedInv PROVE SeedTypeOK
    OBVIOUS
  <2>1. VolumeOK(added, root, fat, data, volume) /\ iso.sectors \in Nat
    BY DEF SeedInv
  <2>2. Len(root) <= RootEntries
    BY <2>1, SeedAssumption DEF VolumeOK
  <2> QED
    BY <2>1, <2>2 DEF VolumeOK, SeedTypeOK
<1> QED
  BY <1>1, SeedInvHolds, PTL
=============================================================================
