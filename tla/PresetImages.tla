---------------------------- MODULE PresetImages ----------------------------
(***************************************************************************)
(* The derived images that instances with preinstalled packages are made   *)
(* from (services/docker.rs): an image is named by a stamp of what goes    *)
(* into it and is built once; a later creation with the same stamp uses it *)
(* again.  The packages lie on the user's disk and may be replaced at any  *)
(* time, also between the stamp and the copy that is built from.           *)
(* A package is a file: of a directory with the Google packages alone the  *)
(* code looks at the directory's own size and time, not at what is in it.  *)
(***************************************************************************)
EXTENDS FiniteSets, Naturals

CONSTANTS Modules,       \* what may go with Magisk: its modules, a spoof configuration
          Builds,        \* threads that may be creating an instance
          MaxEdition,    \* bound: versions of a package
          MaxImages      \* bound: derived images
ASSUME ImagesAssumption == MaxEdition \in Nat \ {0} /\ {"gapps", "magisk"} \cap Modules = {}

Assets == {"gapps", "magisk"} \cup Modules
Editions == 1..MaxEdition

VARIABLES asset,     \* [Assets -> version on the disk, 0: none]
          images,    \* the derived images: [stamp, from]
          build      \* [Builds -> the call's locals and where it is]
imageVars == <<asset, images, build>>

\* What may be asked for: the modules and the configuration only with Magisk.
Requests == {r \in SUBSET Assets : r # {} /\ (r \cap Modules # {} => "magisk" \in r)}

Present(a) == asset[a] # 0
Contents(r) == [a \in r |-> asset[a]]

\* Everything that changes the derived image, but for the base image, whose name
\* alone goes into it.
StampOf_PackagesOnly(r) == [a \in r \ Modules |-> asset[a]]
StampOf(r) == Contents(r)

NoBuild == [at |-> "idle", request |-> {}, stamp |-> << >>, copied |-> << >>, answer |-> "none"]
Stamps == UNION {[r -> Editions] : r \in SUBSET Assets}

ImagesTypeOK ==
  /\ asset \in [Assets -> 0..MaxEdition]
  /\ \A i \in images : i.stamp \in Stamps /\ i.from \in Stamps
  /\ \A b \in Builds : /\ build[b].at \in {"idle", "stamped", "copied"}
                       /\ build[b].request \subseteq Assets
                       /\ build[b].answer \in {"none", "reused", "built", "failed"}

ImagesInit ==
  /\ asset \in [Assets -> 0..1]
  /\ images = {}
  /\ build = [b \in Builds |-> NoBuild]

ImageOf(stamp) == {i \in images : i.stamp = stamp}
Ends(b, answer) == build' = [build EXCEPT ![b] = [NoBuild EXCEPT !.answer = answer]]

-----------------------------------------------------------------------------
(* ensure_preset_image and ensure_gapps_image.                             *)

\* The packages are looked for and validated, the stamp is made of them as they are,
\* and an image that has its name is used again.
Ensure(b) ==
  /\ build[b].at = "idle"
  /\ \E r \in Requests :
       LET stamp == StampOf(r) IN
       \/ Ends(b, "failed")                             \* missing, or not fit for the image
       \/ /\ \A a \in r : Present(a)
          /\ build' = [build EXCEPT ![b] =
               IF ImageOf(stamp) # {}
               THEN [NoBuild EXCEPT !.answer = "reused", !.request = r, !.stamp = stamp]
               ELSE [NoBuild EXCEPT !.at = "stamped", !.request = r, !.stamp = stamp]]
  /\ UNCHANGED <<asset, images>>

\* prepare_preset_context copies what is there by now into a directory of its own.
Prepare(b) ==
  /\ build[b].at = "stamped"
  /\ \/ Ends(b, "failed")
     \/ /\ \A a \in build[b].request : Present(a)
        /\ build' = [build EXCEPT ![b].at = "copied", ![b].copied = Contents(build[b].request)]
  /\ UNCHANGED <<asset, images>>

\* docker build gives the image its name when it has succeeded, and takes the name from
\* another that a build of the same stamp has finished meanwhile.
Build(b) ==
  /\ build[b].at = "copied"
  /\ \/ Ends(b, "failed") /\ UNCHANGED images
     \/ /\ Cardinality(images \ ImageOf(build[b].stamp)) < MaxImages
        /\ images' = (images \ ImageOf(build[b].stamp))
                       \cup {[stamp |-> build[b].stamp, from |-> build[b].copied]}
        /\ Ends(b, "built")
  /\ UNCHANGED asset

-----------------------------------------------------------------------------
(* The user.                                                               *)

ReplaceAsset(a) ==
  /\ asset[a] < MaxEdition
  /\ asset' = [asset EXCEPT ![a] = @ + 1]
  /\ UNCHANGED <<images, build>>

RemoveDerived(i) ==
  /\ images' = images \ {i}
  /\ UNCHANGED <<asset, build>>

ImagesNext ==
  \/ \E b \in Builds : Ensure(b) \/ Prepare(b) \/ Build(b)
  \/ \E a \in Assets : ReplaceAsset(a)
  \/ \E i \in images : RemoveDerived(i)

ImagesSpec == ImagesInit /\ [][ImagesNext]_imageVars

-----------------------------------------------------------------------------
(* Properties.                                                             *)

\* An image that a creation uses again has just the packages that it asked for, as they
\* are on the disk now: whatever was replaced meanwhile, whoever built it.  A package
\* is replaced by a newer one; the base image is not promised to be current.
ReusedImagesAreCurrent ==
  [][\A b \in Builds : build'[b] # build[b] /\ build'[b].answer = "reused"
       => \E i \in images : /\ i.stamp = build'[b].stamp
                            /\ i.from = Contents(build'[b].request)]_imageVars
=============================================================================
