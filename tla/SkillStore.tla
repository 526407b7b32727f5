----------------------------- MODULE SkillStore -----------------------------
(***************************************************************************)
(* memory/skill_store.py, with the background task of                      *)
(* memory/skill_learning.py that feeds it and the extractor of             *)
(* memory/skill_extractor.py: how learned skills enter the skills corpus.  *)
(*                                                                         *)
(* After an agent's turn a learner is started and forgotten.  It awaits    *)
(* the extractor, searches the corpus for the skill (a blocking call, so   *)
(* nothing of this process runs in between), and uploads one or two files, *)
(* awaiting a thread for each.  Learners of the same and of other          *)
(* instances run side by side, and nothing locks the corpus.               *)
(*                                                                         *)
(* The corpus only ever grows: nothing deletes or replaces a file.  A file *)
(* is the text of a Skill; by names the learner that uploaded it.          *)
(***************************************************************************)
EXTENDS Naturals, FiniteSets

CONSTANTS
  Learners,    \* background learning tasks, one for each completed turn
  Skills,      \* skill ids the extractor can answer with
  NoSkill,     \* no skill
  SearchFinds, \* a search for a skill that is in the corpus finds a file of it
  Overlap      \* learners overlap; else each starts when the others have ended

ASSUME CorpusAssumption ==
  /\ NoSkill \notin Skills
  /\ SearchFinds \in BOOLEAN /\ Overlap \in BOOLEAN
  /\ IsFiniteSet(Learners)

VARIABLES
  pc,       \* pc[l]: the await at which the learner is suspended
  skill,    \* skill[l]: the id of the skill it extracted
  version,  \* version[l]: the version it is about to upload
  corpus,   \* the files of the skills corpus
  failed    \* history: an upload of the learner raised, or its process died

skillVars == <<pc, skill, version, corpus, failed>>

File == [id : Skills, version : Nat \ {0}, current : BOOLEAN, by : Learners]

PC == {"idle", "extracting", "archiving", "uploading", "ended"}

SkillTypeOK ==
  /\ pc \in [Learners -> PC]
  /\ skill \in [Learners -> Skills \cup {NoSkill}]
  /\ version \in [Learners -> Nat \ {0}]
  /\ corpus \subseteq File
  /\ failed \in [Learners -> BOOLEAN]

SkillInit ==
  /\ pc = [l \in Learners |-> "idle"]
  /\ skill = [l \in Learners |-> NoSkill]
  /\ version = [l \in Learners |-> 1]
  /\ corpus = {}
  /\ failed = [l \in Learners |-> FALSE]

Resume(l, from, to) ==
  /\ pc[l] = from
  /\ pc' = [pc EXCEPT ![l] = to]

(* The callback of a turn with a question and an answer starts a learner.  *)
Dispatch(l) ==
  /\ Resume(l, "idle", "extracting")
  /\ Overlap \/ \A m \in Learners : pc[m] \in {"idle", "ended"}
  /\ UNCHANGED <<skill, version, corpus, failed>>

(* NO_SKILL, an answer without a skill in it, an exception of the          *)
(* extractor, or no corpus configured: the learner ends.                   *)
NothingLearned(l) ==
  /\ Resume(l, "extracting", "ended")
  /\ UNCHANGED <<skill, version, corpus, failed>>

(***************************************************************************)
(* search_skills.  A file is uploaded without metadata, so the filter on   *)
(* is_current lets every file pass; the nearest ones come first, and files *)
(* of one skill are equally near.  A failed retrieval, or one that other   *)
(* files crowd out, returns none of them.                                  *)
(***************************************************************************)
Searchable == corpus

FilesOf(k) == {f \in Searchable : f.id = k}

(* upsert_skill, up to its first await.                                    *)
(* Fault: a skill that was not found gets the next version too.            *)
UpsertNewBumped(l, k) ==
  /\ FilesOf(k) = {} \/ ~SearchFinds
  /\ Resume(l, "extracting", "uploading")
  /\ version' = [version EXCEPT ![l] = 2]

UpsertNew(l, k) ==
  /\ FilesOf(k) = {} \/ ~SearchFinds
  /\ Resume(l, "extracting", "uploading")
  /\ version' = [version EXCEPT ![l] = 1]

(* Fault: the replaced version is not archived.                            *)
UpsertUnarchived(l, k) ==
  \E ex \in FilesOf(k) :
    /\ Resume(l, "extracting", "uploading")
    /\ version' = [version EXCEPT ![l] = ex.version + 1]

UpsertVersion(l, k) ==
  \E ex \in FilesOf(k) :
    /\ Resume(l, "extracting", "archiving")
    /\ version' = [version EXCEPT ![l] = ex.version + 1]

Learned(l) ==
  \E k \in Skills :
    /\ UpsertNew(l, k) \/ UpsertVersion(l, k)
    /\ skill' = [skill EXCEPT ![l] = k]
    /\ UNCHANGED <<corpus, failed>>

(***************************************************************************)
(* _upload_skill: a thread uploads one file.  An archived copy carries the *)
(* version before the learner's own.                                       *)
(***************************************************************************)
Upload(l) ==
  [id |-> skill[l],
   version |-> IF pc[l] = "archiving" THEN version[l] - 1 ELSE version[l],
   current |-> pc[l] # "archiving",
   by |-> l]

(* Fault: the coroutine returns when the old version is archived.          *)
ArchiveLandsLast(l) ==
  /\ Resume(l, "archiving", "ended")
  /\ corpus' = corpus \cup {Upload(l)}
  /\ UNCHANGED <<skill, version, failed>>

ArchiveLands(l) ==
  /\ Resume(l, "archiving", "uploading")
  /\ corpus' = corpus \cup {Upload(l)}
  /\ UNCHANGED <<skill, version, failed>>

SkillLands(l) ==
  /\ Resume(l, "uploading", "ended")
  /\ corpus' = corpus \cup {Upload(l)}
  /\ UNCHANGED <<skill, version, failed>>

(* The upload raises, or the process dies during it, before or after the   *)
(* file is in the corpus; the learner swallows the exception and ends.     *)
UploadFails(l) ==
  /\ pc[l] \in {"archiving", "uploading"}
  /\ pc' = [pc EXCEPT ![l] = "ended"]
  /\ corpus' \in {corpus, corpus \cup {Upload(l)}}
  /\ failed' = [failed EXCEPT ![l] = TRUE]
  /\ UNCHANGED <<skill, version>>

LearnerStep(l) ==
  \/ Dispatch(l) \/ NothingLearned(l) \/ Learned(l)
  \/ ArchiveLands(l) \/ SkillLands(l) \/ UploadFails(l)

SkillNext == \E l \in Learners : LearnerStep(l)

SkillSpec == SkillInit /\ [][SkillNext]_skillVars

-----------------------------------------------------------------------------
(* Properties.                                                             *)

(* A later version is in the corpus only after a copy of the one before    *)
(* was archived, wherever learners overlap, fail or die between the two    *)
(* uploads (skill_store.py:129 before :139).                               *)
ReplacedIsArchived ==
  \A f \in corpus : f.current /\ f.version > 1 =>
    \E e \in corpus : e.id = f.id /\ e.version + 1 = f.version /\ ~e.current

(* Every version up to the latest was once learned and is still there as   *)
(* current: an archived copy never stands for a skill nobody learned.      *)
NoVersionGap ==
  \A f \in corpus : \A v \in 1 .. f.version :
    \E e \in corpus : e.id = f.id /\ e.version = v /\ e.current

(* A skill that was extracted is in the corpus once its learner has ended, *)
(* unless an upload failed (skill_learning.py:151).                        *)
LearnedIsStored ==
  \A l \in Learners :
    pc[l] = "ended" /\ skill[l] # NoSkill /\ ~failed[l] =>
      \E f \in corpus : f.by = l /\ f.id = skill[l] /\ f.current

-----------------------------------------------------------------------------
(* The inductive invariant: what a learner read is still true when it      *)
(* writes, because files stay.                                             *)
LearnerInv(l) ==
  /\ pc[l] \in {"idle", "extracting"} => skill[l] = NoSkill
  /\ pc[l] \in {"archiving", "uploading"} => skill[l] \in Skills
  /\ pc[l] = "archiving" =>
       version[l] > 1 /\ \E e \in corpus : e.id = skill[l] /\ e.version + 1 = version[l]
  /\ pc[l] = "uploading" /\ version[l] > 1 =>
       \E e \in corpus : e.id = skill[l] /\ e.version + 1 = version[l] /\ ~e.current

(* The versions in the corpus are backed by older files, and so are those  *)
(* the learners are about to write.                                        *)
SkillInv ==
  /\ SkillTypeOK
  /\ \A l \in Learners : LearnerInv(l)
  /\ ReplacedIsArchived
  /\ NoVersionGap
  /\ LearnedIsStored
=============================================================================
