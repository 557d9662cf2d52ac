----------------------------- MODULE AtomicFile -----------------------------
(***************************************************************************)
(* A file replaced as a whole by world.WriteAtomic (temporary file, flush, *)
(* rename, directory flush).  Three things can come of one call:           *)
(*                                                                         *)
(*   "done"      the call returned nil: the new content is visible and     *)
(*               survives a power loss;                                    *)
(*   "unsynced"  the rename happened and the directory flush did not: the  *)
(*               call returned an error (or the process died there), the   *)
(*               new content is visible, and a power loss may still bring  *)
(*               an older one back;                                        *)
(*   "failed"    the call returned an error before the rename: nothing     *)
(*               changed.                                                  *)
(*                                                                         *)
(* A file is what its next reader sees (now) and every content a power     *)
(* loss at this moment could leave (mayBe).                                *)
(***************************************************************************)

WriteOutcomes == {"done", "unsynced", "failed"}

Files(Content) == [now : Content, mayBe : SUBSET Content]

Settled(content) == [now |-> content, mayBe |-> {content}]

Written(file, content, outcome) ==
    CASE outcome = "done"     -> Settled(content)
      [] outcome = "unsynced" -> [now |-> content, mayBe |-> file.mayBe \cup {content}]
      [] outcome = "failed"   -> file

(* What a power loss can leave in place of a file; a process that dies       *)
(* leaves it as its next reader sees it, as doubtful as it was.              *)
AfterPowerLoss(file) == {Settled(content) : content \in file.mayBe}

FilesAfter(crash, file) ==
    IF crash = "process" THEN {file} ELSE AfterPowerLoss(file)
=============================================================================
