----------------------------- MODULE BootPrefix -----------------------------
(***************************************************************************)
(* Where one boot ends and the next begins, for the log files:             *)
(* BootLogBoundaryDetector of src/sermcp/src/boot_detector.rs.  It looks   *)
(* at finished lines only and remembers what the last firmware line was,   *)
(* so that the two prefixes of one boot, DDR and SPL, are cut once.        *)
(***************************************************************************)

\* The last firmware line seen; "unknown" after expect_boot().
PrefixPhases == {"unknown", "ddr", "spl", "later"}

\* A line of this kind starts an archive.
CutsBefore(phase, line) ==
    \/ line = "ddr" /\ phase # "ddr"
    \/ line = "spl" /\ phase \in {"unknown", "later"}

PhaseAfter(phase, line) ==
    CASE line \in {"ddr", "spl"} -> line
      [] line \in {"loader", "kernel"} -> "later"
      [] OTHER -> phase

=============================================================================
