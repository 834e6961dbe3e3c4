------------------------------ MODULE Session ------------------------------
(***************************************************************************)
(* Runs of the program with any options on the same progress files: what   *)
(* parse_arguments makes of the command line (src/core/cmdline.c), what    *)
(* main does with the files of earlier runs before it scans                *)
(* (src/core/main.c), and the configuration file that ties the runs        *)
(* together (src/output/progress.c).  The scan and the files are those of  *)
(* ProgressRun, whose runs all have -c.                                    *)
(*                                                                         *)
(* The configuration file is the set of its lines.  A run may be killed,   *)
(* or cancelled at the prompt, and the next one may have other options and *)
(* another target.                                                         *)
(***************************************************************************)
EXTENDS ProgressRun

CONSTANTS
  Launches,   \* the command lines: path and set of options given
  NoConfig,   \* there is no configuration file
  WipeReach   \* the last slice that cleanup_progress deletes: 200, for
              \* the write_slice_index that main gives it is 0

ASSUME WipeAssumption == WipeReach \in Nat
ASSUME LaunchAssumption == \A launch \in Launches : launch.path \in Dirs

\* The lines of a configuration file, and a file is never NoConfig.
ConfigLines ==
  ({"path"} \X Dirs) \cup ({"archive"} \X BOOLEAN)
    \cup ({"status"} \X {"Success", "Running"})

ASSUME NoConfigAssumption == \A lines \in SUBSET ConfigLines : NoConfig # lines

VARIABLES
  cfg,      \* the Config of this run
  conf,     \* the configuration file
  resumed,  \* history: this run started with restore_progress
  loose     \* history: the file need not name the target of the rows: --runone
            \* left rows of another, or a kill left it empty, or it was deleted
            \* with files still there, or out of the reach of --clean

sessionVars == <<vars, cfg, conf, resumed, loose>>

(***************************************************************************)
(* init_config and parse_arguments                                         *)
(***************************************************************************)
InitConfig == [path |-> Root, continue_mode |-> FALSE, runone |-> FALSE,
               clean |-> FALSE, archive |-> FALSE, skip |-> FALSE]

Parsed(launch) ==
  [InitConfig EXCEPT
     !.path = launch.path,
     !.continue_mode = launch.given \cap {"continue", "resume-from"} # {},
     !.runone = "runone" \in launch.given,
     !.clean = "clean" \in launch.given,
     !.archive = "archive" \in launch.given,
     !.skip = "skip-interval" \in launch.given]

\* Two destinations, or an archive that is to be deleted, are refused.
Accepted(launch) ==
  /\ ~({"output", "output-split"} \subseteq launch.given)
  /\ ~({"archive", "clean"} \subseteq launch.given)

(***************************************************************************)
(* The start of a run                                                      *)
(***************************************************************************)
unscanned == <<scan, w, recBatch, pump, visited, fpb, promo, waited>>

Launch(launch) ==
  /\ mpc = "off" /\ run < MaxRuns /\ Accepted(launch)
  /\ cfg' = Parsed(launch)
  /\ archiving' = cfg'.archive
  /\ mpc' = IF cfg'.runone \/ cfg'.clean THEN "wipe-index" ELSE "load"
  /\ run' = run + 1 /\ ended' = FALSE /\ resumed' = FALSE
  /\ handed' = handed \cup Range(out) /\ out' = <<>>
  /\ UNCHANGED <<disk, conf, loose, unscanned>>

\* A step of main before the scan, from one place to the next.
At(here, next) ==
  /\ mpc = here /\ mpc' = next
  /\ UNCHANGED <<archiving, run, ended, handed, out, resumed, unscanned>>

\* MUTANT: only an archive has its slices removed.
WipeIndexKeeps ==
  /\ At("wipe-index", IF cfg.archive THEN "wipe-slices"
                      ELSE IF cfg.clean THEN "wipe-config" ELSE "wipe-fpbin")
  /\ disk' = [disk EXCEPT !.idx = NoIndex]
  /\ UNCHANGED <<cfg, conf, loose>>

\* cleanup_progress, one kind of file after the other.
WipeIndex ==
  /\ At("wipe-index", IF cfg.clean \/ cfg.archive THEN "wipe-slices" ELSE "wipe-fpbin")
  /\ disk' = [disk EXCEPT !.idx = NoIndex]
  /\ UNCHANGED <<cfg, conf, loose>>

WipeSlice ==
  LET there == {i \in DOMAIN disk.slices : i <= WipeReach} IN
  /\ IF there = {}
     THEN At("wipe-slices", IF cfg.clean THEN "wipe-archive" ELSE "wipe-fpbin")
          /\ UNCHANGED disk
     ELSE At("wipe-slices", "wipe-slices") /\ disk' = WithoutSlice(disk, Min(there))
  /\ UNCHANGED <<cfg, conf, loose>>

WipeArchive ==
  /\ At("wipe-archive", "wipe-config")
  /\ disk' = [disk EXCEPT !.archive = <<>>]
  /\ UNCHANGED <<cfg, conf, loose>>

\* Files out of the reach of --clean outlive the name of their target.
OutOfReach ==
  \/ \E i \in DOMAIN disk.slices : i > WipeReach
  \/ \E i \in DOMAIN disk.fp : i >= FpReach

WipeConfig ==
  /\ At("wipe-config", "wipe-fpbin")
  /\ conf' = NoConfig
  /\ loose' = (loose \/ OutOfReach)
  /\ UNCHANGED <<disk, cfg>>

WipeFpbin ==
  /\ At("wipe-fpbin", IF cfg.runone THEN "confirm" ELSE "load")
  /\ disk' = WithoutFp(disk, FpReach)
  /\ cfg' = [cfg EXCEPT !.continue_mode = FALSE]
  /\ UNCHANGED <<conf, loose>>

Lines == IF conf = NoConfig THEN {} ELSE conf

\* MUTANT: the path is not compared.
AgreesOnArchive == \A line \in Lines : line[1] = "archive" => line[2] = cfg.archive

\* load_session_config: any run before, ended or not, is continued.
Agrees ==
  \A line \in Lines :
    /\ line[1] = "path" => line[2] = cfg.path
    /\ line[1] = "archive" => line[2] = cfg.archive

LoadConfig ==
  /\ At("load", "confirm")
  /\ Agrees
  /\ cfg' = [cfg EXCEPT !.continue_mode =
               @ \/ {<<"status", "Success">>, <<"status", "Running">>} \cap Lines # {}]
  /\ UNCHANGED <<disk, conf, loose>>

\* What is left of history for a run that looks for it.
History == ~cfg.runone /\ conf # NoConfig

\* interactive_confirm, and what main decides after it.
Confirm ==
  /\ At("confirm", IF (~cfg.continue_mode \/ ~History) /\ ~cfg.clean
                   THEN "save" ELSE "begin")
  /\ UNCHANGED <<disk, cfg, conf, loose>>

\* save_config_to_disk: the file is emptied first.
Truncate ==
  /\ At("save", "write")
  /\ conf' = {}
  /\ loose' = (loose \/ (cfg.runone /\ conf # NoConfig))
  /\ UNCHANGED <<disk, cfg>>

WriteConfig ==
  /\ At("write", "begin")
  /\ conf' = {<<"path", cfg.path>>, <<"archive", cfg.archive>>,
              <<"status", "Running">>}
  /\ UNCHANGED <<disk, cfg, loose>>

\* The last run ended, so its rows are only a reference.
ByReference ==
  cfg.continue_mode /\ cfg.skip /\ <<"status", "Success">> \in Lines

\* MUTANT: the rows of a reference go into visited_set.
AfreshKnown ==
  /\ visited' = Loaded /\ w' = NoWriter /\ recBatch' = NewBatch
  /\ fpb' = NoFp /\ pump' = NoPump /\ mpc' = "drain"
  /\ UNCHANGED disk

Afresh ==
  /\ visited' = {} /\ w' = NoWriter /\ recBatch' = NewBatch
  /\ fpb' = NoFp /\ pump' = NoPump /\ mpc' = "drain"
  /\ UNCHANGED disk

Begin ==
  /\ mpc = "begin"
  /\ resumed' = (cfg.continue_mode /\ ~ByReference)
  /\ IF resumed' THEN Restore ELSE Afresh
  /\ scan' = [NoScan EXCEPT !.todo = {cfg.path}]
  /\ UNCHANGED <<archiving, ended, out, promo, run, handed, waited, cfg, conf,
                 loose>>

Opening ==
  \/ WipeIndex \/ WipeSlice \/ WipeArchive \/ WipeConfig \/ WipeFpbin
  \/ LoadConfig \/ Confirm \/ Truncate \/ WriteConfig \/ Begin

(***************************************************************************)
(* The scan and the end of a run                                           *)
(***************************************************************************)

\* Without continue_mode an entry is sent and put into out_batch, but not recorded.
Listed ==
  /\ InBatch
  /\ scan' = [Rest EXCEPT !.todo = @ \cup ({NextEntry} \cap Dirs)]
  /\ out' = Append(out, NextEntry)
  /\ UNCHANGED <<mpc, disk, w, recBatch, pump, visited, fpb, promo, waited>>

ListOnly ==
  \/ \E d \in Dirs : TakeBatch(d)
  \/ DirWaits \/ Listed \/ BatchEnd

\* finalize_progress: with --clean there is no index and no status.
FinishClean ==
  /\ cfg.clean /\ mpc = "index"
  /\ mpc' = "end"
  /\ UNCHANGED <<archiving, disk, scan, ended, out, w, recBatch, pump>>

Finish ==
  /\ mpc = "end"
  /\ ended' = TRUE
  /\ conf' = IF cfg.clean THEN conf ELSE Lines \cup {<<"status", "Success">>}
  /\ Gone /\ UNCHANGED <<archiving, disk, cfg, resumed, loose>>

Scanning ==
  /\ \/ /\ FinishClean \/ (Store /\ ~(cfg.clean /\ mpc = "index"))
        /\ UNCHANGED <<visited, fpb, promo, run, handed, waited>>
     \/ Pump /\ UNCHANGED <<run, handed, waited>>
     \/ /\ (cfg.continue_mode /\ Batch) \/ (~cfg.continue_mode /\ ListOnly) \/ Loop
        /\ UNCHANGED history
  /\ UNCHANGED <<cfg, conf, resumed, loose>>

\* exit(1) on the files of another session, exit(0) at the prompt, or a kill.
Refuse == mpc = "load" /\ ~Agrees

Leave ==
  /\ Refuse \/ mpc = "confirm"
  /\ Gone /\ UNCHANGED <<disk, ended>>
  /\ cfg' = InitConfig /\ archiving' = FALSE
  /\ UNCHANGED <<conf, resumed, loose>>

Kill ==
  /\ Crash
  /\ cfg' = InitConfig /\ resumed' = FALSE
  /\ loose' = (loose \/ mpc = "write" \/ (cfg.clean /\ mpc = "wipe-fpbin"))
  /\ UNCHANGED conf

SessionInit ==
  /\ Init
  /\ cfg = InitConfig /\ conf = NoConfig /\ resumed = FALSE /\ loose = FALSE

Background ==
  /\ Stdio \/ \E d \in Dirs : ScanDone(d)
  /\ UNCHANGED <<cfg, conf, resumed, loose>>

SessionNext ==
  \/ \E launch \in Launches : Launch(launch)
  \/ Opening \/ Scanning \/ Finish \/ Leave \/ Kill \/ Background

\* The user answers the prompt; starts, kills and stdio need not happen.
SessionSpec ==
  /\ SessionInit /\ [][SessionNext]_sessionVars
  /\ WF_sessionVars(Opening \/ Scanning \/ Finish \/ Leave)
  /\ \A d \in DOMAIN Entries :
       WF_sessionVars(ScanDone(d) /\ UNCHANGED <<cfg, conf, resumed, loose>>)

(***************************************************************************)
(* Properties                                                              *)
(***************************************************************************)
Below[d \in Dirs] ==
  Range(Entries[d]) \cup (UNION {Below[e] : e \in Range(Entries[d]) \cap Dirs})

\* A run that did not resume - the first one, --runone, --clean, or one with
\* a reference - lists its whole target when it ends, whatever the runs before
\* it left in the files (directories that had to wait apart).
AfreshComplete ==
  ended /\ ~resumed => Below[cfg.path] \subseteq Range(out) \cup waited

\* With -c and an archive, the files and what is still in memory hold the listing of
\* the first run, in order and without a gap, at every moment of a rotation.
RecordIsListing ==
  run = 1 /\ cfg.continue_mode /\ archiving /\ (mpc # "off" \/ ended) =>
    out = FlattenSeq(disk.archive)
          \o (IF w.index \in DOMAIN disk.slices /\ mpc # "unlink"
              THEN disk.slices[w.index].rows ELSE <<>>)
          \o w.buf
          \o (IF mpc \in {"batch", "drain", "pump", "check", "flush"} \/ Finishing
              THEN recBatch ELSE Tail(recBatch))

\* The configuration file keeps the progress of two targets apart: a run lists
\* and takes for known only what is below its own, unless --runone left rows
\* of another one behind, or a kill, or a --clean that does not reach them all,
\* rows without the name of their target.
TargetsApart ==
  mpc # "off" /\ ~loose =>
    Range(out) \cup visited \subseteq Below[cfg.path] \cup {cfg.path}

\* After a run with --clean that ends there is no progress file but those beyond
\* its reach, whatever the runs before it left and wherever they were killed.
\* (README-BDD.md:745 asks for no file at all.)
CleanLeavesOnlyFar ==
  ended /\ cfg.clean =>
    /\ conf = NoConfig
    /\ disk.idx = NoIndex /\ disk.fpidx = NoIndex /\ disk.archive = <<>>
    /\ \A i \in DOMAIN disk.slices : i > WipeReach
    /\ \A i \in DOMAIN disk.fp : i >= FpReach

\* A run that ends leaves nothing below its target unlisted, however many runs
\* were killed before it (directories that had to wait apart).
ResumeComplete ==
  ended => Below[cfg.path] \subseteq handed \cup Range(out) \cup waited
=============================================================================
