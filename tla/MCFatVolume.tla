-------------------------------- MODULE MCFatVolume --------------------------------
(***************************************************************************)
(* The cards for the run of FatVolume: both kinds of FAT, one and two      *)
(* copies of it, a volume that is the whole card or a partition; nothing   *)
(* on it, no room in the root directory, no room at all, a log that ends   *)
(* inside a sector, at the end of a sector or of a cluster, with clusters  *)
(* behind its end, with the free clusters before it; four for sd_task.     *)
(***************************************************************************)
EXTENDS FatVolume

Empty == [task |-> "logger_task", fs_type |-> "FAT16", n_fats |-> 1, start |-> 0,
          taken |-> <<>>, others |-> 0, dir |-> 0, chain |-> <<>>, size |-> 0,
          known |-> FALSE, hint |-> MaxDword]
Fat32 == [Empty EXCEPT !.fs_type = "FAT32", !.known = TRUE, !.hint = 2]

OneShot(card) == [card EXCEPT !.task = "sd_task"]

MCCards ==
  {[Empty EXCEPT !.n_fats = 2, !.start = 1],
   [Empty EXCEPT !.others = 2],                             \* the root is full
   [Empty EXCEPT !.taken = [i \in 1 .. Clusters |-> i + 1]],
   [Empty EXCEPT !.dir = 3, !.chain = <<4>>, !.size = 7],
   [Empty EXCEPT !.dir = 3, !.chain = <<4>>, !.size = 8, !.taken = <<5>>],
   [Empty EXCEPT !.dir = 2, !.chain = <<5, 3>>, !.size = 4, !.n_fats = 2],
   Fat32,
   [Fat32 EXCEPT !.n_fats = 2, !.others = 4],               \* the root is stretched
   [Fat32 EXCEPT !.others = 4,                              \* ... but there is no room
                 !.taken = [i \in 1 .. Clusters - 2 |-> i + 2]],
   [Fat32 EXCEPT !.dir = 3, !.chain = <<4>>, !.size = 7, !.taken = <<5, 6>>, !.start = 1],
   [Fat32 EXCEPT !.dir = 5, !.chain = <<6>>, !.size = 8, !.taken = <<3>>, !.hint = 6],
   [Fat32 EXCEPT !.dir = 3, !.chain = <<6, 4>>, !.size = 7, !.n_fats = 2],
   OneShot([Empty EXCEPT !.others = 2]),
   OneShot([Empty EXCEPT !.n_fats = 2, !.chain = <<5>>, !.size = 7]),
   OneShot([Fat32 EXCEPT !.others = 4]),
   OneShot([Fat32 EXCEPT !.chain = <<6>>, !.size = 8, !.taken = <<3>>])}
================================================================================
