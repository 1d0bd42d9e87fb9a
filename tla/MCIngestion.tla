---------------------------- MODULE MCIngestion ----------------------------
(***************************************************************************)
(* Three ingests after a seed.  Fresh: each brings other metadata, from    *)
(* one directory or another.  Rerun: all read the same directory, whose    *)
(* metadata may be the same and whose metrics may be other ones.  Moved:   *)
(* the same metadata from two directories.                                 *)
(***************************************************************************)
EXTENDS Ingestion, TLC

CONSTANTS i1, i2, i3, seed

MCIngesters == {i1, i2, i3}
Ingested(configs, uris, names) ==
  {f \in [Owners -> [config : configs, status : {"draft"}, source_uri : uris,
                     names : names]] :
     f[seed].config = 0 /\ f[seed].source_uri = "here"}

Fresh == {f \in Ingested(0..3, {"here", "there"}, {{"m"}}) : OwnMetadata(f)}
Rerun == Ingested(0..1, {"here"}, {{"m"}, {"n"}})
Moved == Ingested({0}, {"here", "there"}, {{"m"}})

MCInputs == Fresh \cup Rerun
ASSUME MCInputsQueue == \A f \in MCInputs : OwnMetadata(f) \/ OneDirectory(f)
MCSymmetry == Permutations(MCIngesters)
=============================================================================
