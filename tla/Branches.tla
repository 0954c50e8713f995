------------------------------ MODULE Branches ------------------------------
(* The TimelineBranchManager of timeline_branching.rs, behind its lock: each   *)
(* request of tools/replay.rs is one action.  A branch is a set of layers of   *)
(* modifications over the frames of a base recording, and a cache of the       *)
(* frames it has computed.  A recording is its number.                         *)
EXTENDS Naturals, FiniteSets

CONSTANTS
  FrameNumbers, \* the frames of a recording
  Mods,         \* the modifications of a layer
  MaxBranches,  \* bound on the branches that are ever made
  MaxLoads      \* bound on the recordings that are loaded

BranchesAssumption ==
  FrameNumbers \subseteq Nat /\ MaxBranches \in Nat /\ MaxLoads \in Nat

BranchIds == 1..MaxBranches
NoBranch == 0
BranchMetadata == [parent_id : BranchIds \cup {NoBranch}]

VARIABLES
  branches,     \* the ids of the branches
  made,         \* how many have been made; the ids are never used again
  parent,       \* [id -> parent id, or NoBranch]
  master,       \* master_branch_id, or NoBranch
  active,       \* active_branch_id, or NoBranch
  base,         \* the base recording, or 0
  layers,       \* [id -> [frame -> modification]], the modification_layers
  frames        \* [id -> [frame -> what was computed]], the modified_frames

branchVars == <<branches, made, parent, master, active, base, layers, frames>>

Init ==
  /\ branches = {} /\ made = 0 /\ parent = [b \in BranchIds |-> NoBranch]
  /\ master = NoBranch /\ active = NoBranch
  /\ base = 0 /\ layers = [b \in BranchIds |-> << >>] /\ frames = [b \in BranchIds |-> << >>]

Updated(f, k, v) == [x \in DOMAIN f \cup {k} |-> IF x = k THEN v ELSE f[x]]
UpTo(f, n) == [k \in {k \in DOMAIN f : k <= n} |-> f[k]]

set_base_recording ==
  /\ base < MaxLoads /\ base' = base + 1
  /\ IF master # NoBranch THEN UNCHANGED <<branches, made, master>>
     ELSE /\ made < MaxBranches /\ made' = made + 1
          /\ master' = made' /\ branches' = branches \cup {made'}
  /\ UNCHANGED <<parent, active, layers, frames>>

(* branch_refs counts one for each branch, for ever, so the collection of      *)
(* branches nobody refers to, at max_branches, finds none.                     *)
create_branch(from) ==
  /\ from \in branches \cup {NoBranch} /\ made < MaxBranches
  /\ made' = made + 1 /\ branches' = branches \cup {made'}
  /\ parent' = [parent EXCEPT ![made'] = from]
  /\ UNCHANGED <<master, active, base, layers, frames>>

set_active_branch(b) ==
  /\ b \in branches /\ active' = b
  /\ UNCHANGED <<branches, made, parent, master, base, layers, frames>>

(* Mutant: the frame the layer is at stays in the cache.                       *)
Before_and_at(f, n) == [k \in {k \in DOMAIN f : k <= n} |-> f[k]]
Before(f, n) == [k \in {k \in DOMAIN f : k < n} |-> f[k]]

(* A layer replaces the one at its frame, and the frames from there on are     *)
(* computed again.                                                             *)
add_modification_layer(b, n, mod) ==
  /\ b \in branches
  /\ layers' = [layers EXCEPT ![b] = Updated(layers[b], n, mod)]
  /\ frames' = [frames EXCEPT ![b] = Before(@, n)]
  /\ UNCHANGED <<branches, made, parent, master, active, base>>

(* What a branch shows of a frame: the recording and every layer so far.       *)
Shown(b, n) == <<base, UpTo(layers[b], n)>>

get_frame_from_branch(b, n) ==
  IF n \in DOMAIN frames[b] THEN frames[b] ELSE Updated(frames[b], n, Shown(b, n))

(* Comparing two branches computes the frames that are not cached.             *)
compare_branches(a, b, n) ==
  /\ base # 0 /\ {a, b} \subseteq branches
  /\ frames' = [c \in BranchIds |-> IF c \in {a, b} THEN get_frame_from_branch(c, n)
                                                ELSE frames[c]]
  /\ UNCHANGED <<branches, made, parent, master, active, base, layers>>

HasChildren(b) == \E c \in branches : parent[c] = b

Deletable(b) == b # master /\ ~HasChildren(b)

(* Mutant: a branch goes although others branch off it.                        *)
Removed_with_children(b) == IF b = master THEN branches ELSE branches \ {b}
Removed(b) == IF Deletable(b) THEN branches \ {b} ELSE branches

delete_branch(b) ==
  /\ branches' = Removed(b)
  /\ UNCHANGED <<made, parent, master, active, base, layers, frames>>

(* Every layer of the branch goes to the parent: the strategy decides only     *)
(* what the list of resolutions says, also when it is to take the target's.    *)
(* The frames the parent has cached stay.  A branch with children is merged    *)
(* and then not deleted.                                                       *)
merge_branch(b) ==
  /\ b \in branches /\ parent[b] # NoBranch
  /\ LET p == parent[b] IN
       layers' = [layers EXCEPT ![p] = [k \in DOMAIN @ \cup DOMAIN layers[b] |->
                    IF k \in DOMAIN layers[b] THEN layers[b][k] ELSE @[k]]]
  /\ branches' = Removed(b)
  /\ UNCHANGED <<made, parent, master, active, base, frames>>

-----------------------------------------------------------------------------
(* The requests, each under the manager's lock from where its arguments are    *)
(* read.  One layer of one modification comes with each request.               *)
handle_create_branch == \E from \in BranchIds \cup {NoBranch} : create_branch(from)

handle_switch_branch == \E b \in BranchIds : set_active_branch(b)

handle_add_modification ==
  \E b \in BranchIds, n \in FrameNumbers, mod \in Mods : add_modification_layer(b, n, mod)

handle_merge_branch == \E b \in BranchIds : merge_branch(b)

(* One frame of the range at a time.                                           *)
handle_compare_branches ==
  \E a, b \in BranchIds, n \in FrameNumbers : compare_branches(a, b, n)

handle_delete_branch == \E b \in branches : delete_branch(b)

Next ==
  \/ set_base_recording \/ handle_create_branch \/ handle_switch_branch
  \/ handle_add_modification \/ handle_merge_branch \/ handle_compare_branches
  \/ handle_delete_branch

Spec == Init /\ [][Next]_branchVars

-----------------------------------------------------------------------------
ModificationLayers(f) == DOMAIN f \subseteq FrameNumbers /\ \A n \in DOMAIN f : f[n] \in Mods

(* A branch has its layers, and has computed frames of recordings that were    *)
(* loaded, the present one or one before.                                      *)
TimelineBranch(b) ==
  /\ ModificationLayers(layers[b]) /\ DOMAIN frames[b] \subseteq FrameNumbers
  /\ \A n \in DOMAIN frames[b] : frames[b][n][1] \in 1..base

TypeOK ==
  /\ branches \subseteq 1..made /\ \A b \in BranchIds : [parent_id |-> parent[b]] \in BranchMetadata
  /\ {master, active} \subseteq BranchIds \cup {NoBranch} /\ base <= MaxLoads
  /\ \A b \in BranchIds : TimelineBranch(b)

(* The branches are a forest: whatever is created, merged and deleted, the     *)
(* branch another one came from is still there, and so is the master.          *)
ParentsStay ==
  /\ \A b \in branches : parent[b] \in branches \cup {NoBranch}
  /\ master # NoBranch => master \in branches

(* A branch nothing was merged into shows the layers it has: what it cached    *)
(* before a layer came or went is never shown again.                           *)
LeavesShowLayers ==
  \A b \in branches : (\A c \in BranchIds : parent[c] # b) =>
    \A n \in DOMAIN frames[b] : frames[b][n][2] = UpTo(layers[b], n)

(* timeline_branching.rs:201: "Get a frame with all modifications applied up   *)
(* to that point".                                                             *)
FramesShowLayers ==
  \A b \in branches : \A n \in DOMAIN frames[b] : frames[b][n] = Shown(b, n)
=============================================================================
