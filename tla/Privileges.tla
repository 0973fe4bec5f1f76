----------------------------- MODULE Privileges -----------------------------
(***************************************************************************)
(* src/privileges.c: giving up the effective user and group in favour of   *)
(* the real ones, for good or until they are restored, by a sequence of    *)
(* system calls any of which may fail and leave the sequence half done.    *)
(*                                                                         *)
(* The credentials of a process are a record                               *)
(*     [uid |-> [r, e, s], gid |-> [r, e, s], groups]                      *)
(* of real, effective and saved ids.  An operation answers the credentials *)
(* it leaves and whether it succeeded; fail is the set of system calls     *)
(* that fail although the process may make them.                           *)
(***************************************************************************)
EXTENDS Integers, FiniteSets

ROOT_UID == 0
LEAVE_UNCHANGED == -1

Did(c)    == [ok |-> TRUE, creds |-> c]
Failed(c) == [ok |-> FALSE, creds |-> c]

-----------------------------------------------------------------------------
(* The system calls, as Linux has them.  which is "uid" or "gid". *)
Privileged(c) == c.uid.e = ROOT_UID

setgroups(c, groups, fail) ==
  IF Privileged(c) /\ "setgroups" \notin fail THEN Did([c EXCEPT !.groups = groups]) ELSE Failed(c)

SETE  == [uid |-> "seteuid", gid |-> "setegid"]
SETRE == [uid |-> "setreuid", gid |-> "setregid"]

(* seteuid and setegid. *)
sete(c, which, e, fail) ==
  IF (Privileged(c) \/ e \in {c[which].r, c[which].e, c[which].s}) /\ SETE[which] \notin fail
    THEN Did([c EXCEPT ![which].e = e])
    ELSE Failed(c)

(* setreuid and setregid.  The saved id follows the effective one if the   *)
(* real id is set or the effective id becomes another than the real one.   *)
setre(c, which, r, e, fail) ==
  LET ids == c[which]
      may == \/ Privileged(c)
             \/ r \in {LEAVE_UNCHANGED, ids.r, ids.e} /\ e \in {ids.r, ids.e, ids.s}
      new == [r |-> IF r = LEAVE_UNCHANGED THEN ids.r ELSE r,
              e |-> e,
              s |-> IF r # LEAVE_UNCHANGED \/ e # ids.r THEN e ELSE ids.s]
  IN  IF may /\ SETRE[which] \notin fail THEN Did([c EXCEPT ![which] = new]) ELSE Failed(c)

-----------------------------------------------------------------------------
(* What a temporary drop stores in its priv_state_t; there are no groups   *)
(* to restore if they could not be read.                                   *)
Saved(c, fail) ==
  [uid |-> c.uid.e, gid |-> c.gid.e, groups |-> IF "getgroups" \in fail THEN {} ELSE c.groups]

(* The real id that is asked for. *)
RealId(permanent, new) == IF permanent THEN new ELSE LEAVE_UNCHANGED

(* Mutant of VerifiedGone: what the attempt answers is not looked at. *)
VerifiedGone_Unchecked(d, which, old, new, fail) ==
  IF ~d.ok \/ new = old THEN d ELSE [sete(d.creds, which, old, fail) EXCEPT !.ok = TRUE]

(* The verification of a permanent drop of one of the ids tries to get the *)
(* old one back, which must fail, and may do so for another reason.        *)
VerifiedGone(d, which, old, new, fail) ==
  IF ~d.ok \/ new = old THEN d
  ELSE LET back == sete(d.creds, which, old, fail)
       IN  [ok |-> ~back.ok /\ back.creds[which].e = new, creds |-> back.creds]

drop_privileges(c, permanent, fail) ==
  LET newgid == c.gid.r    oldgid == c.gid.e
      newuid == c.uid.r    olduid == c.uid.e
      groups == IF olduid = ROOT_UID THEN setgroups(c, {newgid}, fail) ELSE Did(c)
      gids   == IF groups.ok /\ newgid # oldgid
                  THEN setre(groups.creds, "gid", RealId(permanent, newgid), newgid, fail)
                  ELSE groups
      uids   == IF gids.ok /\ newuid # olduid
                  THEN setre(gids.creds, "uid", RealId(permanent, newuid), newuid, fail)
                  ELSE gids
  IN  CASE ~permanent /\ "getgroups" \in fail -> Failed(c)
        [] ~permanent /\ "getgroups" \notin fail ->
             [uids EXCEPT !.ok = @ /\ uids.creds.gid.e = newgid /\ uids.creds.uid.e = newuid]
        [] OTHER ->
             VerifiedGone(VerifiedGone(uids, "gid", oldgid, newgid, fail), "uid", olduid, newuid, fail)

RestoreId(d, which, old, fail) ==
  IF d.ok /\ d.creds[which].e # old THEN sete(d.creds, which, old, fail) ELSE d

(* setgroups refuses the count of -1 that a failed getgroups left. *)
RestoreGroups(d, orig, fail) ==
  CASE ~d.ok \/ orig.uid # ROOT_UID -> d
    [] d.ok /\ orig.uid = ROOT_UID /\ orig.groups = {} -> Failed(d.creds)
    [] OTHER -> setgroups(d.creds, orig.groups, fail)

(* Mutant of restore_privileges: the groups first. *)
restore_privileges_GroupsFirst(c, orig, fail) ==
  RestoreId(RestoreId(RestoreGroups(Did(c), orig, fail), "uid", orig.uid, fail), "gid", orig.gid, fail)

(* The user comes first, since the rest may need its privileges. *)
restore_privileges(c, orig, fail) ==
  RestoreGroups(RestoreId(RestoreId(Did(c), "uid", orig.uid, fail), "gid", orig.gid, fail), orig, fail)
=============================================================================
