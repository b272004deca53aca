------------------------------ MODULE MCMembers ------------------------------
(* Members for TLC: two people, two workspaces, two invites. *)
EXTENDS MemberProperties

\* One name; its random variants are one.
MCNames == {"team"}
MCWithSuffix == [s \in {"team", "team-x"} |-> IF s = "team" THEN {"team-x"} ELSE {}]
=============================================================================
