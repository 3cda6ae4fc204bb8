-------------------------- MODULE WithheldAuthority --------------------------
(***************************************************************************)
(* What consume-once issuance promises, without its mechanism: an approved *)
(* record becomes live at most once, and while the authority of any record *)
(* is withheld (stale, or with an unknown outcome) no record becomes live. *)
(***************************************************************************)
CONSTANT Record
VARIABLE stage

Stage == {"open", "closed", "live", "withheld", "ended"}

WATypeOK == stage \in [Record -> Stage]

WAInit == stage = [r \in Record |-> "open"]

Publish(r) ==
  /\ stage[r] = "open"
  /\ \A s \in Record : stage[s] # "withheld"
  /\ stage' = [stage EXCEPT ![r] = "live"]

\* Records lose their standing alone or together, as when a source changes, a
\* handoff is uncertain or the host restarts. An ended record may be withheld
\* again by the late failure of its own publication; none comes to life.
Downgrade ==
  /\ stage' \in [Record -> Stage]
  /\ \A r \in Record :
       <<stage[r], stage'[r]>> \in
         {<<s, s>> : s \in Stage} \cup
         {<<"open", "closed">>, <<"live", "withheld">>, <<"live", "ended">>,
          <<"withheld", "ended">>, <<"ended", "withheld">>}

WANext == Downgrade \/ \E r \in Record : Publish(r)

WASpec == WAInit /\ [][WANext]_stage
=============================================================================
