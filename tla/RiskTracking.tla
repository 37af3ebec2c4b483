---------------------------- MODULE RiskTracking ----------------------------
(***************************************************************************)
(* Health and exposure risks, how urgent they are and what past decisions  *)
(* knew of them: Controller/risk_tracking.py.  Pure definitions.           *)
(*                                                                         *)
(* Severities are percent.  A pawn is [downed, immediate, danger, old,     *)
(* hediffs]: whether it is downed; whether it is downed, dead, bleeding or *)
(* in great pain, and how badly; whether it is 70 or older; the severity   *)
(* of its tracked conditions.  The environment, the responses and the peak *)
(* severity are only shown, and left out.                                  *)
(***************************************************************************)
EXTENDS Integers, FiniteSets, FiniteSetsExt

CONSTANTS
  Immediate,                \* ImmediateHealthDanger, a condition of its own
  MaxTrackedRisks, RecentCycles     \* RECENT_RESOLUTION_CYCLES

ASSUME RiskAssumption ==
  /\ MaxTrackedRisks \in Nat \ {0} /\ RecentCycles \in Nat

Triage == [none |-> 0, monitor |-> 1, concerning |-> 2, urgent |-> 3, critical |-> 4]

\* A pawn in immediate danger has a risk of its own only if none of its
\* conditions is tracked.
ExtractConditions(pawns) ==
  LET tracked == UNION {{<<p, c>> : c \in DOMAIN pawns[p].hediffs} : p \in DOMAIN pawns}
      alone == {<<p, Immediate>> : p \in {q \in DOMAIN pawns : /\ pawns[q].immediate
                                                              /\ DOMAIN pawns[q].hediffs = {}}}
  IN [k \in tracked \cup alone |->
        [immediate |-> k \in alone,
         severity |-> IF k \in alone THEN pawns[k[1]].danger ELSE pawns[k[1]].hediffs[k[2]],
         vulnerable |-> pawns[k[1]].immediate \/ pawns[k[1]].old]]

\* severity_trend, of a condition known to have had severity before; -1: new.
Trend(before, now) ==
  CASE before < 0 -> "new"
    [] before >= 0 /\ now - before >= 1 /\ (now - before) * 4 >= before -> "worsening"
    [] before >= 0 /\ before - now >= 1 /\ (before - now) * 4 >= before -> "improving"
    [] OTHER -> "stable"

\* The highest level whose condition holds.
ClassifyCondition(c, trend) ==
  LET holds == [critical |-> \/ c.immediate \/ c.severity >= 80
                             \/ c.vulnerable /\ c.severity >= 50,
                urgent |-> \/ c.severity >= 40
                           \/ c.severity >= 20 /\ (c.vulnerable \/ trend = "worsening"),
                concerning |-> \/ c.severity >= 10
                               \/ c.severity >= 5 /\ trend = "worsening",
                monitor |-> TRUE]
  IN CHOOSE l \in DOMAIN holds :
       holds[l] /\ \A m \in DOMAIN holds : holds[m] => Triage[m] <= Triage[l]

\* Resolved while it was minor, and back at about the same severity.
MinorRecurrence(stored, c) ==
  /\ stored.status = "resolved" /\ stored.lastTriage \in {"monitor", "concerning"}
  /\ c.severity <= Max({10, stored.lastSeverity + 5})

Unknown == [status |-> "unknown"]

Known(metadata, k) == IF k \in DOMAIN metadata THEN metadata[k] ELSE Unknown

\* What a condition now says, given the snapshot before and the metadata.
Assessed(k, before, after, metadata) ==
  LET stored == Known(metadata, k)
      was == IF k \in DOMAIN before THEN before[k].severity
             ELSE IF stored.status = "resolved" THEN stored.lastSeverity ELSE -1
      triage == ClassifyCondition(after[k], Trend(was, after[k].severity))
  IN [severity |-> after[k].severity,
      triage |-> IF MinorRecurrence(stored, after[k]) THEN "monitor" ELSE triage]

\* The size of the summary is left out: cutting it drops the least urgent first.
FirstOf(keys, worth(_)) ==
  CHOOSE kept \in SUBSET keys :
    /\ Cardinality(kept) = Min({MaxTrackedRisks, Cardinality(keys)})
    /\ \A k \in kept, l \in keys \ kept : worth(k) >= worth(l)

\* build_operational_risk_summary: the items, the most urgent kept.
OperationalRisk(was, now, metadata) ==
  LET before == ExtractConditions(was)
      after == ExtractConditions(now)
      gone == {k \in DOMAIN before \ DOMAIN after :
                 Triage[ClassifyCondition(before[k], "improving")] <= Triage.concerning}
      all == [k \in DOMAIN after \cup gone |->
                IF k \in gone THEN [severity |-> 0, triage |-> "monitor"]
                ELSE Assessed(k, before, after, metadata)]
      Worth(k) == Triage[all[k].triage]
  IN [k \in FirstOf(DOMAIN all, Worth) |-> all[k]]

OverallTriage(items) == Max({Triage[items[k].triage] : k \in DOMAIN items} \cup {Triage.none})

Interrupts(items) == OverallTriage(items) >= Triage.urgent

\* update_risk_metadata, on each commit: what is there, then what is gone for
\* no longer than a few decisions.
UpdateRiskMetadata(metadata, was, now) ==
  LET before == ExtractConditions(was)
      after == ExtractConditions(now)
      Since(k) == IF metadata[k].status = "resolved" THEN metadata[k].since + 1 ELSE 0
      gone == {k \in DOMAIN metadata \ DOMAIN after : Since(k) <= RecentCycles}
      Worth(k) == IF k \in DOMAIN after THEN 1 ELSE 0
  IN [k \in FirstOf(DOMAIN after \cup gone, Worth) |->
        IF k \in gone THEN [metadata[k] EXCEPT !.status = "resolved", !.since = Since(k)]
        ELSE LET a == Assessed(k, before, after, metadata)
             IN [status |-> "active", lastSeverity |-> a.severity,
                 lastTriage |-> a.triage, since |-> 0]]
=============================================================================
