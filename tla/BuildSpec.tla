----------------------------- MODULE BuildSpec -----------------------------
(***************************************************************************)
(* Build Specs, as server/agents/blender_agent.py checks and expands them: *)
(* normalize_build_spec and expand_part_instances.                         *)
(*                                                                         *)
(* A name is a sequence: what the spec wrote, then the number a counted    *)
(* part's instance gets, so that <<"fin", 1>> is "fin_1" whether the spec  *)
(* or the expansion wrote it.                                              *)
(***************************************************************************)
EXTENDS Integers, Sequences, SequencesExt

(* SUPPORTED_GENERATORS: of the counted ones, grid_fin and landing_leg, a  *)
(* count makes several objects.                                            *)
Supported == {"counted", "plain"}

(* normalize_build_spec returns; otherwise it raises.                      *)
Normalizes(parts) ==
  /\ parts # <<>>
  /\ \A i \in DOMAIN parts : parts[i].generator \in Supported
  /\ \A i, j \in DOMAIN parts : parts[i].name = parts[j].name => i = j

(* int(params.get("count", 1) or 1): a count of 0 is one.                  *)
CountOf(part) == IF part.count = 0 THEN 1 ELSE part.count

(* The objects a part becomes.                                             *)
InstancesOf(part) ==
  IF part.generator = "counted" /\ CountOf(part) > 1
    THEN [i \in 1 .. CountOf(part) |-> Append(part.name, i)]
    ELSE <<part.name>>

ObjectsOf(parts) == UNION {Range(InstancesOf(parts[i])) : i \in DOMAIN parts}

Instances(parts) == FlattenSeq([i \in DOMAIN parts |-> InstancesOf(parts[i])])

(* expand_part_instances returns; otherwise it raises.                     *)
ExpandsWell(parts) ==
  /\ Normalizes(parts)
  /\ \A i \in DOMAIN parts : CountOf(parts[i]) >= 1
  /\ IsInjective(Instances(parts))

(* The same of one part, which is all that build_named_part looks at.      *)
ExpandsAlone(part) == ExpandsWell(<<part>>)
=============================================================================
