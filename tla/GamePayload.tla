---------------------------- MODULE GamePayload ----------------------------
(***************************************************************************)
(* What a GameState event tells of a GameStateMessage:                     *)
(* build_game_state_message_payload (parsers/gre/game_state.rs) and the    *)
(* annotations of parsers/gre/annotations.rs.                              *)
(***************************************************************************)
EXTENDS SequencesExt, JsonValue

(* The elements of an array, those without their id left out.              *)
Identified(gsm, array, id) ==
  LET elements == unwrap_or(get(gsm, array), <<>>)
  IN  At(elements, {i \in DOMAIN elements : id \in DOMAIN elements[i]})

-----------------------------------------------------------------------------
(* Timers, zones, objects.                                                 *)

extract_single_timer(timer) ==
  Copied(timer, [timer_id |-> Num("timerId"), type |-> Text("type"),
                 duration_sec |-> Num("durationSec"), behavior |-> Text("behavior")])
  ++ CopiedIfPresent(timer,
       [elapsed_sec |-> Num("elapsedSec"), elapsed_ms |-> Num("elapsedMs"),
        running |-> From("running", FALSE),
        warning_threshold_sec |-> Num("warningThresholdSec")])

extract_timers(gsm) ==
  Each(Identified(gsm, "timers", "timerId"), extract_single_timer)

extract_single_zone(zone) ==
  Copied(zone, [zone_id |-> Num("zoneId"), zone_type |-> From("type", "Unknown"),
                owner_seat_id |-> Num("ownerSeatId"),
                visibility |-> Text("visibility"),
                object_instance_ids |-> List("objectInstanceIds")])

(* Mutant: a zone without objects is left out, as if it had not changed.   *)
FilledZones(gsm) ==
  Each(SelectSeq(Identified(gsm, "zones", "zoneId"),
                 LAMBDA zone : "objectInstanceIds" \in DOMAIN zone),
       extract_single_zone)

extract_zones(gsm) == Each(Identified(gsm, "zones", "zoneId"), extract_single_zone)

(* power and toughness are nested, { "value": 3 }.                         *)
extract_nested_value(object, key) ==
  get(unwrap_or(get(object, key), <<>>), "value")

block_info(object) ==
  LET ids == unwrap_or(get(unwrap_or(get(object, "blockInfo"), <<>>),
                           "attackerIds"), <<>>)
  IN  IF ids = <<>> THEN <<>> ELSE [block_info |-> [attacker_ids |-> ids]]

extract_single_game_object(object) ==
  Copied(object,
    [instance_id |-> Num("instanceId"), grp_id |-> Num("grpId"),
     object_type |-> From("type", "Unknown"), zone_id |-> Num("zoneId"),
     visibility |-> Text("visibility"), owner_seat_id |-> Num("ownerSeatId"),
     controller_seat_id |-> Num("controllerSeatId"),
     card_types |-> List("cardTypes"), subtypes |-> List("subtypes"),
     abilities |-> List("abilities")])
  ++ [name |-> get(object, "name"),
      power |-> extract_nested_value(object, "power"),
      toughness |-> extract_nested_value(object, "toughness")]
  ++ CopiedIfPresent(object,
       [attack_state |-> Text("attackState"), block_state |-> Text("blockState")])
  ++ block_info(object)
  ++ CopiedIfPresent(object,
       [object_source_grp_id |-> Num("objectSourceGrpId"),
        parent_id |-> Num("parentId")])

extract_game_objects(gsm) ==
  Each(Identified(gsm, "gameObjects", "instanceId"), extract_single_game_object)

extract_turn_info(gsm) ==
  IF "turnInfo" \notin DOMAIN gsm THEN <<>>
  ELSE <<Copied(gsm.turnInfo,
           [turn_number |-> Num("turnNumber"), phase |-> Text("phase"),
            step |-> Text("step"), active_player |-> Num("activePlayer"),
            decision_player |-> Num("decisionPlayer")])>>

-----------------------------------------------------------------------------
(* Annotations.                                                            *)

(* The type is an array of types, or in old logs one type (a value of      *)
(* another kind, here under a key of its own).                             *)
read_annotation_types(annotation) ==
  LET type == unwrap_or(get(annotation, "type"), <<>>)
  IN  IF "legacy_type" \in DOMAIN annotation
      THEN <<annotation.legacy_type>> ELSE type

read_annotation_type(annotation) ==
  LET types == read_annotation_types(annotation)
  IN  IF types = <<>> THEN "" ELSE Head(types)

(* The values of the first detail that has the key.                        *)
DetailOf(details, key) ==
  LET found == At(details, {i \in DOMAIN details : details[i].key = key})
  IN  IF found = <<>> THEN <<>> ELSE Head(found).values

(* detail_int_array takes every value, detail_int and detail_str the first *)
(* one.                                                                    *)
detail(details, field) ==
  LET values == DetailOf(details, field.key)
  IN  IF values = <<>> THEN field.default
      ELSE IF field.all THEN values ELSE Head(values)

Always(details, fields) ==
  [name \in DOMAIN fields |-> detail(details, fields[name])]

IfPresent(details, fields) ==
  LET present == {name \in DOMAIN fields :
                    DetailOf(details, fields[name].key) # <<>>}
  IN  [name \in present |-> detail(details, fields[name])]

zone_transfer_fields ==
  [zone_src |-> Num("zone_src"), zone_dest |-> Num("zone_dest"),
   category |-> Text("category")]

(* Mutant: the ids are swapped.                                            *)
BackwardFields == [old_id |-> Num("new_id"), new_id |-> Num("orig_id")]

object_id_changed_fields == [old_id |-> Num("orig_id"), new_id |-> Num("new_id")]

damage_dealt_fields == [damage |-> Num("damage"), damage_type |-> Num("type")]

counter_fields ==
  [counter_type |-> Num("counter_type"), amount |-> Num("transaction_amount")]

add_ability_fields ==
  [granted_ability_grp_ids |-> List("grpid"),
   source_ability_grp_id |-> Num("sourceAbilityGRPID"),
   effect_id |-> Num("effect_id")]

target_spec_fields ==
  [ability_grp_id |-> Num("abilityGrpId"), target_index |-> Num("index")]

modified_life_fields == [life |-> Num("life")]

pt_mod_fields == [power |-> Num("power"), toughness |-> Num("toughness")]

triggering_object_fields == [source_zone |-> Num("source_zone")]

mana_paid_fields == [mana_payment_id |-> Num("id"), color |-> Num("color")]

user_action_fields ==
  [action_type |-> Num("actionType"), ability_grp_id |-> Num("abilityGrpId")]

scry_fields == [top_ids |-> List("topIds"), bottom_ids |-> List("bottomIds")]

shuffle_fields == [old_ids |-> List("OldIds"), new_ids |-> List("NewIds")]

designation_fields == [designation_type |-> Num("DesignationType")]

designation_details ==
  [conjuration_type |-> Text("conjuration_type"),
   source_grpid |-> Num("source_grpid"), grpid |-> Num("grpid"),
   value |-> Num("value"), controller_id |-> Num("ControllerId")]

choice_result_fields == [choice_value |-> Num("Choice_Value")]

choice_result_details ==
  [choice_domain |-> Num("Choice_Domain"),
   choice_sentiment |-> Num("Choice_Sentiment")]

link_info_details ==
  [choose_link_type |-> Text("ChooseLinkType"),
   source_ability_grp_id |-> Num("sourceAbilityGRPID"),
   link_type |-> Num("LinkType")]

TypeFields ==
  [ZoneTransfer |-> zone_transfer_fields,
   ObjectIdChanged |-> object_id_changed_fields,
   DamageDealt |-> damage_dealt_fields,
   CounterAdded |-> counter_fields, CounterRemoved |-> counter_fields,
   AddAbility |-> add_ability_fields, TargetSpec |-> target_spec_fields,
   ModifiedLife |-> modified_life_fields,
   PowerToughnessModCreated |-> pt_mod_fields,
   TriggeringObject |-> triggering_object_fields,
   ManaPaid |-> mana_paid_fields, UserActionTaken |-> user_action_fields,
   Scry |-> scry_fields, Shuffle |-> shuffle_fields,
   Designation |-> designation_fields, ChoiceResult |-> choice_result_fields]

TypeDetails ==
  [Designation |-> designation_details, ChoiceResult |-> choice_result_details,
   LinkInfo |-> link_info_details]

add_type_specific_fields(type, affected_ids, details) ==
  Always(details, unwrap_or(get(TypeFields, type), <<>>))
  ++ IfPresent(details, unwrap_or(get(TypeDetails, type), <<>>))
  ++ IF type = "Designation"
     THEN [instance_id |-> IF affected_ids = <<>> THEN 0 ELSE Head(affected_ids)]
     ELSE <<>>

extract_single_annotation(annotation) ==
  LET base == Copied(annotation, [id |-> Num("id"), affector_id |-> Num("affectorId"),
                                  affected_ids |-> List("affectedIds")])
      type == read_annotation_type(annotation)
  IN  base
      ++ [type |-> type, types |-> read_annotation_types(annotation)]
      ++ IF "details" \in DOMAIN annotation
         THEN add_type_specific_fields(type, base.affected_ids, annotation.details)
         ELSE <<>>

extract_annotations(gsm) ==
  Each(Identified(gsm, "annotations", "id"), extract_single_annotation)

extract_persistent_annotations(gsm) ==
  Each(Identified(gsm, "persistentAnnotations", "id"), extract_single_annotation)

-----------------------------------------------------------------------------
(* Mutant: the id of the state itself.                                     *)
OwnId(gsm) == get(gsm, "gameStateId")

prev_game_state_id(gsm) == get(gsm, "prevGameStateId")

diff_deleted_instance_ids(gsm) ==
  unwrap_or(get(gsm, "diffDeletedInstanceIds"), <<>>)

(* Mutant: a Full state is a Full state.                                   *)
NoUndo(gsm) ==
  IF get(gsm, "type") = <<"GameStateType_Full">> THEN <<"GameStateUpdate_Send">>
  ELSE get(gsm, "update")

update(gsm) == get(gsm, "update")

(* Under `lean' only what a consumer of results needs.                     *)
build_game_state_message_payload(gre_msg, lean) ==
  LET gsm == unwrap_or(get(gre_msg, "gameStateMessage"), <<>>)
  IN  [type |-> IF unwrap_or(get(gre_msg, "type"), "") = "QueuedGameStateMessage"
                THEN "queued_game_state_message" ELSE "game_state_message",
       game_state_type |-> get(gsm, "type"),
       update |-> update(gsm),
       prev_game_state_id |-> prev_game_state_id(gsm),
       game_info |-> get(gsm, "gameInfo"),
       turn_info |-> extract_turn_info(gsm),
       diff_deleted_instance_ids |-> diff_deleted_instance_ids(gsm)]
      ++ Copied(gre_msg, [msg_id |-> Num("msgId"), game_state_id |-> Num("gameStateId")])
      ++ IF lean THEN <<>>
         ELSE [zones |-> extract_zones(gsm),
               game_objects |-> extract_game_objects(gsm),
               annotations |-> extract_annotations(gsm),
               persistent_annotations |-> extract_persistent_annotations(gsm),
               timers |-> extract_timers(gsm)]
=============================================================================
