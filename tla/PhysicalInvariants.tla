------------------------- MODULE PhysicalInvariants -------------------------
(***************************************************************************)
(* evaluatePhysicalInvariants (execution-control-runtime/src/index.ts) and *)
(* the parameters the domain verticals (automotive.ts, grid.ts, ...) put   *)
(* into the actions it reads.  A bound of a Ward is a record of what it    *)
(* demands (kind) and of the parameters it reads: each chain is an         *)
(* a ?? b ?? c of the code, the most preferred parameter first.  A         *)
(* quantity is reduced to its place relative to its limit, a name to       *)
(* whether the Ward lists it; an absent or ill-typed parameter is outside  *)
(* the domain of the parameters.                                           *)
(***************************************************************************)
EXTENDS Integers, Sequences, FiniteSets, FiniteSetsExt

Bound(kind, chains) == [kind |-> kind, chains |-> chains]

\* Bounds that read one parameter each: a limit passes without a reading, a
\* proof does not.  An id that has to be there is a proof too.
AtMost(params) == {Bound("max", {<<p>>}) : p \in params}

AtLeast(params) == {Bound("min", {<<p>>}) : p \in params}

OneOf(params) == {Bound("permit", {<<p>>}) : p \in params}

Proven(params) == {Bound("proof", {<<p>>}) : p \in params}

Never(params) == {Bound("never", {<<p>>}) : p \in params}

Within(params) == {Bound("within", {<<p>>}) : p \in params}

\* min_reefer_temp_c and max_reefer_temp_c are read by the port's check and by
\* the logistics check.
ReeferTemp(kind) ==
    Bound(kind, {<<"reefer_temperature_c", "reefer_setpoint_c">>,
                 <<"cargo_temperature_c", "reefer_temperature_c">>})

\* Compared whenever a Ward declares bounds at all.
DriveHours ==
    Bound("drive_hours", {<<"required_drive_minutes">>, <<"remaining_drive_minutes">>})

Reads(b) == UNION {{c[i] : i \in DOMAIN c} : c \in b.chains}

\* The value of the a ?? b of a chain.
Effective(chain, params) ==
    LET present == {i \in DOMAIN chain : chain[i] \in DOMAIN params}
    IN IF present = {} THEN "absent" ELSE params[chain[Min(present)]]

Level == [below |-> 1, at |-> 2, above |-> 3]

\* Does bound b accept these parameters?
Holds(b, params) ==
    LET values == {Effective(c, params) : c \in b.chains}
        has(p) == Effective(<<p>>, params)
    IN CASE b.kind = "max"             -> "above" \notin values
         [] b.kind = "min"             -> "below" \notin values
         [] b.kind = "permit"          -> "unlisted" \notin values
         [] b.kind = "proof"           -> values \intersect {"absent", "false"} = {}
         [] b.kind = "never"           -> "true" \notin values
         [] b.kind = "within"          -> values = {"inside"}
         [] b.kind = "signal_not_stop" -> "stop" \notin values
         [] b.kind = "collaborative"   ->
                has("human_present") = "true" => has("operating_mode") = "collaborative"
         [] b.kind = "endorsed"        ->
                \/ has("hazmat_class") \in {"absent", "none"}
                \/ has("hazmat_endorsement_valid") = "true"
         [] b.kind = "tpo_or_consent"  ->
                \/ has("patient_consent_valid") = "true"
                \/ Effective(<<"phi_purpose", "tpo_basis">>, params) = "treatment"
         [] b.kind = "break_glass"     ->
                has("tpo_basis") = "emergency" => has("break_glass_attested") = "true"
         [] b.kind = "drive_hours"     ->
                \/ "absent" \in values
                \/ Level[has("required_drive_minutes")] =< Level[has("remaining_drive_minutes")]

(* bounds is the Ward's physical_bounds: absent, or the set of the bounds  *)
(* it declares.  interlocked: the action's type is one of the hard         *)
(* interlocks, which no parameter can excuse.                              *)
evaluatePhysicalInvariants(interlocked, params, bounds) ==
    \A declared \in bounds :
        ~interlocked /\ \A b \in declared \union {DriveHours} : Holds(b, params)

-----------------------------------------------------------------------------
(* The bounds of each vertical, in the order of the code.                  *)

droneBounds == AtMost({"altitude_m"}) \union OneOf({"boundary_id"})

automotiveBounds ==
    AtMost({"speed_mps"}) \union
    AtLeast({"battery_pct", "map_confidence", "localization_confidence",
         "perception_confidence"}) \union
    OneOf({"odd_id", "road_class", "drive_state"}) \union
    Proven({"mrc_available"})

gridBounds ==
    AtMost({"voltage_kv", "frequency_hz", "feeder_load_pct", "transformer_load_pct",
         "der_export_mw", "telemetry_age_ms"}) \union
    AtLeast({"voltage_kv", "frequency_hz"}) \union
    OneOf({"topology_model_id", "voltage_class", "asset_type", "grid_state"}) \union
    Proven({"switching_order_id", "crew_clearance_released",
         "protection_state_known", "scada_fresh", "manual_fallback_ready"})

railBounds ==
    AtMost({"train_length_ft", "train_tonnage", "ptc_telemetry_age_ms"}) \union
    AtLeast({"train_separation_m"}) \union
    OneOf({"territory_id", "route_class", "track_class", "signal_aspect",
         "train_type", "operating_state"}) \union
    Proven({"ptc_active", "switch_position_proven", "work_zone_released",
         "track_bulletin_ack", "dispatcher_id", "brake_test_current",
         "consist_hash", "grade_crossing_protected", "crew_acknowledged"}) \union
    Never({"conflicting_authority_present"}) \union
    {Bound("max", {<<"authority_speed_mph", "speed_mph", "max_speed_mph">>}),
     Bound("signal_not_stop", {<<"signal_aspect">>})}

\* Mutant: the measured pressure is preferred to the commanded one.
maxPressure_MeasuredFirst == Bound("max", {<<"pressure_psig", "setpoint_psig">>})

\* max_pressure_psig
maxPressure == Bound("max", {<<"setpoint_psig", "pressure_psig">>})

pipelineBounds ==
    AtMost({"pressure_pct_maop", "flow_bbl_per_day", "flow_mmscfd"}) \union
    AtLeast({"pressure_psig"}) \union
    OneOf({"segment_id", "system_model_id", "pipeline_state"}) \union
    Proven({"leak_detection_armed", "overpressure_protection_active", "esd_ready",
         "segment_isolation_ready", "pump_primed", "pipeline_scada_fresh",
         "operator_qualified"}) \union
    {maxPressure}

miningBounds ==
    AtMost({"methane_pct", "co_ppm", "speed_kph", "tailings_pond_level_m",
         "hoist_load_kg"}) \union
    AtLeast({"oxygen_pct", "airflow_cfm", "tailings_freeboard_m"}) \union
    OneOf({"site_id", "zone_id", "mine_state"}) \union
    Proven({"proximity_detection_active", "exclusion_zone_clear",
         "personnel_cleared", "ground_control_stable", "gas_monitoring_active",
         "ventilation_on", "piezometer_monitoring_active",
         "overspeed_protection_active", "mining_scada_fresh"})

portBounds ==
    AtMost({"container_weight_kg", "ais_track_age_ms", "ot_telemetry_age_ms",
         "wind_speed_kn"}) \union
    AtLeast({"pnt_confidence"}) \union
    OneOf({"port_id", "terminal_id", "berth_id", "gate_id", "cargo_type",
         "hazmat_class", "terminal_network_zone"}) \union
    Proven({"vgm_verified", "crane_exclusion_zone_clear", "spreader_locked",
         "tide_window_open", "vessel_clearance_granted",
         "truck_appointment_valid", "driver_identity_verified",
         "cold_chain_valid", "shore_power_lockout_released",
         "shore_power_isolated", "fire_watch_ready", "hazmat_route_approved",
         "gate_access_granted", "operator_id"}) \union
    Never({"customs_hold", "security_hold", "inspection_hold",
         "berth_conflict_present", "vendor_remote_session"}) \union
    {Bound("permit", {<<"yard_block_id", "to_block", "from_block">>}),
     ReeferTemp("min"),
     ReeferTemp("max")}

waterBounds ==
    AtMost({"pressure_psi", "tank_level_pct", "wetwell_level_pct", "turbidity_ntu",
         "ph", "sensor_age_ms", "lab_sample_age_min", "flow_mgd"}) \union
    AtLeast({"chlorine_residual_mg_l", "pressure_psi", "tank_level_pct", "ph",
         "uv_intensity_pct"}) \union
    OneOf({"water_system_id", "facility_id", "pressure_zone_id", "process_area",
         "asset_type", "discharge_permit_id"}) \union
    Proven({"scada_fresh", "backflow_risk_clear", "disinfection_active",
         "chemical_inventory_ok", "pump_available", "valve_interlock_clear",
         "discharge_permit_window_open"}) \union
    Never({"bypass_active"}) \union
    {Bound("max", {<<"chlorine_dose_mg_l", "dose_mg_l">>})}

aviationBounds ==
    AtMost({"altitude_agl_ft", "groundspeed_kts", "wind_speed_kts", "payload_kg"}) \union
    AtLeast({"battery_soc_pct", "visibility_sm", "ceiling_ft"}) \union
    OneOf({"airspace_id", "airspace_class", "operation_volume_id", "flight_state"}) \union
    Proven({"geofence_active", "remote_id_broadcasting", "daa_active",
         "c2_link_healthy", "airspace_authorization_active", "no_active_tfr",
         "vlos_or_waiver", "rtl_available", "vertiport_clearance",
         "weather_within_limits", "ops_over_people_authorized"})

roboticsBounds ==
    AtMost({"tcp_speed_mm_s", "force_n", "torque_nm", "power_w", "com_deviation_mm",
         "step_height_mm"}) \union
    AtLeast({"separation_distance_mm"}) \union
    OneOf({"workcell_id", "robot_zone", "operating_mode", "robot_state"}) \union
    Proven({"estop_functional", "protective_stop_armed", "ssm_active", "pfl_active",
         "collision_detection_active", "safety_scanner_active",
         "balance_controller_active", "fall_protection_armed",
         "teleop_link_healthy"}) \union
    {Bound("collaborative", {<<"human_present">>, <<"operating_mode">>})}

logisticsBounds ==
    AtMost({"gross_weight_lbs", "cargo_value_usd", "fuel_advance_usd",
         "accessorial_amount_usd", "fraud_score", "double_broker_risk_score",
         "eld_event_age_ms", "telematics_age_ms", "route_deviation_km"}) \union
    AtLeast({"remaining_drive_minutes", "remaining_duty_minutes"}) \union
    OneOf({"logistics_network_id", "route_id", "geofence_id", "carrier_id",
         "driver_id", "hazmat_class", "trailer_type", "cdl_class"}) \union
    Proven({"driver_qualified", "medical_card_valid", "carrier_authority_active",
         "carrier_insurance_valid", "broker_authority_active", "hos_available",
         "eld_fresh", "route_permitted", "restricted_area_clear",
         "vehicle_maintenance_clear", "dvir_clear", "trailer_seal_intact",
         "cargo_secured", "temperature_in_range", "customs_clearance_present",
         "appointment_valid", "dock_available", "yard_gate_access_granted",
         "fuel_card_active", "dispatcher_id"}) \union
    Never({"double_broker_flag"}) \union
    {Bound("permit", {<<"cargo_class", "cargo_type">>}),
     ReeferTemp("min"),
     ReeferTemp("max"),
     Bound("permit", {<<"origin_facility_id">>, <<"destination_facility_id">>,
          <<"current_facility_id">>}),
     Bound("endorsed", {<<"hazmat_class">>, <<"hazmat_endorsement_valid">>})}

swarmBounds ==
    AtMost({"swarm_size", "swarm_radius_m", "unit_separation_m", "mesh_hops",
         "lost_link_seconds", "authority_sync_age_ms"}) \union
    AtLeast({"swarm_size", "unit_separation_m", "swarm_battery_soc_min_pct",
         "mesh_link_quality"}) \union
    OneOf({"swarm_id", "mission_class"}) \union
    Proven({"mesh_relay_healthy", "fluidity_token_valid",
         "launch_readiness_approved", "recovery_plan_active",
         "balloon_position_monitor_active", "balloon_within_envelope"})

healthcareBounds ==
    AtMost({"phi_record_count", "claim_amount_usd", "patient_message_risk_score",
         "clinical_context_age_ms", "medication_reconciliation_age_ms",
         "device_telemetry_age_ms"}) \union
    OneOf({"healthcare_system_id", "facility_id", "clinical_unit",
         "fhir_resource_type", "order_type", "medication_class", "device_id"}) \union
    Proven({"patient_identity_verified", "clinician_privilege_active",
         "pharmacist_authority_present", "allergy_checked",
         "medication_interaction_clear", "order_signing_authority",
         "diagnosis_context_present", "device_safety_limits_active",
         "alarm_active", "privacy_officer_approval", "deidentification_valid",
         "chart_lock_clear", "human_review_present", "claim_attestation_present",
         "audit_context_present"}) \union
    Never({"allergy_conflict"}) \union
    {Bound("permit", {<<"phi_purpose", "tpo_basis">>}),
     Bound("proof", {<<"patient_context_hash">>, <<"patient_context_present">>}),
     Bound("tpo_or_consent", {<<"patient_consent_valid">>, <<"phi_purpose", "tpo_basis">>}),
     Bound("break_glass", {<<"tpo_basis">>, <<"break_glass_attested">>})}

titleBounds ==
    AtMost({"fraud_risk_score", "warrant_age_ms"}) \union
    AtLeast({"identity_confidence_score"}) \union
    OneOf({"jurisdiction", "transaction_type", "organization_kind"}) \union
    Proven({"dealer_license_active", "lender_active", "lender_elt_participant",
         "signer_authorized", "nmvtis_passed", "theft_flag_clear",
         "odometer_disclosed", "identity_verified",
         "authority_envelope_unrevoked", "warrant_unused",
         "required_forms_present", "vin_inspection_present", "state_supports_elt",
         "state_supports_digital_signature", "digital_signature_accepted",
         "lien_exists", "lien_release_authority_active"})

spaceBounds ==
    AtMost({"surface_wind_kts", "upper_wind_shear_kts_per_kft", "expected_max_q_kpa"}) \union
    OneOf({"launch_site", "vehicle_class"}) \union
    Proven({"range_clear", "fts_armed", "afts_nominal", "fts_battery_ok",
         "fts_rf_link_ok", "propellant_temp_k_within_spec", "itar_cleared",
         "comms_licensed", "hazard_area_cleared", "tracking_radar_acquired",
         "range_commander_go"})

orbitalBounds ==
    AtMost({"delta_v_mps", "burn_duration_s", "conjunction_probability",
         "ephemeris_age_ms", "command_window_age_ms"}) \union
    AtLeast({"miss_distance_km", "power_margin_pct"}) \union
    OneOf({"asset_id", "orbit_regime", "mission_class", "ground_station_id",
         "rf_band", "payload_mode"}) \union
    Proven({"conjunction_screening_clear", "debris_mitigation_plan_approved",
         "rf_authorization_active", "ground_station_authorized",
         "attitude_control_stable", "safe_mode_available",
         "thermal_limits_nominal", "operator_console_locked",
         "payload_tasking_authorized", "export_control_clearance",
         "deorbit_plan_approved", "collision_avoidance_enabled",
         "ephemeris_age_ms"}) \union
    Within({"power_margin_pct"})

\* Bounds of every vertical: geographic scope and model lineage.
generalBounds ==
    droneBounds \union Within({"coordinates"}) \union OneOf({"model_id", "model_hash"})

-----------------------------------------------------------------------------
(* Readings a vertical's snapshot may lack; the others are always in it.   *)

automotiveOptional == {"battery_pct"}

gridOptional ==
    {"feeder_load_pct", "transformer_load_pct", "der_export_mw", "switching_order_id"}

railOptional == {"train_length_ft", "train_tonnage", "dispatcher_id"}

pipelineOptional == {"pressure_pct_maop", "flow_bbl_per_day", "flow_mmscfd"}

miningOptional ==
    {"methane_pct", "co_ppm", "oxygen_pct", "airflow_cfm", "speed_kph",
     "tailings_pond_level_m", "tailings_freeboard_m", "hoist_load_kg",
     "piezometer_monitoring_active", "overspeed_protection_active"}

portOptional ==
    {"berth_id", "yard_block_id", "gate_id", "hazmat_class", "container_weight_kg",
     "ais_track_age_ms", "wind_speed_kn", "reefer_temperature_c", "reefer_setpoint_c",
     "operator_id"}

waterOptional ==
    {"pressure_zone_id", "discharge_permit_id", "chlorine_dose_mg_l", "tank_level_pct",
     "wetwell_level_pct", "uv_intensity_pct"}

aviationOptional ==
    {"groundspeed_kts", "wind_speed_kts", "visibility_sm", "ceiling_ft", "payload_kg",
     "vertiport_clearance", "ops_over_people_authorized"}

roboticsOptional ==
    {"tcp_speed_mm_s", "force_n", "torque_nm", "power_w", "separation_distance_mm",
     "com_deviation_mm", "step_height_mm", "balance_controller_active",
     "fall_protection_armed", "teleop_link_healthy"}

logisticsOptional ==
    {"geofence_id", "hazmat_class", "gross_weight_lbs", "cargo_value_usd",
     "fuel_advance_usd", "accessorial_amount_usd", "cargo_temperature_c",
     "reefer_temperature_c", "dispatcher_id", "current_facility_id"}

swarmOptional ==
    {"swarm_radius_m", "unit_separation_m", "swarm_battery_soc_min_pct",
     "balloon_position_monitor_active", "balloon_within_envelope"}

healthcareOptional ==
    {"order_type", "medication_class", "device_id", "claim_amount_usd",
     "device_telemetry_age_ms"}

titleOptional ==
    {"warrant_age_ms", "dealer_license_active", "lender_active",
     "lender_elt_participant", "warrant_unused", "vin_inspection_present",
     "lien_exists", "lien_release_authority_active"}

orbitalOptional ==
    {"ground_station_id", "rf_band", "payload_mode", "delta_v_mps", "burn_duration_s",
     "conjunction_probability", "miss_distance_km", "deorbit_plan_approved"}

-----------------------------------------------------------------------------
(* What the adapter requests of a vertical write into the action's         *)
(* parameters, as far as a bound reads it: a request is a set of fields, a *)
(* field the set of the parameters it is copied to.                        *)

automotiveRequests == {{{"odd_id"}}}

gridRequests == {{{"der_export_mw"}}}

railRequests ==
    {{{"max_speed_mph", "authority_speed_mph"}}, {{"signal_aspect"}}, {{"consist_hash"}}}

pipelineRequests == {{{"setpoint_psig"}}}

portRequests ==
    {{{"berth_id"}}, {{"gate_id"}}, {{"to_block", "yard_block_id"}, {"from_block"}},
     {{"reefer_setpoint_c"}}, {{"container_weight_kg"}, {"vgm_verified"}},
     {{"hazmat_class"}}}

waterRequests ==
    {{{"chlorine_dose_mg_l", "dose_mg_l"}}, {{"dose_mg_l"}}, {{"tank_level_pct"}},
     {{"uv_intensity_pct"}}}

logisticsRequests ==
    {{{"driver_id"}}, {{"carrier_id"}}, {{"carrier_id"}, {"driver_id"}},
     {{"driver_id"}, {"remaining_drive_minutes"}}, {{"route_id"}},
     {{"fuel_advance_usd"}}, {{"accessorial_amount_usd"}}, {{"hazmat_class"}}}

swarmRequests == {{{"swarm_id"}}}

healthcareRequests ==
    {{{"fhir_resource_type"}}, {{"medication_class"}}, {{"claim_amount_usd"}},
     {{"order_type"}}, {{"device_id"}}}

orbitalRequests ==
    {{{"delta_v_mps"}}, {{"burn_duration_s"}}, {{"delta_v_mps"}, {"burn_duration_s"}},
     {{"rf_band"}}, {{"payload_mode"}}, {{"ground_station_id"}}}

\* Requests of the clients that build a canonical action themselves.
generalRequests ==
    {{{"altitude_m"}}, {{"boundary_id"}}, {{"coordinates"}}, {{"model_id"}}, {{"model_hash"}}}

\* The weighbridge adapter asserts this itself.
AlwaysTrue == {"vgm_verified"}

\* { ...under, ...over }
Spread(under, over) ==
    [p \in DOMAIN under \union DOMAIN over |-> IF p \in DOMAIN over THEN over[p] ELSE under[p]]

\* params: { ...snapshotParams(ctx.snapshot), ...params }
ActionParams(snapshot, request) == Spread(snapshot, request)

\* unmeasured: what the bounds read and no snapshot of the vertical carries.
Vertical(bounds, optional, unmeasured, requests) ==
    [bounds |-> bounds, optional |-> optional, unmeasured |-> unmeasured,
     requests |-> requests]

Verticals ==
    [automotive |-> Vertical(automotiveBounds, automotiveOptional, {}, automotiveRequests),
     grid |-> Vertical(gridBounds, gridOptional, {}, gridRequests),
     rail |-> Vertical(railBounds, railOptional, {"max_speed_mph"}, railRequests),
     pipeline |->
        Vertical(pipelineBounds, pipelineOptional, {"setpoint_psig"}, pipelineRequests),
     mining |-> Vertical(miningBounds, miningOptional, {}, {}),
     port |->
        Vertical(portBounds, portOptional, {"to_block", "from_block", "cargo_temperature_c"},
                 portRequests),
     water |-> Vertical(waterBounds, waterOptional, {"dose_mg_l"}, waterRequests),
     aviation |-> Vertical(aviationBounds, aviationOptional, {}, {}),
     robotics |-> Vertical(roboticsBounds, roboticsOptional, {}, {}),
     logistics |->
        Vertical(logisticsBounds, logisticsOptional, {"reefer_setpoint_c"}, logisticsRequests),
     swarm |-> Vertical(swarmBounds, swarmOptional, {}, swarmRequests),
     healthcare |-> Vertical(healthcareBounds, healthcareOptional, {}, healthcareRequests),
     title |-> Vertical(titleBounds, titleOptional, {}, {}),
     space |-> Vertical(spaceBounds, {}, {}, {}),
     orbital |-> Vertical(orbitalBounds, orbitalOptional, {}, orbitalRequests),
     general |->
        Vertical(generalBounds, {}, UNION {Reads(b) : b \in generalBounds}, generalRequests)]

-----------------------------------------------------------------------------
(* What the bounds promise, in terms of what is known of the plant.        *)

\* What the plant reports or the request asks for: the request's word counts.
Stated(p, snapshot, request) ==
    CASE p \in DOMAIN request -> request[p]
      [] p \in DOMAIN snapshot \ DOMAIN request -> snapshot[p]
      [] OTHER -> "absent"

(* Where one comparison is about several parameters, the first of a pair   *)
(* speaks for the second: a limit of the movement authority for a speed, a *)
(* commanded pressure or dose for one that was measured or asked for       *)
(* elsewhere, a measured temperature for a set point, the name of what is  *)
(* meant for a broader one.                                                *)
SpeaksFor ==
    {<<"authority_speed_mph", "speed_mph">>, <<"authority_speed_mph", "max_speed_mph">>,
     <<"speed_mph", "max_speed_mph">>, <<"setpoint_psig", "pressure_psig">>,
     <<"chlorine_dose_mg_l", "dose_mg_l">>, <<"reefer_temperature_c", "reefer_setpoint_c">>,
     <<"yard_block_id", "to_block">>, <<"yard_block_id", "from_block">>,
     <<"to_block", "from_block">>, <<"cargo_class", "cargo_type">>,
     <<"phi_purpose", "tpo_basis">>}

\* What no parameter of a bound may be; a proof and a position may not be missing.
Excluded ==
    [max |-> {"above"}, min |-> {"below"}, permit |-> {"unlisted"},
     proof |-> {"false", "absent"}, never |-> {"true"}, within |-> {"outside", "absent"},
     signal_not_stop |-> {"stop"}]

(* What a declared bound promises of an admitted action, whatever order    *)
(* the code reads its parameters in.  Every parameter the bound is about   *)
(* is within it, unless one that speaks for it is supplied; nobody stands  *)
(* beside a robot that is not in a collaborative mode; hazardous goods     *)
(* travel with an endorsement, patient data with a consent or for a        *)
(* purpose that needs none; an emergency access is attested.               *)
BoundKept(b, snapshot, request) ==
    LET given(p) == Stated(p, snapshot, request)
        purpose  == IF given("phi_purpose") = "absent" THEN given("tpo_basis")
                                                       ELSE given("phi_purpose")
    IN /\ b.kind \in DOMAIN Excluded =>
             \A p \in Reads(b) : given(p) \in Excluded[b.kind] =>
                 \E q \in Reads(b) : <<q, p>> \in SpeaksFor /\ given(q) # "absent"
       /\ b.kind = "collaborative" /\ given("human_present") = "true" =>
             given("operating_mode") = "collaborative"
       /\ b.kind = "endorsed" /\ given("hazmat_endorsement_valid") # "true" =>
             given("hazmat_class") \in {"absent", "none"}
       /\ b.kind = "tpo_or_consent" /\ given("patient_consent_valid") # "true" =>
             purpose = "treatment"
       /\ b.kind = "break_glass" /\ given("tpo_basis") = "emergency" =>
             given("break_glass_attested") = "true"

\* A Ward that declares any bounds takes neither a hard interlock nor a trip
\* longer than the stated drive time.
LimitsKept(interlocked, snapshot, request, bounds) ==
    /\ bounds # {} =>
          /\ ~interlocked
          /\ Reads(DriveHours) \subseteq DOMAIN snapshot \union DOMAIN request =>
                Level[Stated("required_drive_minutes", snapshot, request)] =<
                    Level[Stated("remaining_drive_minutes", snapshot, request)]
    /\ \A b \in UNION bounds : BoundKept(b, snapshot, request)
=============================================================================
