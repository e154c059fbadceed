--------------------------- MODULE MCRecordJourney --------------------------
EXTENDS RecordJourney

MCHash == ("a" :> [hi |-> 1, lo |-> 2]) @@ ("b" :> [hi |-> 2, lo |-> 1]) @@
          ("id" :> [hi |-> 3, lo |-> 3])
MCBytes == ("a" :> <<1>>) @@ ("b" :> <<2, 3>>)

Sources ==
  {[kind |-> "source", name |-> "b", authority |-> a, provenance |-> p, retired |-> r] :
     a \in {4}, p \in {3}, r \in BOOLEAN}

Ends(local, remote) ==
  ("local-endpoint" :> local) @@ ("remote-endpoint" :> remote) @@
  ("local-port" :> "") @@ ("remote-port" :> remote)
Links ==
  {[kind |-> "link", name |-> "b", link_kind |-> k, generation |-> "a", provenance |-> k,
    capacity_known |-> in + out > 0, capacity_in_bps |-> in, capacity_out_bps |-> out,
    ends |-> Ends(e, "b")] : k \in {3}, in \in {0, 3}, out \in {1}, e \in {"", "a"}}

Key(family, direction, class) == [family |-> family, direction |-> direction, error_class |-> class]
Readings ==
  {<<Key(AdminState, 0, 0), [index |-> 0, value |-> v]>> : v \in {2}}
  \cup {<<Key(OperState, 0, 0), [index |-> 1, value |-> v]>> : v \in {3}}
  \cup {<<k, [index |-> 2, raw |-> 1, width |-> w, reset_declared |-> r]>> :
          k \in {Key(Octets, 1, 0), Key(Errors, 2, 2), Key(Discards, 3, 6)},
          w \in {1}, r \in {TRUE}}
  \cup {<<Key(UtilReported, d, 0), [index |-> 3, ppb |-> 2]>> : d \in {0, 3}}
  \cup {<<Key(SignalQuality, 1, 0), [index |-> 4, value_ppb |-> 1, degraded_declared |-> TRUE]>>}
  \cup {<<Key(FlapReport, 0, 0), [index |-> 5, events |-> 3, window |-> 1]>>}

Names == [n \in ObservationNames |-> IF n \in {"link", "source"} THEN "a" ELSE "b"]
Observations ==
  {[kind |-> "observation", names |-> Names, revision |-> 2, observed_at |-> -1, received_at |-> 1,
    key |-> r[1], payload |-> r[2]] : r \in Readings}

MCRecords == Sources \cup Links \cup Observations

MCOtherLines ==
  {<<>>, <<Field("v", <<"2">>)>>,
   FormatRecord([kind |-> "source", name |-> "a", authority |-> 1, provenance |-> 1, retired |-> FALSE])}
MCNewFields ==
  {Field("retired", <<"false">>), Field("reset", <<"false">>), Field("degraded", <<"true">>),
   Field("capacity-in-bps", <<"0">>), Field("value", <<"up">>), Field("other", <<"1">>)}
MCNewValues ==
  {<<"">>, <<"up">>, <<"unknown">>, <<"4">>, <<"3">>, <<"-2">>, <<"bits32">>,
   <<"errors", "unknown", "crc">>, <<"discards", "in", "other">>, <<"oper-state", "in">>}

Zero == [hi |-> 0, lo |-> 0]
Scope(h) == [source |-> MCHash["a"], incarnation |-> h, epoch |-> MCHash["b"]]
Sample(raw, at) ==
  [reading |-> [raw |-> raw, width |-> 1, reset_declared |-> raw = 0], observed_at |-> at,
   received_at |-> at + 1, sequence |-> raw + 1, scope |-> Scope(MCHash["b"]),
   generation |-> MCHash["a"], gap_epoch |-> raw]
Facts ==
  [id |-> MCHash["a"], name |-> MCBytes["a"], local_endpoint |-> Zero, remote_endpoint |-> MCHash["b"],
   local_port |-> Zero, remote_port |-> Zero, kind |-> 1, generation |-> MCHash["a"],
   capacity_known |-> TRUE, capacity_in_bps |-> 7, capacity_out_bps |-> 0, provenance |-> 2]

MCHeld ==
  [format_version |-> 1, runtime |-> MCHash["id"], incarnation |-> MCHash["b"], saved_at |-> 5,
   acceptance_index |-> 6,
   links |-> <<[facts |-> Facts,
                entry |-> [facts |-> Facts, registered_at |-> -1, last_evidence_at |-> 2,
                           last_accepted_at |-> 3, accepted_observations |-> 1,
                           fenced_observations |-> 2, retired |-> FALSE, has_evidence |-> TRUE],
                generations |-> [current_generation |-> MCHash["a"], has_generation |-> TRUE,
                                 retired_generations |-> <<MCHash["b"]>>, generation_changes |-> 1]]>>,
   sources |-> <<[id |-> MCHash["a"], name |-> MCBytes["a"], authority |-> 3, provenance |-> 1,
                  registered |-> TRUE, retired |-> FALSE]>>,
   slots |-> <<[slot |-> [link |-> MCHash["a"], key |-> Key(Octets, 1, 0)],
                history |-> <<[observation |-> MakeObservation(
                                 [names |-> Names, revision |-> 1, observed_at |-> 0, received_at |-> 1,
                                  key |-> Key(Octets, 1, 0), payload |-> [index |-> 3, ppb |-> 1]]),
                               accepted_at |-> 4, authority |-> 3, provenance |-> 1]>>,
                continuity |-> (MCHash["a"] :>
                  [latest |-> Sample(2, 1), previous |-> Sample(0, -3), has_latest |-> TRUE,
                   has_previous |-> TRUE, last_discontinuity |-> 2, reset_count |-> 1,
                   wrap_count |-> 2, gap_count |-> 3]),
                accepted |-> 1, fenced |-> 2, last_gap_at |-> -1, has_gap |-> TRUE,
                reset_count |-> 4, wrap_count |-> 5]>>,
   streams |-> <<[source |-> MCHash["a"],
                  state |-> [has_scope |-> TRUE, scope |-> Scope(MCHash["b"]), has_sequence |-> TRUE,
                             last_sequence |-> 3, last_observation |-> MCHash["id"], gap_open |-> FALSE,
                             retired_scopes |-> <<Scope(MCHash["a"])>>, accepted |-> 1, fenced |-> 2,
                             gap_count |-> 3, scope_changes |-> 4]]>>,
   transitions |-> <<[id |-> MCHash["id"], link |-> MCHash["a"], kind |-> 11, at |-> 1,
                      generation |-> MCHash["a"], source |-> MCHash["b"], from |-> <<>>,
                      to |-> <<1, 2>>, detail |-> 8]>>,
   total_accepted |-> 1, total_fenced |-> 2, duplicates |-> 3, revision_gaps |-> 4,
   counter_resets |-> 5, counter_wraps |-> 6, transitions_dropped |-> 7]
=============================================================================
