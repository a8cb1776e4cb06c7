---------------------------- MODULE MCMetricsAgent ----------------------------
(* Two http inputs, one of them with two configurations, and a local input.    *)
EXTENDS MetricsAgent

MCVersions == {"v1", "v2"}
MCConfigs == [v \in MCVersions |->
                IF v = "v1" THEN {<<"http.cpu", "s1">>, <<"http.zzz", "s1">>}
                ELSE {<<"http.cpu", "s2">>}]
MCLocal == {<<"local.mem", "default">>}
MCProviders == {"local", "http"}
MCAccepted == {"http.cpu", "local.mem"}
MCFlaky == {<<"http.cpu", "s2">>}
=============================================================================
