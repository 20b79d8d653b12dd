-------------------------- MODULE MCMqttConnection --------------------------
(* Instance of MqttConnection: two topics, a request topic whose handler   *)
(* blinks the internet LED and the binary answers, whose handler does not. *)
EXTENDS MqttConnection

MCTopics == <<"json_req", "bin_resp">>
MCLedTopics == {"json_req"}
=============================================================================
