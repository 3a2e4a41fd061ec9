---------------------------- MODULE MCMaixAsr ------------------------------
(* MaixAsr with no decoder, with each of them alone and with all of them.  *)
EXTENDS MaixAsr

Config(task, raw, dig, kws, lvcsr) ==
    [task |-> task, do_raw |-> raw, do_dig |-> dig, do_kws |-> kws, do_lvcsr |-> lvcsr]

MCOptions ==
    {Config(t, FALSE, FALSE, FALSE, FALSE) : t \in {"testpath", "testlm", "asr"}}
    \cup {Config("asr", d = "RAW", d = "DIG", d = "KWS", d = "LVCSR") :
              d \in {"RAW", "DIG", "KWS", "LVCSR"}}
    \cup {Config("asr", TRUE, TRUE, TRUE, TRUE)}
=============================================================================
