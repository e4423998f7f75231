------------------------------ MODULE MCConnect ------------------------------
EXTENDS Connect

(* A key, with its scheme, with blanks around it, no key, only a scheme *)
MCKeys ==
  {<<"key">>, <<"Bearer", "sp", "key">>, <<"sp", "bearer", "sp", "key", "sp">>,
   <<"sp">>, <<"Bearer", "sp">>}

BaseURL(scheme, query) == [scheme |-> scheme, query |-> query]

MCDefaultURL == BaseURL("wss", <<>>)

(* Every single setting out of, at and in its range, and backoff windows that
   are empty, turned round or in order; WithHTTPClient(nil) sets nothing. *)
MCOptions ==
  [connectTimeout : -1 .. 1] \cup [readTimeout : -1 .. 1] \cup [writeTimeout : -1 .. 1]
  \cup [readLimit : -1 .. 1] \cup [workspace : {<<"sp">>, <<"ws", "sp">>}]
  \cup [attempts : {2}, base : {-1, 0, 1, 4}, max : {-1, 0, 1, 3, 5}]
  \cup [attempts : {-1, 0}, base : {0}, max : {0}]
  \cup [baseURL : {Nil, Bad, BaseURL("https", <<>>), BaseURL("ws", [other |-> "x"]),
                   BaseURL("wss", [model |-> "old"])}]
  \cup {<<>>}

MCStatuses == {101, 200, 301, 400, 401, 402, 403, 404, 405, 429, 500, 501, 502, 503, 504}
=============================================================================
