---- MODULE MCHttpServer ----
(***************************************************************************)
(* HttpServer with one request of each kind.                               *)
(***************************************************************************)
EXTENDS HttpServer

To(route, keyOK) == [route |-> route, keyOK |-> keyOK]

OneOfEach ==
    {To("options", FALSE), To("none", FALSE), To("open", FALSE),
     To("metrics", FALSE), To("authed", FALSE), To("authed", TRUE),
     To("webhook", TRUE)}

====
