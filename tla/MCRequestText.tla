---------------------------- MODULE MCRequestText ----------------------------
(* Model checking of RequestText on short lines and bodies. *)
EXTENDS RequestText

MCLines == {<<"k", ":", "v">>, <<"k", "k", ":">>, <<"v", "v", "v">>,
            <<"U", ":", "v">>, <<"k", ":">>}
MCBodies == {<<>>, <<"v">>, <<"k", ":", "v">>, <<"U", ":", "v">>, <<"v", LF, "v">>,
             <<LF, "v", CR, LF>>, <<CR, LF, CR, LF>>, <<"v", NUL, "v">>,
             <<NUL, LF, "U", ":", "v">>}
=============================================================================
