----------------------------- MODULE MCArchive -----------------------------
(***************************************************************************)
(* A repository for the archive to be made of: two modules beside each     *)
(* other of which the name of one begins with the name of the other, a     *)
(* module in a module, one that terraform has downloaded, and a directory  *)
(* outside of the repository, with one in it whose path ends in that of a  *)
(* module.  A link leads to a directory with a link to another one,        *)
(* so that the second is packed where the link is on the disk, and         *)
(* unpacked through that link if that is in the archive, too; or to a      *)
(* directory with a link back to the first one, of which there is no end.  *)
(* No modules call each other in a circle.                                 *)
(***************************************************************************)
EXTENDS Archive

r   == <<"repo">>
app == r \o <<"app">>
sub == app \o <<"sub">>
data == app \o <<"data">>
apple == r \o <<"apple">>
lib == r \o <<"lib">>
out == <<"out">>
twin == out \o app

MCDirs ==
  {r, app, sub, data, apple, lib, out, out \o r, twin, r \o <<".git">>, app \o <<".terraform">>,
   app \o <<".terraform", "modules">>}

MCFiles ==
  {d \o <<"main">> : d \in {app, sub, apple, lib, out, twin}}
    \cup {r \o <<".git", "config">>, app \o <<".terraform", "plugin">>,
          app \o <<".terraform", "modules", "main">>}

MCTargets ==
  (app \o <<"link">> :> {out, r, lib, twin})
    @@ (sub \o <<"link">> :> {apple \o <<"main">>})
    @@ (data \o <<"link">> :> {sub, lib})
    @@ (lib \o <<"link">> :> {data})

MCMayCall ==
  {<<app, sub>>, <<app, lib>>, <<app, apple>>, <<sub, lib>>, <<sub, r>>,
   <<lib, r \o <<"gone">>>>}

MCRoots == {app, sub}

MCLonger == {<<"apple", "app">>}

\* Nothing; or /lib/, and main wherever it is, but not
\* /lib/main and /lib/link.
MCIgnore ==
  {<<>>,
   <<Rule(<<"lib">>, TRUE, TRUE, FALSE), Rule(<<"main">>, FALSE, FALSE, FALSE),
     Rule(<<"lib", "main">>, TRUE, FALSE, TRUE),
     Rule(<<"lib", "link">>, TRUE, FALSE, TRUE)>>}
=============================================================================
