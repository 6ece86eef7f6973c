----------------------------- MODULE MCCommandRun -----------------------------
(***************************************************************************)
(* Two pairs at most, two or three layers in an image. An invocation is an *)
(* ordinary one of its verb with at most two things about it changed. The  *)
(* unit of sizes is the MiB, of which a signed integer holds fewer than    *)
(* 2^14: a budget of 20 GiB wraps to a negative number, as one of 2^33 GiB *)
(* does in 64 bits. The list of the first baseline labels its layers as    *)
(* docker does, so layer 2 is read either way for the second pair.         *)
(***************************************************************************)
EXTENDS CommandRun, TLC

MCMultiplier == [MiB |-> 1, GiB |-> 1024]
MCLimit      == 16384

Ordinary ==
  [verb |-> "diff", typed |-> TRUE, arguments |-> TRUE, format |-> "text",
   config |-> [reads |-> TRUE, sets |-> <<>>],
   platform |-> {}, intra |-> {}, level |-> {}, window |-> {}, workers |-> {},
   candidates |-> {}, budget |-> {}, creds |-> {}, key |-> {}, keyless |-> FALSE,
   dry |-> FALSE, defect |-> "none",
   pairs |-> <<[name |-> "one", baseline |-> "b1", target |-> "t1"]>>]

Second == [name |-> "two", baseline |-> "b2", target |-> "t2"]

\* What can be changed, and to what.
Change ==
  [typed      |-> {FALSE},
   arguments  |-> {FALSE},
   format     |-> {"json", "yaml"},
   config     |-> {[reads |-> FALSE, sets |-> <<>>],
                   [reads |-> TRUE, sets |-> [level |-> 30]],
                   [reads |-> TRUE, sets |-> [window |-> 27, workers |-> 1]]},
   platform   |-> {{""}, {"bogus"}},
   intra      |-> {{"off"}, {"required"}, {"bogus"}},
   level      |-> {{0}, {22}, {23}},
   window     |-> {{9}, {26}, {27}, {31}, {32}, {NoNumber}},
   workers    |-> {{0}, {1}},
   candidates |-> {{0}, {1}, {2}},
   budget     |-> {{[n |-> n, suffix |-> "MiB"]} : n \in {-1, 0, 256, 2048}}
                    \cup {{[n |-> 20, suffix |-> "GiB"]}},
   creds      |-> {{"creds"}, {"malformed creds"}, {"creds", "no-creds"}, {"password"},
                   {"no-creds", "authfile"},
                   {"username"}, {"username", "password"}, {"token", "password"}},
   key        |-> {{"file"}, {"cosign"}, {"unreadable"}},
   keyless    |-> {TRUE},
   dry        |-> {TRUE},
   defect     |-> {"unreadable", "directory"},
   pairs      |-> {<<>>} \cup
     UNION {{<<[name |-> "one", baseline |-> b, target |-> "t1"]>>,
             <<[name |-> "one", baseline |-> "b1", target |-> b]>>} :
              b \in {"", "bare", "reserved"}}
       \cup {<<Ordinary.pairs[1], Second>>,
             <<Ordinary.pairs[1], [Second EXCEPT !.name = "one"]>>,
             <<Ordinary.pairs[1], [Second EXCEPT !.name = "bad name"]>>}]

\* diff and apply are given exactly two references.
Legal(i) == i.verb \in {"diff", "apply"} => Len(i.pairs) = 1 /\ i.defect = "none"

MCInvocations ==
  {i \in UNION {{[Ordinary EXCEPT !.verb = v, ![f] = x, ![g] = y] :
                   x \in Change[f], y \in Change[g]} :
                     v \in Verb, f \in DOMAIN Change, g \in DOMAIN Change} : Legal(i)}

\* The layers.
L(d) ==
  CASE d = 1 -> [digest |-> 1, size |-> 100, media |-> "+gzip"]
    [] d = 2 -> [digest |-> 2, size |-> 128, media |-> "+gzip"]
    [] d = 3 -> [digest |-> 3, size |-> 1025, media |-> ".gzip"]
    [] d = 4 -> [digest |-> 4, size |-> 129, media |-> "+gzip"]
    [] d = 5 -> [digest |-> 5, size |-> 1024, media |-> "tar"]
    [] d = 6 -> [digest |-> 6, size |-> 1025, media |-> "tar"]
    [] d = 7 -> [digest |-> 7, size |-> 1000, media |-> "+gzip"]

MCBlobs ==
  [d \in 1..7 |->
     CASE d = 1 -> [form |-> "+gzip", files |-> [sh |-> 1, ls |-> 1]]
       [] d = 2 -> [form |-> "+gzip", files |-> [app |-> 50]]
       [] d = 3 -> [form |-> "+gzip", files |-> [app |-> 50, sh |-> 1]]
       [] d = 4 -> [form |-> "+gzip", files |-> [sh |-> 1, ls |-> 1, app |-> 50]]
       [] d = 5 -> [form |-> "tar",   files |-> [data |-> 900]]
       [] d = 6 -> [form |-> "other", files |-> <<>>]
       [] d = 7 -> [form |-> "+gzip", files |-> [app |-> 50]]]

Image(ds) == [k \in DOMAIN ds |-> L(ds[k])]
\* Docker's name for what the others call +gzip.
Docker(image) == [k \in DOMAIN image |-> [image[k] EXCEPT !.media = ".gzip"]]
One(ds)   == [fails |-> NoError, list |-> FALSE, images |-> [any |-> Image(ds)]]
List(ds)  == [fails |-> NoError, list |-> TRUE,
              images |-> ("linux/amd64" :> Docker(Image(ds)))]
Down(e)   == [fails |-> e, list |-> FALSE, images |-> <<>>]

MCSources ==
  [b1 |-> {One(<<1, 2, 3>>), List(<<1, 2>>), Down(Raw({}, {"auth"}))},
   b2 |-> {One(<<2, 3, 3>>), One(<<>>)},
   t1 |-> {One(<<1, 4>>), One(<<4, 6>>), Down(Raw({}, {"missing"}))},
   t2 |-> {One(<<4, 2>>), One(<<5, 5, 7>>)},
   reserved |-> {Down(Plain)}]

MCPlatforms == {"linux/amd64"}

MCBundles ==
  {<<[layers |-> Image(<<1, 3>>), bundled |-> {1}]>>,
   <<[layers |-> Image(<<1, 2>>), bundled |-> {}],
     [layers |-> Image(<<2, 4>>), bundled |-> {2, 4}],
     [layers |-> Image(<<4, 6>>), bundled |-> {6}]>>}
===============================================================================
