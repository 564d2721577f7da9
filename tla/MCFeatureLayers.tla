--------------------------- MODULE MCFeatureLayers ---------------------------
\* A small instance of FeatureLayers: one field of each kind, three features
\* that meet in all of them, one of which has changed its template.
EXTENDS FeatureLayers

AgentOverlay ==
    [image |-> "ubuntu", features |-> [agent |-> "on"], mounts |-> <<"pixi">>,
     runArgs |-> <<"net">>, onStart |-> [plain |-> "firewall"]]

NewAgentOverlay ==
    [features |-> [agent |-> "on"], mounts |-> <<"home", "pixi">>,
     runArgs |-> <<"net", "raw">>, onStart |-> [firewall |-> "start"]]

WebOverlay ==
    [image |-> "slim", features |-> [web |-> "on"], mounts |-> <<"pixi">>,
     onStart |-> [web |-> "serve"]]

GpuOverlay ==
    [features |-> [web |-> "gpu"], runArgs |-> <<"net">>,
     onStart |-> [firewall |-> "stop"]]

Templates ==
    [agent |-> {AgentOverlay, NewAgentOverlay}, web |-> {WebOverlay},
     gpu |-> {GpuOverlay}]

InitConfig == [image |-> "slim"]

OldFiles ==
    {[image |-> "own", features |-> [web |-> "old"], mounts |-> <<"own", "home">>,
      runArgs |-> <<"net">>, onStart |-> [own |-> "run"]]}

UserValues ==
    [image |-> {"own"}, features |-> {[extra |-> "on"]}, mounts |-> {<<"pixi">>},
     runArgs |-> {<<"raw">>}, onStart |-> {[plain |-> "own"]}]
=============================================================================
