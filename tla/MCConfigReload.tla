--------------------------- MODULE MCConfigReload ---------------------------
(* Documents for TLC: one and the same configuration in each version, one    *)
(* with a scanner and a socket of its own, and three that are not accepted.  *)
EXTENDS ConfigReload

Mine == [imageRepo |-> "mine", imageTag |-> "v1"]
Runtime(kind, name, address) == [kind |-> kind, name |-> name, address |-> address]

Oldest ==
    [apiVersion |-> "v1alpha1",
     body |-> [manager   |-> [runtime |-> Runtime("name", "crio", NoAddress),
                              successRatio |-> 75],
               collector |-> [enabled |-> TRUE],
               eraser    |-> Mine]]

Scanning ==
    [apiVersion |-> "v1alpha3",
     body |-> [manager   |-> [runtime |-> Runtime("spec", "containerd",
                                  [scheme |-> "unix", path |-> "/run/k3s/containerd.sock"]),
                              additionalPodLabels |-> "team"],
               collector |-> [enabled |-> TRUE],
               scanner   |-> [enabled |-> TRUE, config |-> "strict"]]]

\* An address without a name.
Nameless ==
    [apiVersion |-> "v1alpha3",
     body |-> [manager |-> [runtime |-> Runtime("spec", None, SocketOf["crio"])]]]

Unknown == [apiVersion |-> "v1", body |-> Oldest.body]

Documents == {Oldest, Migrated(Oldest), Migrated(Migrated(Oldest)),
              Scanning, Nameless, Unknown, Malformed}
=============================================================================
