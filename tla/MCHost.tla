------------------------------- MODULE MCHost --------------------------------
(* What the services of the host promise to those who use them: requests over  *)
(* the network, files, the answers of extensions, lyrics, and USB audio.       *)
EXTENDS Network, ExtensionFiles, LyricsProviders, UsbAudio, TLC

VARIABLE part   \* the component that runs; they do not interact

hostVars == <<httpVars, jarVars, dnsVars, filesVars, searchVars, appleVars, usbVars, volumeVars, part>>
HostInit ==
  /\ part \in {"http", "cookies", "dns", "files", "search", "apple", "usb", "volume"}
  /\ HttpInit /\ JarInit /\ DnsInit /\ FilesInit /\ SearchInit /\ AppleInit /\ UsbInit /\ VolumeInit
  /\ Cardinality({n \in Names : cooling[n] = 0}) <= 1
  /\ part # "search" => /\ \A n \in Names : cooling[n] = -1
                        /\ providers = CHOOSE order \in ProviderOrders : TRUE
  /\ part # "volume" => /\ \A c \in 1 .. Channels : device[c] = SilentValue
                        /\ \A c \in 1 .. Channels : ranges[c] = CHOOSE r \in Ranges : TRUE
HostNext ==
  /\ UNCHANGED part
  /\ \/ part = "http" /\ HttpNext
        /\ UNCHANGED <<jarVars, dnsVars, filesVars, searchVars, appleVars, usbVars, volumeVars>>
     \/ part = "cookies" /\ JarNext
        /\ UNCHANGED <<httpVars, dnsVars, filesVars, searchVars, appleVars, usbVars, volumeVars>>
     \/ part = "dns" /\ DnsNext
        /\ UNCHANGED <<httpVars, jarVars, filesVars, searchVars, appleVars, usbVars, volumeVars>>
     \/ part = "files" /\ FilesNext
        /\ UNCHANGED <<httpVars, jarVars, dnsVars, searchVars, appleVars, usbVars, volumeVars>>
     \/ part = "search" /\ SearchNext
        /\ UNCHANGED <<httpVars, jarVars, dnsVars, filesVars, appleVars, usbVars, volumeVars>>
     \/ part = "apple" /\ AppleNext
        /\ UNCHANGED <<httpVars, jarVars, dnsVars, filesVars, searchVars, usbVars, volumeVars>>
     \/ part = "usb" /\ UsbNext
        /\ UNCHANGED <<httpVars, jarVars, dnsVars, filesVars, searchVars, appleVars, volumeVars>>
     \/ part = "volume" /\ VolumeNext
        /\ UNCHANGED <<httpVars, jarVars, dnsVars, filesVars, searchVars, appleVars, usbVars>>
HostSpec == HostInit /\ [][HostNext]_hostVars

HostNames == {<<"a", "com">>, <<"x", "a", "com">>, <<"b", "com">>, <<"ip">>}
HostAddresses == {<<"ip">>}
HostDomains == {<<>>, <<"com">>, <<"a", "com">>, <<"ip">>}
HostPaths == {<<"p", "q">>, <<"p">>}
HostPathAttributes == {<<>>, <<"p">>}
HostZones == [lan |-> [a |-> {"private"}, aaaa |-> {}], six |-> [a |-> {}, aaaa |-> {"public", "private"}]]
HostOrders == {<<"lrclib", "extension", "deezer">>, <<"deezer", "lrclib">>}
VolumeRange(min, max, step) == [min |-> min, max |-> max, step |-> step]
HostRanges == {{VolumeRange(-6, 0, 0)}, {VolumeRange(-5, 1, 3)}, {VolumeRange(-6, -4, 1), VolumeRange(-2, 0, 2)}}
HostSilent == -8
HostStartup == -3
HostValues == -7 .. 1
HostSymmetry == Permutations(Requests)
=============================================================================
