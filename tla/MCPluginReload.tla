---- MODULE MCPluginReload ----
EXTENDS PluginReload

====
